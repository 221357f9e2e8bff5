------------------------- MODULE ParsedTruth_proofs -------------------------
(***************************************************************************)
(* What specs 005 and 007 leave behind is true, for any contents, texts,   *)
(* kills, exceptions and overlapping parsers: a manifest of the files      *)
(* beside it, and a report of the manifests.  And what spec 006 makes of   *)
(* it: to register twice is to register once, and what a parser delivers   *)
(* is registered as it is, so that spec 008 finds nothing to complain of.  *)
(***************************************************************************)
EXTENDS ParsePipeline_proofs

Told == {"SUCCESS", "EMPTY"}

Truthful(d) ==
  d.manifest.status \in Told =>
    /\ d.text = d.manifest.hash
    /\ d.meta = d.manifest.parser
    /\ d.manifest.status = "EMPTY" <=> d.manifest.hash = Blank

(***************************************************************************)
(* ManifestIsTrue is not inductive: WriteManifest does not look at the     *)
(* other two files.  What command p has written so far is what its         *)
(* manifest is going to say, as long as it has been alone (clean) or       *)
(* nobody has been caught between two files of the content (torn).         *)
(***************************************************************************)
VerdictFits(me) ==
  me.pc \in {"text", "meta", "manifest"} /\ me.verdict \in Told =>
    me.out # None /\ (me.verdict = "EMPTY" <=> me.out = Blank)

WrittenFits(p, me, d) ==
  /\ me.pc = "meta" => d.text = me.out
  /\ me.pc = "manifest" /\ me.verdict \in Told => d.text = me.out /\ d.meta = p

TrueSoFar(p) ==
  /\ VerdictFits(parser[p])
  /\ parser[p].clean \/ parser[p].cur \notin torn =>
       WrittenFits(p, parser[p], disk[parser[p].cur])

ManifestInv == ManifestIsTrue /\ \A p \in Parsers : TrueSoFar(p)

LEMMA ManifestsTruthful ==
  ManifestIsTrue <=>
    \A s \in Contents : s \notin torn /\ Quiet(s) => Truthful(disk[s])
BY DEF ManifestIsTrue, Truthful, Told

\* The others at most learn that they are disturbed.
OthersStay(p) ==
  \A q \in Parsers \ {p} :
    \/ parser'[q] = parser[q]
    \/ parser'[q] = [parser[q] EXCEPT !.clean = FALSE]

LEMMA MovesLeaveOthers ==
  ASSUME parser \in [Parsers -> ParserState], NEW p \in Parsers,
         NEW new \in ParserState,
         Moves(p, new) \/ parser' = [parser EXCEPT ![p] = new]
  PROVE  parser'[p] = new /\ OthersStay(p)
BY DEF Moves, OthersStay

LEMMA OthersFields ==
  ASSUME parser \in [Parsers -> ParserState], NEW p \in Parsers, OthersStay(p),
         NEW q \in Parsers \ {p}
  PROVE  /\ parser'[q].pc = parser[q].pc /\ parser'[q].cur = parser[q].cur
         /\ parser'[q].verdict = parser[q].verdict
         /\ parser'[q].out = parser[q].out
         /\ parser'[q].batch = parser[q].batch
         /\ parser'[q].items = parser[q].items
         /\ parser'[q].clean => parser[q].clean
         /\ Writing(q)' = Writing(q)
<1>1. parser[q] \in ParserState
  OBVIOUS
<1> QED
  BY <1>1 DEF OthersStay, ParserState, Writing

\* A step of a command between its writes: it turns to a content, converts it,
\* begins or ends.
LEMMA TruthWithoutWrite ==
  ASSUME StoreInv, ManifestInv, NEW p \in Parsers, NEW new \in ParserState,
         ~Writing(p), parser'[p] = new, OthersStay(p),
         disk' = disk, torn' = torn,
         VerdictFits(new),
         new.pc # "meta" /\ (new.pc = "manifest" => new.verdict = "FAILED")
  PROVE  ManifestInv'
<1>1. parser \in [Parsers -> ParserState]
  BY DEF StoreInv, StoreTypeOK
<1>2. \A s \in Contents : Quiet(s)' => Quiet(s)
  BY <1>1, OthersFields DEF Quiet
<1>3. ManifestIsTrue'
  BY <1>2, ManifestsTruthful DEF ManifestInv, ManifestIsTrue
<1>4. TrueSoFar(p)'
  BY DEF TrueSoFar, WrittenFits, Told
<1>5. ASSUME NEW q \in Parsers \ {p}
      PROVE  TrueSoFar(q)'
  <2>1. TrueSoFar(q)
    BY DEF ManifestInv
  <2> QED
    BY <1>1, <2>1, OthersFields DEF TrueSoFar, VerdictFits, WrittenFits
<1> QED
  BY <1>3, <1>4, <1>5 DEF ManifestInv

\* What the file step at pc has to bring about.
WriteFits(p, dir, pc) ==
  LET me == parser[p]
      alone == me.clean \/ me.cur \notin torn
  IN /\ pc \in {"clear meta", "clear manifest", "convert", "meta", "manifest",
                "next"}
     /\ pc = "convert" => dir.manifest.status \notin Told
     /\ pc \in {"meta", "manifest"} => me.pc \in {"text", "meta"}
     /\ pc = "meta" => dir.text = me.out
     /\ pc = "manifest" /\ alone => dir.text = me.out /\ dir.meta = p
     /\ pc = "next" /\ alone => Truthful(dir)

\* The next state of a command that has written a file.
AfterFile(me, pc) ==
  IF pc = "next" THEN [me EXCEPT !.pc = pc, !.cur = None, !.verdict = None,
                                 !.out = None]
  ELSE [me EXCEPT !.pc = pc]

LEMMA FileStepMoves ==
  ASSUME StoreInv, NEW p \in Parsers, NEW dir, NEW pc, FileStep(p, dir, pc)
  PROVE  Moves(p, AfterFile(parser[p], pc))
BY DEF FileStep, Moves, AfterFile

LEMMA FileStepTruth ==
  ASSUME StoreInv, ManifestInv, NEW p \in Parsers, NEW dir, NEW pc,
         Writing(p), WriteFits(p, dir, pc), FileStep(p, dir, pc)
  PROVE  ManifestInv'
<1> DEFINE me == parser[p]
           s == me.cur
           new == AfterFile(me, pc)
           rivals == {q \in Parsers \ {p} : Writing(q) /\ parser[q].cur = s}
<1>1. /\ parser \in [Parsers -> ParserState] /\ me \in ParserState
      /\ s \in Contents /\ disk \in [Contents -> ParsedDir]
  BY DEF StoreInv, StoreTypeOK, ParserHasContent, Writing
<1>2. pc \in {"clear meta", "clear manifest", "convert", "meta", "manifest",
              "next"}
  BY DEF WriteFits
<1>3. /\ new \in ParserState /\ new.pc = pc
      /\ pc # "next" => /\ new.cur = s /\ new.verdict = me.verdict
                        /\ new.out = me.out /\ new.clean = me.clean
  BY <1>1, <1>2 DEF AfterFile, ParserState
<1>4. /\ disk' = [disk EXCEPT ![s] = dir]
      /\ rivals # {} => torn' = torn \cup {s}
      /\ rivals = {} /\ pc \in {"next", "convert"} /\ me.clean => torn' = torn \ {s}
      /\ rivals = {} /\ ~(pc \in {"next", "convert"} /\ me.clean) => torn' = torn
  BY DEF FileStep
<1>5. Moves(p, new)
  BY FileStepMoves
<1>6. \A q \in Parsers \ {p} : parser'[q] = [parser[q] EXCEPT !.clean = FALSE]
  BY <1>5 DEF Moves
<1> HIDE DEF new
<1>7. parser'[p] = new /\ OthersStay(p)
  BY <1>1, <1>3, <1>5, MovesLeaveOthers
<1>8. /\ disk'[s] = dir
      /\ \A t \in Contents \ {s} : disk'[t] = disk[t] /\ (t \in torn' <=> t \in torn)
  BY <1>1, <1>4
<1>9. ASSUME s \notin torn'
      PROVE  rivals = {} /\ (me.clean \/ s \notin torn)
  BY <1>4, <1>9
<1>10. ManifestIsTrue'
  <2> SUFFICES ASSUME NEW t \in Contents, t \notin torn', Quiet(t)'
               PROVE  Truthful(disk'[t])
    BY ManifestsTruthful DEF ManifestIsTrue, Truthful, Told
  <2>1. CASE t = s
    <3>1. pc \in {"next", "convert"}
      BY <1>2, <1>3, <1>7, <2>1 DEF Quiet, Writing
    <3> QED
      BY <1>8, <1>9, <2>1, <3>1 DEF WriteFits, Truthful
  <2>2. CASE t # s
    <3>1. Quiet(t)
      BY <1>1, <1>7, <2>2, OthersFields DEF Quiet
    <3> QED
      BY <1>8, <2>2, <3>1, ManifestsTruthful DEF ManifestInv
  <2> QED
    BY <2>1, <2>2
<1>11. TrueSoFar(p)'
  <2>1. VerdictFits(new)
    BY <1>2, <1>3 DEF ManifestInv, TrueSoFar, VerdictFits, WriteFits
  <2>2. ASSUME new.clean \/ new.cur \notin torn'
        PROVE  WrittenFits(p, new, disk'[new.cur])
    BY <1>2, <1>3, <1>8, <1>9, <2>2 DEF WriteFits, WrittenFits
  <2> QED
    BY <1>7, <2>1, <2>2 DEF TrueSoFar
<1>12. ASSUME NEW q \in Parsers \ {p}
       PROVE  TrueSoFar(q)'
  <2>1. TrueSoFar(q) /\ parser[q] \in ParserState
    BY <1>1 DEF ManifestInv
  <2>2. ~parser'[q].clean
    BY <1>6, <2>1 DEF ParserState
  <2>3. VerdictFits(parser'[q])
    BY <1>1, <1>7, <2>1, OthersFields DEF TrueSoFar, VerdictFits
  <2>4. ASSUME parser'[q].cur \notin torn'
        PROVE  WrittenFits(q, parser'[q], disk'[parser'[q].cur])
    <3>1. CASE parser[q].pc \notin {"meta", "manifest"}
      BY <1>1, <1>7, <3>1, OthersFields DEF WrittenFits
    <3>2. CASE parser[q].pc \in {"meta", "manifest"}
      <4>1. parser[q].cur \in Contents /\ Writing(q)
        BY <3>2 DEF StoreInv, ParserHasContent, Writing
      <4>2. parser'[q].cur = parser[q].cur
        BY <1>1, <1>7, OthersFields
      <4>3. parser[q].cur # s
        BY <1>9, <2>4, <4>1, <4>2
      <4>4. disk'[parser[q].cur] = disk[parser[q].cur] /\ parser[q].cur \notin torn
        BY <1>8, <2>4, <4>1, <4>2, <4>3
      <4>5. WrittenFits(q, parser[q], disk[parser[q].cur])
        BY <2>1, <4>4 DEF TrueSoFar
      <4> QED
        BY <1>1, <1>7, <4>2, <4>4, <4>5, OthersFields DEF WrittenFits
    <3> QED
      BY <3>1, <3>2
  <2> QED
    BY <2>2, <2>3, <2>4 DEF TrueSoFar
<1> QED
  BY <1>10, <1>11, <1>12 DEF ManifestInv

-----------------------------------------------------------------------------
(* The steps of a parser keep ManifestInv.                                 *)

LEMMA StartParseTruth ==
  ASSUME StoreInv, ManifestInv, NEW p \in Parsers, NEW S \in SUBSET Contents,
         NEW force \in BOOLEAN, StartParse(p, S, force)
  PROVE  ManifestInv'
<1> DEFINE alone == Active = {}
           new == [IdleParser EXCEPT !.pc = "next", !.force = force,
                                     !.batch = S, !.clean = alone]
<1>1. /\ parser[p].pc = "idle" /\ Moves(p, new)
      /\ disk' = disk /\ torn' = torn
  BY DEF StartParse, Moves
<1> HIDE DEF alone
<1>2. alone \in BOOLEAN
  BY DEF alone
<1>3. new \in ParserState /\ new.pc = "next"
  BY <1>2, IdleParserType DEF ParserState
<1> HIDE DEF new
<1>4. parser'[p] = new /\ OthersStay(p)
  BY <1>1, <1>3, MovesLeaveOthers DEF StoreInv, StoreTypeOK
<1> QED
  BY <1>1, <1>3, <1>4, TruthWithoutWrite DEF Writing, VerdictFits

LEMMA PlanContentTruth ==
  ASSUME StoreInv, ManifestInv, NEW p \in Parsers, NEW s \in Contents,
         NEW limited \in BOOLEAN, PlanContent(p, s, limited)
  PROVE  ManifestInv'
<1> DEFINE new == parser'[p]
<1>1. /\ parser[p] \in ParserState /\ parser \in [Parsers -> ParserState]
      /\ StoreInv'
  BY PlanContentStep DEF StoreInv, StoreTypeOK, StoreStepOK
<1>2. new \in ParserState
  BY <1>1 DEF StoreInv, StoreTypeOK
<1>3. /\ parser[p].pc = "next" /\ disk' = disk /\ torn' = torn
      /\ OthersStay(p)
  BY <1>1 DEF PlanContent, OthersStay
<1>4. \/ new.pc \in {"next", "clear", "convert"}
      \/ new.pc = "manifest" /\ new.verdict = "FAILED"
  <2> DEFINE d == Decision(p, s, limited)
             plan == [parser[p] EXCEPT !.batch = @ \ {s}, !.cur = s]
  <2>1. d \in {"skip", "no original", "parse"}
    BY DEF Decision
  <2>2. plan \in ParserState /\ plan.pc = "next"
    BY <1>1, <1>3 DEF ParserState
  <2>3. new =
          CASE d = "skip" ->
                 [plan EXCEPT !.items[s] = "SKIPPED", !.cur = None]
            [] d = "no original" /\ p = "markitdown" ->
                 [plan EXCEPT !.items[s] = "FAILED", !.pc = "manifest",
                              !.verdict = "FAILED"]
            [] d = "no original" /\ p = "mineru" ->
                 [plan EXCEPT !.items[s] = "FAILED", !.cur = None]
            [] d = "parse" ->
                 [plan EXCEPT !.pc = IF parser[p].force THEN "clear"
                                     ELSE "convert"]
    BY <1>1 DEF PlanContent
  <2> HIDE DEF d, plan, new
  <2>4. CASE d = "skip"
    BY <2>2, <2>3, <2>4 DEF ParserState
  <2>5. CASE d = "no original" /\ p = "markitdown"
    BY <2>2, <2>3, <2>5 DEF ParserState
  <2>6. CASE d = "no original" /\ p = "mineru"
    BY <2>2, <2>3, <2>6 DEF ParserState
  <2>7. CASE d = "parse"
    BY <2>2, <2>3, <2>7 DEF ParserState
  <2> QED
    BY <2>1, <2>4, <2>5, <2>6, <2>7 DEF Parsers
<1>5. VerdictFits(new)
  BY <1>4 DEF VerdictFits, Told
<1> HIDE DEF new
<1> QED
  BY <1>2, <1>3, <1>4, <1>5, TruthWithoutWrite DEF Writing, new

LEMMA ConvertTruth ==
  ASSUME StoreInv, ManifestInv, NEW p \in Parsers,
         \/ \E out \in Outputs \cup {Blank}, incomplete \in BOOLEAN :
              Converted(p, out, incomplete)
         \/ NotConverted(p)
  PROVE  ManifestInv'
<1> DEFINE new == parser'[p]
<1>1. /\ parser[p] \in ParserState /\ parser \in [Parsers -> ParserState]
      /\ StoreInv'
  BY ConvertStep DEF StoreInv, StoreTypeOK, StoreStepOK
<1>2. new \in ParserState
  BY <1>1 DEF StoreInv, StoreTypeOK
<1>3. /\ parser[p].pc = "convert" /\ disk' = disk /\ torn' = torn
      /\ OthersStay(p)
  BY <1>1 DEF Converted, NotConverted, OthersStay
<1>4. /\ VerdictFits(new)
      /\ new.pc # "meta" /\ (new.pc = "manifest" => new.verdict = "FAILED")
  <2>1. CASE NotConverted(p)
    BY <1>1, <2>1 DEF NotConverted, ParserState, VerdictFits, Told
  <2>2. ASSUME NEW out \in Outputs \cup {Blank}, NEW incomplete \in BOOLEAN,
               Converted(p, out, incomplete)
        PROVE  /\ new.pc = "text" /\ new.out = out
               /\ new.verdict = IF incomplete THEN "FAILED"
                                ELSE IF out = Blank THEN "EMPTY" ELSE "SUCCESS"
    BY <1>1, <2>2 DEF Converted, ParserState
  <2> HIDE DEF new
  <2> QED
    BY <2>1, <2>2, OutputsAssumption DEF VerdictFits, Told, None, Blank
<1> HIDE DEF new
<1> QED
  BY <1>2, <1>3, <1>4, TruthWithoutWrite DEF Writing, new

LEMMA WritesTruth ==
  ASSUME StoreInv, ManifestInv, NEW p \in Parsers,
         \/ ClearText(p) \/ ClearMeta(p) \/ ClearManifest(p)
         \/ WriteText(p) \/ WriteMeta(p) \/ WriteManifest(p)
  PROVE  ManifestInv'
<1> DEFINE me == parser[p]
           d == disk[me.cur]
<1>1. Writing(p)
  BY DEF ClearText, ClearMeta, ClearManifest, WriteText, WriteMeta,
         WriteManifest, Writing
<1>2. d \in ParsedDir
  BY <1>1 DEF StoreInv, StoreTypeOK, ParserHasContent, Writing
<1>3. TrueSoFar(p)
  BY DEF ManifestInv
<1>4. CASE ClearText(p)
  <2>1. WriteFits(p, [d EXCEPT !.text = None], "clear meta")
    BY DEF WriteFits
  <2> QED
    BY <1>1, <1>4, <2>1, FileStepTruth DEF ClearText
<1>5. CASE ClearMeta(p)
  <2>1. WriteFits(p, [d EXCEPT !.meta = None], "clear manifest")
    BY DEF WriteFits
  <2> QED
    BY <1>1, <1>5, <2>1, FileStepTruth DEF ClearMeta
<1>6. CASE ClearManifest(p)
  <2>1. WriteFits(p, [d EXCEPT !.manifest = NoManifest], "convert")
    BY <1>2 DEF WriteFits, NoManifest, ParsedDir, None, Told
  <2> QED
    BY <1>1, <1>6, <2>1, FileStepTruth DEF ClearManifest
<1>7. CASE WriteText(p)
  <2>1. WriteFits(p, [d EXCEPT !.text = me.out], "meta")
    BY <1>2, <1>7 DEF WriteFits, WriteText, ParsedDir
  <2> QED
    BY <1>1, <1>7, <2>1, FileStepTruth DEF WriteText
<1>8. CASE WriteMeta(p)
  <2>1. WriteFits(p, [d EXCEPT !.meta = p], "manifest")
    BY <1>2, <1>3, <1>8
       DEF WriteFits, WriteMeta, ParsedDir, TrueSoFar, WrittenFits
  <2> QED
    BY <1>1, <1>8, <2>1, FileStepTruth DEF WriteMeta
<1>9. CASE WriteManifest(p)
  <2> DEFINE dir == [d EXCEPT !.manifest = NewManifest(p)]
  <2>1. /\ dir.manifest.status = me.verdict /\ dir.manifest.parser = p
        /\ dir.manifest.hash = me.out
        /\ dir.text = d.text /\ dir.meta = d.meta
    BY <1>2 DEF NewManifest, ParsedDir
  <2>2. me.clean \/ me.cur \notin torn => Truthful(dir)
    BY <1>3, <1>9, <2>1
       DEF WriteManifest, TrueSoFar, VerdictFits, WrittenFits, Truthful
  <2>3. WriteFits(p, dir, "next")
    BY <2>2 DEF WriteFits
  <2> QED
    BY <1>1, <1>9, <2>3, FileStepTruth DEF WriteManifest
<1> QED
  BY <1>4, <1>5, <1>6, <1>7, <1>8, <1>9

LEMMA FinishParseTruth ==
  ASSUME StoreInv, ManifestInv, NEW p \in Parsers, FinishParse(p)
  PROVE  ManifestInv'
<1>1. /\ parser[p].pc = "next" /\ parser' = [parser EXCEPT ![p] = IdleParser]
      /\ disk' = disk /\ torn' = torn
  BY DEF FinishParse
<1>2. parser'[p] = IdleParser /\ OthersStay(p)
  BY <1>1, IdleParserType, MovesLeaveOthers DEF StoreInv, StoreTypeOK
<1> QED
  BY <1>1, <1>2, IdleParserType, TruthWithoutWrite DEF Writing, VerdictFits

LEMMA InterruptTruth ==
  ASSUME StoreInv, ManifestInv, NEW p \in Parsers, NEW next \in ParserState,
         next.pc \in {"idle", "next"}, Interrupt(p, next)
  PROVE  ManifestInv'
<1>1. parser \in [Parsers -> ParserState]
  BY DEF StoreInv, StoreTypeOK
<1>2. /\ Moves(p, next)
      /\ \A q \in Parsers \ {p} : parser'[q] = [parser[q] EXCEPT !.clean = FALSE]
  BY DEF Interrupt, Moves
<1>3. parser'[p] = next /\ OthersStay(p)
  BY <1>1, <1>2, MovesLeaveOthers
<1>4. CASE ~Writing(p)
  BY <1>3, <1>4, TruthWithoutWrite DEF Interrupt, VerdictFits
<1>5. CASE Writing(p)
  <2> DEFINE s == parser[p].cur
  <2>1. /\ s \in Contents /\ torn' = torn \cup {s}
        /\ \A t \in Contents \ {s} : disk'[t] = disk[t]
    BY <1>5 DEF Interrupt, Writing, StoreInv, StoreTypeOK, ParserHasContent
  <2>2. ManifestIsTrue'
    <3> SUFFICES ASSUME NEW t \in Contents, t \notin torn', Quiet(t)'
                 PROVE  Truthful(disk'[t])
      BY DEF ManifestIsTrue, Truthful, Told
    <3>1. t # s /\ t \notin torn
      BY <2>1
    <3>2. Quiet(t)
      BY <1>1, <1>3, <3>1, OthersFields DEF Quiet
    <3> QED
      BY <2>1, <3>1, <3>2, ManifestsTruthful DEF ManifestInv
  <2>3. TrueSoFar(p)'
    BY <1>3 DEF TrueSoFar, VerdictFits, WrittenFits
  <2>4. ASSUME NEW q \in Parsers \ {p}
        PROVE  TrueSoFar(q)'
    <3>1. TrueSoFar(q) /\ parser[q] \in ParserState
      BY <1>1 DEF ManifestInv
    <3>2. ~parser'[q].clean
      BY <1>2, <3>1 DEF ParserState
    <3>3. VerdictFits(parser'[q])
      BY <1>1, <1>3, <3>1, OthersFields DEF TrueSoFar, VerdictFits
    <3>4. ASSUME parser'[q].cur \notin torn',
                 parser[q].pc \in {"meta", "manifest"}
          PROVE  WrittenFits(q, parser'[q], disk'[parser'[q].cur])
      <4>1. parser[q].cur \in Contents /\ parser'[q].cur = parser[q].cur
        BY <1>1, <1>3, <3>4, OthersFields DEF StoreInv, ParserHasContent
      <4>2. /\ disk'[parser[q].cur] = disk[parser[q].cur]
            /\ parser[q].cur \notin torn
        BY <2>1, <3>4, <4>1
      <4>3. WrittenFits(q, parser[q], disk[parser[q].cur])
        BY <3>1, <4>2 DEF TrueSoFar
      <4> QED
        BY <1>1, <1>3, <4>1, <4>2, <4>3, OthersFields DEF WrittenFits
    <3>5. parser'[q].pc = parser[q].pc
      BY <1>1, <1>3, OthersFields
    <3> QED
      BY <3>2, <3>3, <3>4, <3>5 DEF TrueSoFar, WrittenFits
  <2> QED
    BY <2>2, <2>3, <2>4 DEF ManifestInv
<1> QED
  BY <1>4, <1>5

-----------------------------------------------------------------------------
(***************************************************************************)
(* Neither is FreshReportIsTrue inductive: the report tells what was noted *)
(* in items, long before it is written.  While a command has been alone,   *)
(* each item that it has noted has its manifest, or will have it: it is    *)
(* that of the content in hand.                                            *)
(***************************************************************************)
Vouched(p, item) == item \in Told \/ (item = "FAILED" /\ p = "markitdown")

ItemFits(p, me, s, m) ==
  Vouched(p, me.items[s]) =>
    IF me.pc # "next" /\ s = me.cur
    THEN me.pc \in {"text", "meta", "manifest"} /\ me.verdict = me.items[s]
    ELSE m.status = me.items[s] /\ m.parser = p

\* What is still to be done has not been noted yet.
Ahead(me, s) ==
  s \in me.batch => me.items[s] = None /\ (me.pc # "next" => s # me.cur)

ReportSoFar(p) ==
  parser[p].clean =>
    \A s \in Contents :
      Ahead(parser[p], s) /\ ItemFits(p, parser[p], s, disk[s].manifest)

ReportInv == FreshReportIsTrue /\ \A p \in Parsers : ReportSoFar(p)

LEMMA FreshReportVouched ==
  FreshReportIsTrue <=>
    (fresh # 0 =>
      \A s \in Contents :
        Vouched(reports[fresh].parser, reports[fresh].items[s]) =>
          /\ disk[s].manifest.status = reports[fresh].items[s]
          /\ disk[s].manifest.parser = reports[fresh].parser)
BY DEF FreshReportIsTrue, Vouched, Told

\* A step of p that touches no directory.
LEMMA ReportWithoutWrite ==
  ASSUME StoreInv, ReportInv, NEW p \in Parsers, NEW new,
         parser'[p] = new, OthersStay(p), disk' = disk, FreshReportIsTrue',
         new.clean => \A s \in Contents :
           Ahead(new, s) /\ ItemFits(p, new, s, disk[s].manifest)
  PROVE  ReportInv'
<1>1. ReportSoFar(p)'
  BY DEF ReportSoFar
<1>2. ASSUME NEW q \in Parsers \ {p}
      PROVE  ReportSoFar(q)'
  <2>1. ReportSoFar(q) /\ parser \in [Parsers -> ParserState]
    BY DEF ReportInv, StoreInv, StoreTypeOK
  <2> QED
    BY <2>1, OthersFields DEF ReportSoFar, Ahead, ItemFits
<1> QED
  BY <1>1, <1>2 DEF ReportInv

\* ... and does not end the command either.
LEMMA FreshStays ==
  ASSUME ReportInv, disk' = disk, reports' = reports, fresh' = fresh
  PROVE  FreshReportIsTrue'
BY DEF ReportInv, FreshReportIsTrue

LEMMA StartParseReport ==
  ASSUME StoreInv, ReportInv, NEW p \in Parsers, NEW S \in SUBSET Contents,
         NEW force \in BOOLEAN, StartParse(p, S, force)
  PROVE  ReportInv'
<1> DEFINE alone == Active = {}
           new == [IdleParser EXCEPT !.pc = "next", !.force = force,
                                     !.batch = S, !.clean = alone]
<1>1. /\ Moves(p, new)
      /\ disk' = disk /\ reports' = reports /\ fresh' = fresh
  BY DEF StartParse, Moves
<1> HIDE DEF alone
<1>2. alone \in BOOLEAN
  BY DEF alone
<1>3. /\ new \in ParserState /\ new.pc = "next"
      /\ \A s \in Contents : new.items[s] = None
  BY <1>2, IdleParserType DEF ParserState, IdleParser
<1> HIDE DEF new
<1>4. parser'[p] = new /\ OthersStay(p)
  BY <1>1, <1>3, MovesLeaveOthers DEF StoreInv, StoreTypeOK
<1>5. \A s \in Contents :
        Ahead(new, s) /\ ItemFits(p, new, s, disk[s].manifest)
  BY <1>3 DEF Ahead, ItemFits, Vouched, Told, None
<1> QED
  BY <1>1, <1>4, <1>5, FreshStays, ReportWithoutWrite

\* The outcomes of PlanContent, once more: what is noted of s and where the
\* command goes.
LEMMA PlanContentOutcome ==
  ASSUME StoreInv, NEW p \in Parsers, NEW s \in Contents,
         NEW limited \in BOOLEAN, PlanContent(p, s, limited)
  PROVE  LET me == parser[p]  new == parser'[p] IN
         /\ me.pc = "next" /\ s \in me.batch
         /\ disk' = disk /\ reports' = reports /\ fresh' = fresh
         /\ original' = original /\ OthersStay(p)
         /\ new.clean = me.clean /\ new.batch = me.batch \ {s}
         /\ \A t \in Contents \ {s} : new.items[t] = me.items[t]
         /\ new.pc # "next" => new.cur = s
         /\ \/ new.pc = "next" /\ ~Vouched(p, new.items[s])
            \/ /\ new.pc = "manifest" /\ new.verdict = "FAILED"
               /\ new.items[s] = "FAILED"
            \/ /\ new.items[s] = me.items[s] /\ new.pc \in {"clear", "convert"}
               /\ original[s]
<1> DEFINE me == parser[p]
           new == parser'[p]
           d == Decision(p, s, limited)
           plan == [parser[p] EXCEPT !.batch = @ \ {s}, !.cur = s]
<1>1. me \in ParserState /\ parser \in [Parsers -> ParserState]
  BY DEF StoreInv, StoreTypeOK
<1>2. /\ me.pc = "next" /\ s \in me.batch
      /\ disk' = disk /\ reports' = reports /\ fresh' = fresh
      /\ original' = original /\ OthersStay(p)
  BY <1>1 DEF PlanContent, OthersStay
<1>3. d \in {"skip", "no original", "parse"} /\ (d = "parse" => original[s])
  BY <1>1 DEF Decision
<1>4. /\ plan \in ParserState /\ plan.pc = "next" /\ plan.cur = s
      /\ plan.items = me.items /\ plan.batch = me.batch \ {s}
      /\ plan.clean = me.clean
  BY <1>1, <1>2 DEF ParserState
<1>5. new =
        CASE d = "skip" ->
               [plan EXCEPT !.items[s] = "SKIPPED", !.cur = None]
          [] d = "no original" /\ p = "markitdown" ->
               [plan EXCEPT !.items[s] = "FAILED", !.pc = "manifest",
                            !.verdict = "FAILED"]
          [] d = "no original" /\ p = "mineru" ->
               [plan EXCEPT !.items[s] = "FAILED", !.cur = None]
          [] d = "parse" ->
               [plan EXCEPT !.pc = IF me.force THEN "clear" ELSE "convert"]
  BY <1>1 DEF PlanContent
<1> HIDE DEF new, d, plan
<1>6. /\ new.clean = me.clean /\ new.batch = me.batch \ {s}
      /\ \A t \in Contents \ {s} : new.items[t] = me.items[t]
      /\ new.pc # "next" => new.cur = s
      /\ \/ new.pc = "next" /\ ~Vouched(p, new.items[s])
         \/ new.pc = "manifest" /\ new.verdict = "FAILED" /\ new.items[s] = "FAILED"
         \/ /\ new.items[s] = me.items[s] /\ new.pc \in {"clear", "convert"}
            /\ d = "parse"
  <2>1. CASE d = "skip"
    BY <1>4, <1>5, <2>1 DEF ParserState, Vouched, Told
  <2>2. CASE d = "no original" /\ p = "markitdown"
    BY <1>4, <1>5, <2>2 DEF ParserState
  <2>3. CASE d = "no original" /\ p = "mineru"
    BY <1>4, <1>5, <2>3 DEF ParserState, Vouched, Told
  <2>4. CASE d = "parse"
    BY <1>4, <1>5, <2>4 DEF ParserState
  <2> QED
    BY <1>3, <2>1, <2>2, <2>3, <2>4 DEF Parsers
<1> QED
  BY <1>2, <1>3, <1>6 DEF new

LEMMA PlanContentReport ==
  ASSUME StoreInv, ReportInv, NEW p \in Parsers, NEW s \in Contents,
         NEW limited \in BOOLEAN, PlanContent(p, s, limited)
  PROVE  ReportInv'
<1>0. PICK me, new : me = parser[p] /\ new = parser'[p]
  OBVIOUS
<1>1. /\ me.pc = "next" /\ s \in me.batch
      /\ disk' = disk /\ reports' = reports /\ fresh' = fresh
      /\ OthersStay(p)
      /\ new.clean = me.clean /\ new.batch = me.batch \ {s}
      /\ \A t \in Contents \ {s} : new.items[t] = me.items[t]
      /\ new.pc # "next" => new.cur = s
      /\ \/ new.pc = "next" /\ ~Vouched(p, new.items[s])
         \/ new.pc = "manifest" /\ new.verdict = "FAILED" /\ new.items[s] = "FAILED"
         \/ new.items[s] = me.items[s]
  BY <1>0, PlanContentOutcome
<1>2. ASSUME new.clean, NEW t \in Contents
      PROVE  Ahead(new, t) /\ ItemFits(p, new, t, disk[t].manifest)
  <2>1. /\ Ahead(me, t) /\ ItemFits(p, me, t, disk[t].manifest)
        /\ me.items[s] = None
    BY <1>0, <1>1, <1>2 DEF ReportInv, ReportSoFar, Ahead
  <2>2. Ahead(new, t)
    BY <1>1, <2>1 DEF Ahead
  <2>3. CASE t # s
    BY <1>1, <2>1, <2>2, <2>3 DEF ItemFits
  <2>4. CASE t = s
    <3>1. ~Vouched(p, None)
      BY DEF Vouched, Told, None
    <3> QED
      BY <1>1, <2>1, <2>2, <2>4, <3>1 DEF ItemFits
  <2> QED
    BY <2>2, <2>3, <2>4
<1> QED
  BY <1>0, <1>1, <1>2, FreshStays, ReportWithoutWrite

\* The outcomes of a conversion: what is noted of the content in hand.
LEMMA ConvertOutcome ==
  ASSUME StoreInv, NEW p \in Parsers,
         \/ \E out \in Outputs \cup {Blank}, incomplete \in BOOLEAN :
              Converted(p, out, incomplete)
         \/ NotConverted(p)
  PROVE  LET me == parser[p]  new == parser'[p]  s == me.cur IN
         /\ me.pc = "convert" /\ s \in Contents
         /\ disk' = disk /\ reports' = reports /\ fresh' = fresh
         /\ original' = original /\ OthersStay(p)
         /\ new.clean = me.clean /\ new.batch = me.batch
         /\ \A t \in Contents \ {s} : new.items[t] = me.items[t]
         /\ \/ new.pc = "next" /\ ~Vouched(p, new.items[s])
            \/ /\ new.pc \in {"text", "manifest"} /\ new.cur = s
               /\ new.verdict = new.items[s]
<1> DEFINE me == parser[p]
           new == parser'[p]
           s == me.cur
<1>1. me \in ParserState /\ parser \in [Parsers -> ParserState]
  BY DEF StoreInv, StoreTypeOK
<1>2. /\ me.pc = "convert"
      /\ disk' = disk /\ reports' = reports /\ fresh' = fresh
      /\ original' = original /\ OthersStay(p)
  BY <1>1 DEF Converted, NotConverted, OthersStay
<1>3. s \in Contents
  BY <1>2 DEF StoreInv, ParserHasContent
<1>4. /\ new.clean = me.clean /\ new.batch = me.batch
      /\ \A t \in Contents \ {s} : new.items[t] = me.items[t]
      /\ \/ new.pc = "next" /\ ~Vouched(p, new.items[s])
         \/ /\ new.pc \in {"text", "manifest"} /\ new.cur = s
            /\ new.verdict = new.items[s]
  <2>1. CASE NotConverted(p)
    <3>1. new = IF p = "markitdown"
                THEN [me EXCEPT !.items[s] = "FAILED", !.pc = "manifest",
                                !.verdict = "FAILED"]
                ELSE [me EXCEPT !.items[s] = "FAILED", !.pc = "next",
                                !.cur = None]
      BY <1>1, <2>1 DEF NotConverted
    <3> HIDE DEF new
    <3>2. CASE p = "markitdown"
      BY <1>1, <1>3, <3>1, <3>2 DEF ParserState
    <3>3. CASE p # "markitdown"
      BY <1>1, <1>3, <3>1, <3>3 DEF ParserState, Vouched, Told
    <3> QED
      BY <3>2, <3>3
  <2>2. CASE \E out \in Outputs \cup {Blank}, incomplete \in BOOLEAN :
               Converted(p, out, incomplete)
    <3>1. PICK out \in Outputs \cup {Blank}, incomplete \in BOOLEAN :
            Converted(p, out, incomplete)
      BY <2>2
    <3> DEFINE v == IF incomplete THEN "FAILED"
                    ELSE IF out = Blank THEN "EMPTY" ELSE "SUCCESS"
    <3>2. new = [me EXCEPT !.pc = "text", !.out = out, !.verdict = v,
                           !.items[s] = v]
      BY <1>1, <3>1 DEF Converted
    <3> HIDE DEF new, v
    <3> QED
      BY <1>1, <1>3, <3>2 DEF ParserState
  <2> QED
    BY <2>1, <2>2
<1> QED
  BY <1>2, <1>3, <1>4

LEMMA ConvertReport ==
  ASSUME StoreInv, ReportInv, NEW p \in Parsers,
         \/ \E out \in Outputs \cup {Blank}, incomplete \in BOOLEAN :
              Converted(p, out, incomplete)
         \/ NotConverted(p)
  PROVE  ReportInv'
<1>0. PICK me, new, s : me = parser[p] /\ new = parser'[p] /\ s = me.cur
  OBVIOUS
<1>1. /\ me.pc = "convert"
      /\ disk' = disk /\ reports' = reports /\ fresh' = fresh
      /\ OthersStay(p)
      /\ new.clean = me.clean /\ new.batch = me.batch
      /\ \A t \in Contents \ {s} : new.items[t] = me.items[t]
      /\ \/ new.pc = "next" /\ ~Vouched(p, new.items[s])
         \/ /\ new.pc \in {"text", "manifest"} /\ new.cur = s
            /\ new.verdict = new.items[s]
  BY <1>0, ConvertOutcome
<1>2. ASSUME new.clean, NEW t \in Contents
      PROVE  Ahead(new, t) /\ ItemFits(p, new, t, disk[t].manifest)
  <2>1. Ahead(me, t) /\ ItemFits(p, me, t, disk[t].manifest)
    BY <1>0, <1>1, <1>2 DEF ReportInv, ReportSoFar
  <2>2. t # s \/ t \notin me.batch
    BY <1>0, <1>1, <2>1 DEF Ahead
  <2> QED
    BY <1>0, <1>1, <2>1, <2>2 DEF Ahead, ItemFits
<1> QED
  BY <1>0, <1>1, <1>2, FreshStays, ReportWithoutWrite

\* What a file step to pc does for the item of the content in hand.
KeepsWord(p, dir, pc) ==
  \/ /\ parser[p].pc \in {"clear", "clear meta", "clear manifest"}
     /\ pc \in {"clear meta", "clear manifest", "convert"}
  \/ /\ parser[p].pc \in {"text", "meta"}
     /\ pc \in {"meta", "manifest"}
  \/ /\ parser[p].pc = "manifest" /\ pc = "next"
     /\ dir.manifest.status = parser[p].verdict
     /\ dir.manifest.parser = p

LEMMA FileStepReport ==
  ASSUME StoreInv, ReportInv, NEW p \in Parsers, NEW dir, NEW pc, Writing(p),
         KeepsWord(p, dir, pc), FileStep(p, dir, pc)
  PROVE  ReportInv'
<1> DEFINE me == parser[p]
           s == me.cur
           new == AfterFile(me, pc)
<1>1. /\ parser \in [Parsers -> ParserState] /\ me \in ParserState
      /\ s \in Contents /\ disk \in [Contents -> ParsedDir]
  BY DEF StoreInv, StoreTypeOK, ParserHasContent, Writing
<1>2. /\ new \in ParserState /\ new.pc = pc
      /\ new.clean = me.clean /\ new.batch = me.batch /\ new.items = me.items
      /\ pc # "next" => new.cur = s /\ new.verdict = me.verdict
  BY <1>1 DEF AfterFile, ParserState, KeepsWord
<1>3. disk' = [disk EXCEPT ![s] = dir] /\ fresh' = 0
  BY DEF FileStep
<1>4. Moves(p, new)
  BY FileStepMoves
<1> HIDE DEF new
<1>5. FreshReportIsTrue'
  BY <1>3 DEF FreshReportIsTrue
<1>6. ASSUME new.clean, NEW t \in Contents
      PROVE  Ahead(new, t) /\ ItemFits(p, new, t, disk'[t].manifest)
  <2>1. Ahead(me, t) /\ ItemFits(p, me, t, disk[t].manifest)
    BY <1>2, <1>6 DEF ReportInv, ReportSoFar
  <2>2. Ahead(new, t)
    BY <1>1, <1>2, <2>1 DEF Ahead, KeepsWord
  <2>3. CASE t = s
    BY <1>1, <1>2, <1>3, <2>1, <2>2, <2>3 DEF ItemFits, KeepsWord
  <2>4. CASE t # s
    BY <1>1, <1>2, <1>3, <2>1, <2>2, <2>4 DEF ItemFits
  <2> QED
    BY <2>2, <2>3, <2>4
<1>7. ReportSoFar(p)'
  <2>1. parser'[p] = new
    BY <1>1, <1>2, <1>4, MovesLeaveOthers
  <2> QED
    BY <1>6, <2>1 DEF ReportSoFar
<1>8. ASSUME NEW q \in Parsers \ {p}
      PROVE  ReportSoFar(q)'
  <2>1. parser[q] \in ParserState /\ parser'[q] = [parser[q] EXCEPT !.clean = FALSE]
    BY <1>1, <1>4 DEF Moves
  <2> QED
    BY <2>1 DEF ReportSoFar, ParserState
<1> QED
  BY <1>5, <1>7, <1>8 DEF ReportInv

LEMMA WritesKeepWord ==
  ASSUME StoreInv, NEW p \in Parsers,
         \/ ClearText(p) \/ ClearMeta(p) \/ ClearManifest(p)
         \/ WriteText(p) \/ WriteMeta(p) \/ WriteManifest(p)
  PROVE  /\ Writing(p)
         /\ \E dir, pc :
              /\ KeepsWord(p, dir, pc) /\ FileStep(p, dir, pc)
              /\ pc = "next" =>
                   /\ WriteManifest(p)
                   /\ dir = [disk[parser[p].cur] EXCEPT
                               !.manifest = NewManifest(p)]
<1> DEFINE d == disk[parser[p].cur]
<1>1. Writing(p)
  BY DEF ClearText, ClearMeta, ClearManifest, WriteText, WriteMeta,
         WriteManifest, Writing
<1>2. CASE WriteManifest(p)
  <2> DEFINE dir == [d EXCEPT !.manifest = NewManifest(p)]
  <2>1. d \in ParsedDir
    BY <1>1 DEF StoreInv, StoreTypeOK, ParserHasContent, Writing
  <2>2. dir.manifest.status = parser[p].verdict /\ dir.manifest.parser = p
    BY <2>1 DEF NewManifest, ParsedDir
  <2>3. parser[p].pc = "manifest" /\ FileStep(p, dir, "next")
    BY <1>2 DEF WriteManifest
  <2>4. KeepsWord(p, dir, "next")
    BY <2>2, <2>3 DEF KeepsWord
  <2> QED
    BY <1>1, <1>2, <2>3, <2>4
<1>3. CASE ClearText(p)
  <2> DEFINE dir == [d EXCEPT !.text = None]
             pc == "clear meta"
  <2>1. KeepsWord(p, dir, pc) /\ FileStep(p, dir, pc) /\ pc # "next"
    BY <1>3 DEF ClearText, KeepsWord
  <2> HIDE DEF dir, pc
  <2> QED
    BY <1>1, <2>1
<1>4. CASE ClearMeta(p)
  <2> DEFINE dir == [d EXCEPT !.meta = None]
             pc == "clear manifest"
  <2>1. KeepsWord(p, dir, pc) /\ FileStep(p, dir, pc) /\ pc # "next"
    BY <1>4 DEF ClearMeta, KeepsWord
  <2> HIDE DEF dir, pc
  <2> QED
    BY <1>1, <2>1
<1>5. CASE ClearManifest(p)
  <2> DEFINE dir == [d EXCEPT !.manifest = NoManifest]
             pc == "convert"
  <2>1. KeepsWord(p, dir, pc) /\ FileStep(p, dir, pc) /\ pc # "next"
    BY <1>5 DEF ClearManifest, KeepsWord
  <2> HIDE DEF dir, pc
  <2> QED
    BY <1>1, <2>1
<1>6. CASE WriteText(p)
  <2> DEFINE dir == [d EXCEPT !.text = parser[p].out]
             pc == "meta"
  <2>1. KeepsWord(p, dir, pc) /\ FileStep(p, dir, pc) /\ pc # "next"
    BY <1>6 DEF WriteText, KeepsWord
  <2> HIDE DEF dir, pc
  <2> QED
    BY <1>1, <2>1
<1>7. CASE WriteMeta(p)
  <2> DEFINE dir == [d EXCEPT !.meta = p]
             pc == "manifest"
  <2>1. KeepsWord(p, dir, pc) /\ FileStep(p, dir, pc) /\ pc # "next"
    BY <1>7 DEF WriteMeta, KeepsWord
  <2> HIDE DEF dir, pc
  <2> QED
    BY <1>1, <2>1
<1> QED
  BY <1>2, <1>3, <1>4, <1>5, <1>6, <1>7

LEMMA WritesReport ==
  ASSUME StoreInv, ReportInv, NEW p \in Parsers,
         \/ ClearText(p) \/ ClearMeta(p) \/ ClearManifest(p)
         \/ WriteText(p) \/ WriteMeta(p) \/ WriteManifest(p)
  PROVE  ReportInv'
<1>1. PICK dir, pc : KeepsWord(p, dir, pc) /\ FileStep(p, dir, pc)
  BY WritesKeepWord
<1>2. Writing(p)
  BY WritesKeepWord
<1> QED
  BY <1>1, <1>2, FileStepReport

LEMMA FinishParseReport ==
  ASSUME StoreInv, ReportInv, NEW p \in Parsers, FinishParse(p)
  PROVE  ReportInv'
<1> DEFINE row == [parser |-> p, items |-> parser[p].items]
           n == Len(reports) + 1
<1>1. /\ parser[p].pc = "next" /\ parser' = [parser EXCEPT ![p] = IdleParser]
      /\ disk' = disk /\ reports' = Append(reports, row)
      /\ fresh' = IF parser[p].clean THEN n ELSE fresh
  BY DEF FinishParse
<1>2. /\ reports \in Seq(Report) /\ Len(reports) \in Nat
      /\ fresh \in 0..Len(reports)
  BY DEF StoreInv, StoreTypeOK
<1> HIDE DEF row
<1>3. reports'[n] = row /\ \A r \in 1..Len(reports) : reports'[r] = reports[r]
  BY <1>1, <1>2
<1>4. parser'[p] = IdleParser /\ OthersStay(p) /\ ~IdleParser.clean
  BY <1>1, IdleParserType, MovesLeaveOthers
     DEF StoreInv, StoreTypeOK, IdleParser
<1>5. FreshReportIsTrue'
  <2>1. CASE parser[p].clean
    <3>1. \A s \in Contents :
            Vouched(p, parser[p].items[s]) =>
              /\ disk[s].manifest.status = parser[p].items[s]
              /\ disk[s].manifest.parser = p
      BY <1>1, <2>1 DEF ReportInv, ReportSoFar, ItemFits
    <3>2. fresh' = n /\ reports'[fresh'] = row
      BY <1>1, <1>3, <2>1
    <3>3. row.parser = p /\ row.items = parser[p].items
      BY DEF row
    <3> QED
      BY <1>1, <3>1, <3>2, <3>3 DEF FreshReportIsTrue, Vouched, Told
  <2>2. CASE ~parser[p].clean
    <3>1. fresh' = fresh /\ (fresh # 0 => reports'[fresh] = reports[fresh])
      BY <1>1, <1>2, <1>3, <2>2
    <3> QED
      BY <1>1, <3>1 DEF ReportInv, FreshReportIsTrue
  <2> QED
    BY <2>1, <2>2
<1> QED
  BY <1>1, <1>4, <1>5, ReportWithoutWrite

LEMMA InterruptReport ==
  ASSUME StoreInv, ReportInv, NEW p \in Parsers, NEW next \in ParserState,
         ~next.clean, Interrupt(p, next)
  PROVE  ReportInv'
<1>1. /\ parser \in [Parsers -> ParserState]
      /\ Moves(p, next)
      /\ \A q \in Parsers \ {p} : parser'[q] = [parser[q] EXCEPT !.clean = FALSE]
  BY DEF Interrupt, Moves, StoreInv, StoreTypeOK
<1>2. FreshReportIsTrue'
  BY DEF Interrupt, ReportInv, FreshReportIsTrue
<1>3. \A q \in Parsers : ~parser'[q].clean
  <2>1. parser'[p] = next
    BY <1>1, MovesLeaveOthers
  <2>2. ASSUME NEW q \in Parsers \ {p}
        PROVE  ~parser'[q].clean
    <3>1. parser[q] \in ParserState /\ parser'[q] = [parser[q] EXCEPT !.clean = FALSE]
      BY <1>1
    <3> QED
      BY <3>1 DEF ParserState
  <2> QED
    BY <2>1, <2>2
<1> QED
  BY <1>2, <1>3 DEF ReportInv, ReportSoFar

-----------------------------------------------------------------------------
TruthInv == ManifestInv /\ ReportInv

LEMMA ParserWorkTruth ==
  ASSUME StoreInv, TruthInv, NEW p \in Parsers, ParserWork(p)
  PROVE  TruthInv'
<1> USE DEF TruthInv
<1>1. ASSUME NEW S \in Targets, NEW force \in BOOLEAN, StartParse(p, S, force)
      PROVE  TruthInv'
  <2>1. S \in SUBSET Contents
    BY DEF Targets
  <2> QED
    BY <1>1, <2>1, StartParseTruth, StartParseReport
<1>2. ASSUME NEW s \in Contents, NEW limited \in BOOLEAN,
             PlanContent(p, s, limited)
      PROVE  TruthInv'
  BY <1>2, PlanContentTruth, PlanContentReport
<1>3. CASE \/ ClearText(p) \/ ClearMeta(p) \/ ClearManifest(p)
           \/ WriteText(p) \/ WriteMeta(p) \/ WriteManifest(p)
  BY <1>3, WritesTruth, WritesReport
<1>4. CASE \/ \E out \in Outputs \cup {Blank}, incomplete \in BOOLEAN :
                Converted(p, out, incomplete)
           \/ NotConverted(p)
  BY <1>4, ConvertTruth, ConvertReport
<1>5. CASE FinishParse(p)
  BY <1>5, FinishParseTruth, FinishParseReport
<1> QED
  BY <1>1, <1>2, <1>3, <1>4, <1>5 DEF ParserWork

LEMMA ParserFaultTruth ==
  ASSUME StoreInv, TruthInv, NEW p \in Parsers, ParserFault(p)
  PROVE  TruthInv'
<1> DEFINE raised == [parser[p] EXCEPT !.pc = "next", !.cur = None,
                        !.verdict = None, !.out = None, !.clean = FALSE,
                        !.items[parser[p].cur] = "FAILED"]
<1>1. IdleParser \in ParserState /\ IdleParser.pc = "idle" /\ ~IdleParser.clean
  BY IdleParserType DEF IdleParser
<1>2. CASE KillParser(p)
  BY <1>1, <1>2, InterruptTruth, InterruptReport DEF KillParser, TruthInv
<1>3. CASE ParserRaises(p)
  <2>1. parser[p] \in ParserState /\ parser[p].cur \in Contents
    BY <1>3 DEF ParserRaises, StoreInv, StoreTypeOK, ParserHasContent
  <2>2. [parser[p].items EXCEPT ![parser[p].cur] = "FAILED"]
          \in [Contents -> ItemStatus]
    BY <2>1 DEF ParserState, ItemStatus, Verdicts
  <2>3. raised \in ParserState /\ raised.pc = "next" /\ ~raised.clean
    BY <2>1, <2>2 DEF ParserState
  <2>4. Interrupt(p, IF p = "markitdown" THEN raised ELSE IdleParser)
    BY <1>3 DEF ParserRaises
  <2> HIDE DEF raised
  <2> QED
    BY <1>1, <2>3, <2>4, InterruptTruth, InterruptReport DEF TruthInv
<1> QED
  BY <1>2, <1>3 DEF ParserFault

\* The registrar and a reroute leave the files, the parsers and the reports
\* alone.
LEMMA TruthRests ==
  ASSUME TruthInv, UNCHANGED <<disk, parser, reports, torn, fresh>>
  PROVE  TruthInv'
<1>1. \A s \in Contents : Quiet(s)' <=> Quiet(s)
  BY DEF Quiet, Writing
<1>2. ManifestIsTrue'
  BY <1>1 DEF TruthInv, ManifestInv, ManifestIsTrue
<1>3. \A p \in Parsers : TrueSoFar(p)'
  BY DEF TruthInv, ManifestInv, TrueSoFar
<1>4. FreshReportIsTrue'
  BY DEF TruthInv, ReportInv, FreshReportIsTrue
<1>5. \A p \in Parsers : ReportSoFar(p)'
  BY DEF TruthInv, ReportInv, ReportSoFar
<1> QED
  BY <1>2, <1>3, <1>4, <1>5 DEF TruthInv, ManifestInv, ReportInv

LEMMA RegistrarLeavesStore ==
  ASSUME RegistryStart \/ RegistryWork \/ RegistryFault
  PROVE  UNCHANGED storeVars
<1>1. CASE RegistryStart
  BY <1>1 DEF RegistryStart, StartRegister, StartReconcile, StartRun
<1>2. CASE BeginRun \/ EndItems(FALSE) \/ FinishRun
  BY <1>2 DEF BeginRun, EndItems, FinishRun
<1>3. CASE \E s \in Contents : IngestItem(s)
  BY <1>3 DEF IngestItem
<1>4. CASE \E s \in Contents : IngestFails(s) \/ RefuseManifest(s)
  BY <1>4 DEF IngestFails, RefuseManifest
<1>5. CASE EndItems(TRUE) \/ RunRaises \/ KillRegistrar
  BY <1>5 DEF EndItems, RunRaises, KillRegistrar
<1> QED
  BY <1>1, <1>2, <1>3, <1>4, <1>5 DEF RegistryWork, RegistryFault

LEMMA TruthInitially == Init => TruthInv
<1> SUFFICES ASSUME Init PROVE TruthInv
  OBVIOUS
<1>1. /\ disk = [s \in Contents |-> NoDir] /\ fresh = 0
      /\ parser = [p \in Parsers |-> IdleParser]
  BY DEF Init, StoreInit
<1>2. ManifestIsTrue
  BY <1>1 DEF ManifestIsTrue, NoDir, NoManifest, None
<1>3. \A p \in Parsers : parser[p].pc = "idle" /\ ~parser[p].clean
  BY <1>1 DEF IdleParser
<1> QED
  BY <1>1, <1>2, <1>3
     DEF TruthInv, ManifestInv, TrueSoFar, VerdictFits, WrittenFits, ReportInv,
         FreshReportIsTrue, ReportSoFar

LEMMA TruthStep ==
  ASSUME PipelineInv, TruthInv, [Next]_pipelineVars
  PROVE  TruthInv'
<1>1. StoreInv
  BY DEF PipelineInv
<1>2. CASE Parse
  BY <1>1, <1>2, ParserWorkTruth DEF Parse
<1>3. CASE Register
  <2>1. UNCHANGED storeVars
    BY <1>3, RegistrarLeavesStore DEF Register
  <2> QED
    BY <2>1, TruthRests DEF storeVars
<1>4. CASE Rescan
  BY <1>4, TruthRests DEF Rescan, Reroute
<1>5. CASE Fault
  <2>1. ASSUME NEW p \in Parsers, ParserFault(p)
        PROVE  TruthInv'
    BY <1>1, <2>1, ParserFaultTruth
  <2>2. CASE RegistryFault
    <3>1. UNCHANGED storeVars
      BY <2>2, RegistrarLeavesStore
    <3> QED
      BY <3>1, TruthRests DEF storeVars
  <2> QED
    BY <1>5, <2>1, <2>2 DEF Fault
<1>6. CASE Rest \/ UNCHANGED pipelineVars
  BY <1>6, TruthRests DEF Rest, pipelineVars, storeVars
<1> QED
  BY <1>2, <1>3, <1>4, <1>5, <1>6 DEF Next

LEMMA TruthInvariant == Spec => []TruthInv
BY PipelineInvariant, TruthInitially, TruthStep, PTL DEF Spec

\* Whatever kills, exceptions, forced runs and changes of route have done, a
\* parse_manifest.json that says SUCCESS or EMPTY describes the text and the
\* metadata beside it, unless its writer was interrupted or two commands wrote
\* into the directory at once (markitdown_parser.py, mineru_pdf_parser.py).
THEOREM ManifestsAreTrue == Spec => []ManifestIsTrue
<1>1. TruthInv => ManifestIsTrue
  BY DEF TruthInv, ManifestInv
<1> QED
  BY <1>1, TruthInvariant, PTL

\* The report of a run that nothing has disturbed agrees with the manifests as
\* long as nothing touches them, however many contents the run went through
\* between noting an item and writing the report (_write_report).
THEOREM FreshReportsAreTrue == Spec => []FreshReportIsTrue
<1>1. TruthInv => FreshReportIsTrue
  BY DEF TruthInv, ReportInv
<1> QED
  BY <1>1, TruthInvariant, PTL

-----------------------------------------------------------------------------
(***************************************************************************)
(* The registry.  To register an item again is to write NewRow, NewStatus  *)
(* and NewDocument; it is Recorded when that changes nothing.  An item     *)
(* stays recorded as long as nobody writes its directory or its rows, and  *)
(* only the registrar writes rows: of its run, those of its todo.          *)
(***************************************************************************)
ItemOutcome(k, s) == ResultStatus(ItemsOf(k)[s], disk[s].manifest, Readable(s))

NewRow(k, s) ==
  LET m == disk[s].manifest
      status == ItemOutcome(k, s)
  IN [status  |-> status,
      hash    |-> m.hash,
      flagged |-> m.hash # None /\ disk[s].text \notin {None, m.hash},
      missing |-> ~Readable(s) /\ status = "FAILED",
      indexed |-> Indexed(results[k][s].indexed, status, Readable(s))]

NewStatus(k, s) == ParseStatusAfter(parseStatus[s], ItemOutcome(k, s))

NewDocument(k, s) ==
  DocumentAfter(document[s], ItemOutcome(k, s), Label(k), disk[s].manifest.hash)

Recorded(k, s) ==
  /\ results[k][s] = NewRow(k, s)
  /\ parseStatus[s] = NewStatus(k, s)
  /\ document[s] = NewDocument(k, s)

AllRecorded(k) == \A s \in Contents : ItemsOf(k)[s] # None => Recorded(k, s)

\* A report has one run, so that to register it again is to take that run up.
OneRunPerReport ==
  \A j, k \in 1..Len(runs) :
    runs[j].report # 0 /\ runs[j].report = runs[k].report => j = k

RecordedSoFar ==
  LET k == registrar.run IN
  registrar.pc # "idle" /\ runs[k].report # 0 =>
    \A s \in Contents :
      /\ s \in registrar.todo => ItemsOf(k)[s] # None
      /\ registrar.still /\ ~registrar.errors /\ s \notin registrar.todo
           /\ ItemsOf(k)[s] # None => Recorded(k, s)

SettledIsRecorded ==
  settled # 0 =>
    /\ registrar.pc = "idle"
    /\ runs[settled].report # 0 => AllRecorded(settled)

RepeatIsRecorded ==
  registrar.repeat =>
    /\ registrar.pc # "idle" /\ runs[registrar.run].report # 0
    /\ AllRecorded(registrar.run)

RecordInv ==
  OneRunPerReport /\ RecordedSoFar /\ SettledIsRecorded /\ RepeatIsRecorded

\* Reports and runs stay what they were, so the items of a run do.
LEMMA ItemsAndLabelStay ==
  ASSUME RegistryInv, ReportsStay, NEW k \in 1..Len(runs),
         runs[k].report # 0, runs'[k].report = runs[k].report
  PROVE  ItemsOf(k)' = ItemsOf(k) /\ Label(k)' = Label(k)
<1>1. runs[k].report \in Nat /\ runs[k].report <= Len(reports)
  BY RowsOfRuns DEF RegistryInv, ReportsOfRuns
<1>2. runs[k].report \in 1..Len(reports)
  BY <1>1, MaxReportsAssumption
<1> QED
  BY <1>2 DEF ReportsStay, ItemsOf, Label

LEMMA RecordedStays ==
  ASSUME NEW k, NEW s, disk' = disk,
         ItemsOf(k)' = ItemsOf(k), Label(k)' = Label(k),
         results'[k][s] = results[k][s], parseStatus'[s] = parseStatus[s],
         document'[s] = document[s], Recorded(k, s)
  PROVE  Recorded(k, s)'
BY DEF Recorded, NewRow, NewStatus, NewDocument, ItemOutcome, Readable

\* A step that writes no row of an item: every step but IngestItem, StartRun
\* and FinishRun.
LEMMA RecordRests ==
  ASSUME RegistryInv, RecordInv, ReportsStay,
         Len(runs') = Len(runs),
         \A j \in 1..Len(runs) : runs'[j].report = runs[j].report,
         UNCHANGED <<results, parseStatus, document>>,
         registrar'.pc # "idle" =>
           /\ registrar.pc # "idle" /\ registrar'.run = registrar.run
           /\ registrar'.todo \subseteq registrar.todo
           /\ registrar'.still /\ ~registrar'.errors =>
                /\ registrar.still /\ ~registrar.errors
                /\ registrar'.todo = registrar.todo /\ disk' = disk,
         registrar'.repeat =>
           registrar.repeat /\ registrar'.pc # "idle" /\ disk' = disk,
         settled' # 0 =>
           settled' = settled /\ disk' = disk /\ registrar'.pc = "idle"
  PROVE  RecordInv'
<1>1. ASSUME NEW k \in 1..Len(runs), runs[k].report # 0
      PROVE  /\ ItemsOf(k)' = ItemsOf(k) /\ runs'[k].report # 0
             /\ disk' = disk =>
                  \A s \in Contents : Recorded(k, s) => Recorded(k, s)'
  BY <1>1, ItemsAndLabelStay, RecordedStays
<1>2. OneRunPerReport'
  BY DEF RecordInv, OneRunPerReport
<1>3. RecordedSoFar'
  <2> SUFFICES ASSUME registrar'.pc # "idle", runs'[registrar'.run].report # 0,
                      NEW s \in Contents
               PROVE  /\ s \in registrar'.todo =>
                           ItemsOf(registrar.run)'[s] # None
                      /\ registrar'.still /\ ~registrar'.errors
                           /\ s \notin registrar'.todo
                           /\ ItemsOf(registrar.run)'[s] # None =>
                           Recorded(registrar.run, s)'
    BY DEF RecordedSoFar, ItemsOf, Recorded, NewRow, NewStatus, NewDocument,
           ItemOutcome, Label
  <2>1. registrar.run \in 1..Len(runs) /\ runs[registrar.run].report # 0
    BY DEF RegistryInv, RegistrarHasRun
  <2> QED
    BY <1>1, <2>1 DEF RecordInv, RecordedSoFar
<1>4. SettledIsRecorded'
  <2> SUFFICES ASSUME settled' # 0, runs'[settled].report # 0
               PROVE  AllRecorded(settled)'
    BY DEF SettledIsRecorded, AllRecorded, ItemsOf, Recorded, NewRow, NewStatus,
           NewDocument, ItemOutcome, Label
  <2>1. settled \in 1..Len(runs)
    BY RunsCounted DEF RegistryInv, RegistryTypeOK
  <2> QED
    BY <1>1, <2>1 DEF RecordInv, SettledIsRecorded, AllRecorded
<1>5. RepeatIsRecorded'
  <2> SUFFICES ASSUME registrar'.repeat
               PROVE  /\ runs'[registrar.run].report # 0
                      /\ AllRecorded(registrar.run)'
    BY DEF RepeatIsRecorded, AllRecorded, ItemsOf, Recorded, NewRow, NewStatus,
           NewDocument, ItemOutcome, Label
  <2>1. registrar.run \in 1..Len(runs)
    BY DEF RegistryInv, RegistrarHasRun
  <2> QED
    BY <1>1, <2>1 DEF RecordInv, RepeatIsRecorded, AllRecorded
<1> QED
  BY <1>2, <1>3, <1>4, <1>5 DEF RecordInv

\* What StartRun leaves, whichever way k was found.
LEMMA StartRunRecord ==
  ASSUME RegistryInv, RecordInv, NEW k \in 1..(Len(runs) + 1), NEW row \in Run,
         NEW todo \in SUBSET Contents, NEW repeat \in BOOLEAN,
         StartRun(k, row, todo, repeat),
         k <= Len(runs) => runs[k].report = row.report,
         k > Len(runs) /\ row.report # 0 =>
           \A j \in 1..Len(runs) : runs[j].report # row.report,
         row.report # 0 =>
           todo = {s \in Contents : reports[row.report].items[s] # None},
         repeat => k = settled /\ row.report # 0
  PROVE  RecordInv'
<1>1. /\ Len(runs) \in Nat /\ runs \in Seq(Run)
      /\ settled \in 0..Len(runs)
      /\ IdleRegistrar \in Registrar
  BY IdleRegistrarType DEF RegistryInv, RegistryTypeOK
<1>2. /\ runs' = IF k > Len(runs) THEN Append(runs, row) ELSE runs
      /\ k <= Len(runs) => results' = results
      /\ registrar' = [IdleRegistrar EXCEPT !.pc = "pending", !.run = k,
                         !.todo = todo, !.still = TRUE, !.repeat = repeat]
      /\ settled' = 0
      /\ UNCHANGED <<parseStatus, document, disk, reports>>
  BY <1>1 DEF StartRun, storeVars
<1>3. /\ registrar'.pc = "pending" /\ registrar'.run = k
      /\ registrar'.todo = todo /\ registrar'.repeat = repeat
  BY <1>1, <1>2 DEF Registrar
<1>4. /\ Len(runs) <= Len(runs') /\ Len(runs') \in Nat /\ k \in 1..Len(runs')
      /\ \A j \in 1..Len(runs) : runs'[j] = runs[j]
      /\ \A j \in 1..Len(runs') : j \notin 1..Len(runs) => j = k
      /\ runs'[k].report = row.report
      /\ k \notin 1..Len(runs) => k > Len(runs)
  <2>1. CASE k > Len(runs)
    <3>1. k = Len(runs) + 1
      BY <1>1, <2>1
    <3>2. /\ Len(runs') = Len(runs) + 1
          /\ \A j \in 1..Len(runs) : runs'[j] = runs[j]
          /\ runs'[Len(runs) + 1] = row
      BY <1>1, <1>2, <2>1, AppendProperties
    <3> QED
      BY <1>1, <3>1, <3>2
  <2>2. CASE ~(k > Len(runs))
    BY <1>1, <1>2, <2>2
  <2> QED
    BY <2>1, <2>2
<1>5. OneRunPerReport'
  BY <1>4 DEF RecordInv, OneRunPerReport
<1>6. RecordedSoFar'
  <2>1. row.report # 0 =>
          \A s \in Contents : s \in todo <=> ItemsOf(k)'[s] # None
    BY <1>2, <1>4 DEF ItemsOf
  <2> QED
    BY <1>3, <1>4, <2>1 DEF RecordedSoFar, ItemsOf
<1>7. SettledIsRecorded'
  BY <1>2 DEF SettledIsRecorded
<1>8. RepeatIsRecorded'
  <2> SUFFICES ASSUME repeat
               PROVE  runs'[k].report # 0 /\ AllRecorded(k)'
    BY <1>3 DEF RepeatIsRecorded, AllRecorded, ItemsOf, Recorded, NewRow,
                NewStatus, NewDocument, ItemOutcome, Label
  <2>1. k = settled /\ k \in 1..Len(runs) /\ row.report # 0
    BY <1>1
  <2>2. results' = results /\ runs'[k] = runs[k] /\ runs[k].report = row.report
    BY <1>1, <1>2, <1>4, <2>1
  <2>3. AllRecorded(k)
    BY <2>1, <2>2 DEF RecordInv, SettledIsRecorded
  <2>4. ItemsOf(k)' = ItemsOf(k) /\ Label(k)' = Label(k)
    BY <1>2, <2>2 DEF ItemsOf, Label
  <2>5. ASSUME NEW s \in Contents, Recorded(k, s)
        PROVE  Recorded(k, s)'
    BY <1>2, <2>2, <2>4, <2>5, RecordedStays
  <2> QED
    BY <2>1, <2>2, <2>3, <2>4, <2>5 DEF AllRecorded
<1> QED
  BY <1>5, <1>6, <1>7, <1>8 DEF RecordInv

LEMMA RegistryStartRecord ==
  ASSUME StoreInv, RegistryInv, RecordInv, RegistryStart
  PROVE  RecordInv'
<1>1. /\ Len(reports) \in Nat /\ Len(reports) <= MaxReports
      /\ Len(runs) \in Nat /\ settled \in 0..Len(runs)
  BY DEF StoreInv, StoreTypeOK, RegistryInv, RegistryTypeOK
<1>2. ASSUME NEW r \in 1..Len(reports), StartRegister(r)
      PROVE  RecordInv'
  <2> DEFINE row == [report |-> r, status |-> "PENDING"]
             todo == {s \in Contents : reports[r].items[s] # None}
             again == settled \in RunsOf(r)
  <2>1. PICK k : /\ k = IF RunsOf(r) # {} THEN CHOOSE j \in RunsOf(r) : TRUE
                        ELSE Len(runs) + 1
                 /\ StartRun(k, row, todo, again)
    BY <1>2 DEF StartRegister
  <2>2. row \in Run /\ row.report = r /\ r # 0
    BY <1>1, MaxReportsAssumption DEF Run
  <2>3. again \in BOOLEAN /\ todo \in SUBSET Contents
    OBVIOUS
  <2>4. CASE RunsOf(r) # {}
    <3>1. k \in RunsOf(r)
      BY <2>1, <2>4
    <3>2. k \in 1..Len(runs) /\ runs[k].report = r
      BY <3>1 DEF RunsOf
    <3>3. again => k = settled
      BY <2>2, <3>2 DEF RunsOf, RecordInv, OneRunPerReport
    <3>4. k \in 1..(Len(runs) + 1) /\ ~(k > Len(runs))
      BY <1>1, <3>2
    <3> HIDE DEF row, again
    <3> QED
      BY <2>1, <2>2, <2>3, <3>2, <3>3, <3>4, StartRunRecord
  <2>5. CASE RunsOf(r) = {}
    <3>1. /\ k \in 1..(Len(runs) + 1) /\ ~(k <= Len(runs)) /\ ~again
          /\ \A j \in 1..Len(runs) : runs[j].report # r
      BY <1>1, <2>1, <2>5 DEF RunsOf
    <3> HIDE DEF row, again
    <3> QED
      BY <2>1, <2>2, <2>3, <3>1, StartRunRecord
  <2> QED
    BY <2>4, <2>5
<1>3. ASSUME NEW S \in Targets, StartReconcile(S)
      PROVE  RecordInv'
  <2> DEFINE row == [report |-> 0, status |-> "PENDING"]
             todo == {s \in S : disk[s].manifest.status # None}
  <2>1. row \in Run /\ row.report = 0 /\ todo \in SUBSET Contents
    BY MaxReportsAssumption DEF Run, Targets
  <2>2. PICK k \in 1..(Len(runs) + 1) : k = Len(runs) + 1
    BY <1>1
  <2>3. PICK todo1 \in SUBSET Contents : todo1 = todo
    BY <2>1
  <2>4. StartRun(k, row, todo1, FALSE)
    BY <1>3, <2>2, <2>3 DEF StartReconcile, StartRun
  <2>5. ~(k <= Len(runs))
    BY <1>1, <2>2
  <2> HIDE DEF row, todo
  <2> QED
    BY <2>1, <2>4, <2>5, StartRunRecord
<1> QED
  BY <1>2, <1>3 DEF RegistryStart

\* Indexing the same files twice, or settling the same outcome twice, is once.
LEMMA OutcomeTwice ==
  ASSUME NEW label, NEW hash, NEW doc, NEW old, NEW files, NEW readable,
         NEW status \in {"SUCCESS", "EMPTY", "FAILED", "SKIPPED"}
  PROVE  /\ Indexed(Indexed(files, status, readable), status, readable)
              = Indexed(files, status, readable)
         /\ ParseStatusAfter(ParseStatusAfter(old, status), status)
              = ParseStatusAfter(old, status)
         /\ DocumentAfter(DocumentAfter(doc, status, label, hash),
                          status, label, hash)
              = DocumentAfter(doc, status, label, hash)
<1>1. Indexed(Indexed(files, status, readable), status, readable)
        = Indexed(files, status, readable)
  <2> DEFINE A == IF readable THEN {"manifest"} ELSE {}
             B == IF readable /\ status \in {"SUCCESS", "EMPTY"}
                  THEN {"text", "meta"} ELSE {}
  <2>1. \A old1 : Indexed(old1, status, readable) = old1 \cup A \cup B
    BY DEF Indexed
  <2> HIDE DEF A, B
  <2> QED
    BY <2>1
<1>2. ParseStatusAfter(ParseStatusAfter(old, status), status)
        = ParseStatusAfter(old, status)
  BY DEF ParseStatusAfter
<1>3. DocumentAfter(DocumentAfter(doc, status, label, hash), status, label, hash)
        = DocumentAfter(doc, status, label, hash)
  BY DEF DocumentAfter
<1> QED
  BY <1>1, <1>2, <1>3

\* The transaction of one item of a report.
LEMMA IngestItemWrites ==
  ASSUME RegistryInv, NEW s \in Contents, IngestItem(s),
         NEW k, k = registrar.run, runs[k].report # 0
  PROVE  /\ k \in 1..Len(runs) /\ registrar.pc = "items" /\ s \in registrar.todo
         /\ registrar' = [registrar EXCEPT !.todo = @ \ {s}]
         /\ results' = [results EXCEPT ![k] = [results[k] EXCEPT ![s] = NewRow(k, s)]]
         /\ parseStatus' = [parseStatus EXCEPT ![s] = NewStatus(k, s)]
         /\ document' = [document EXCEPT ![s] = NewDocument(k, s)]
         /\ UNCHANGED <<reports, disk, runs, settled>>
<1>1. registrar.pc = "items" /\ k \in 1..Len(runs)
  BY DEF IngestItem, RegistryInv, RegistrarHasRun
<1>2. results' = [results EXCEPT ![k][s] = NewRow(k, s)]
  BY DEF IngestItem, NewRow, ItemOutcome
<1>3. /\ parseStatus' = [parseStatus EXCEPT ![s] = NewStatus(k, s)]
      /\ document' = [document EXCEPT ![s] = NewDocument(k, s)]
  BY DEF IngestItem, NewStatus, NewDocument, ItemOutcome
<1>4. /\ s \in registrar.todo
      /\ registrar' = [registrar EXCEPT !.todo = @ \ {s}]
      /\ UNCHANGED <<reports, disk, runs, settled>>
  BY DEF IngestItem, storeVars
<1> QED
  BY <1>1, <1>2, <1>3, <1>4

LEMMA IngestItemRecord ==
  ASSUME RegistryInv, RecordInv, NEW s \in Contents, IngestItem(s)
  PROVE  RecordInv'
<1> DEFINE k == registrar.run
<1>1. /\ registrar.pc = "items" /\ s \in registrar.todo
      /\ registrar' = [registrar EXCEPT !.todo = @ \ {s}]
      /\ UNCHANGED <<reports, disk, runs, settled>>
  BY DEF IngestItem, storeVars
<1>2. /\ registrar'.pc = registrar.pc /\ registrar'.run = k
      /\ registrar'.todo = registrar.todo \ {s}
      /\ registrar'.still = registrar.still /\ registrar'.errors = registrar.errors
      /\ registrar'.repeat = registrar.repeat
  BY <1>1 DEF RegistryInv, RegistryTypeOK, Registrar
<1>3. OneRunPerReport'
  BY <1>1 DEF RecordInv, OneRunPerReport
<1>4. SettledIsRecorded'
  BY <1>1 DEF RecordInv, SettledIsRecorded
<1>5. CASE runs[k].report = 0
  BY <1>1, <1>2, <1>3, <1>4, <1>5
     DEF RecordInv, RecordedSoFar, RepeatIsRecorded
<1>6. CASE runs[k].report # 0
  <2>1. /\ k \in 1..Len(runs)
        /\ results' = [results EXCEPT ![k] = [results[k] EXCEPT ![s] = NewRow(k, s)]]
        /\ parseStatus' = [parseStatus EXCEPT ![s] = NewStatus(k, s)]
        /\ document' = [document EXCEPT ![s] = NewDocument(k, s)]
    BY <1>6, IngestItemWrites
  <2>2. /\ results \in [1..Len(runs) -> [Contents -> Result]]
        /\ parseStatus \in [Contents -> {None, "PARSED", "PARSED_EMPTY",
                                         "PARSE_FAILED"}]
        /\ document \in [Contents -> Document]
    BY LenProperties DEF RegistryInv, RegistryTypeOK
  <2>3. /\ ItemsOf(k)' = ItemsOf(k)
        /\ Label(k)' = Label(k)
    BY <1>1, <1>2 DEF ItemsOf, Label
  <2>4. ASSUME NEW t \in Contents \ {s}, Recorded(k, t)
        PROVE  Recorded(k, t)'
    <3>1. /\ results'[k][t] = results[k][t]
          /\ parseStatus'[t] = parseStatus[t] /\ document'[t] = document[t]
      BY <2>1, <2>2
    <3> QED
      BY <1>1, <1>2, <2>3, <2>4, <3>1, RecordedStays
  <2>5. Recorded(k, s)'
    <3>1. /\ results'[k][s] = NewRow(k, s)
          /\ parseStatus'[s] = NewStatus(k, s)
          /\ document'[s] = NewDocument(k, s)
      BY <2>1, <2>2
    <3>2. ItemOutcome(k, s)' = ItemOutcome(k, s)
      BY <1>1, <1>2, <2>3 DEF ItemOutcome, Readable
    <3>3. ItemOutcome(k, s) \in {"SUCCESS", "EMPTY", "FAILED", "SKIPPED"}
      BY DEF ItemOutcome, ResultStatus, Readable, Verdicts
    <3>4. NewRow(k, s)' = NewRow(k, s)
      <4>1. results'[k][s].indexed
              = Indexed(results[k][s].indexed, ItemOutcome(k, s), Readable(s))
        BY <3>1 DEF NewRow
      <4>2. Indexed(results'[k][s].indexed, ItemOutcome(k, s), Readable(s))
              = Indexed(results[k][s].indexed, ItemOutcome(k, s), Readable(s))
        BY <3>3, <4>1, OutcomeTwice
      <4> QED
        BY <1>1, <1>2, <3>2, <4>2 DEF NewRow, Readable
    <3>5. NewStatus(k, s)' = NewStatus(k, s)
      BY <1>2, <3>1, <3>2, <3>3, OutcomeTwice DEF NewStatus
    <3>6. NewDocument(k, s)' = NewDocument(k, s)
      BY <1>1, <1>2, <2>3, <3>1, <3>2, <3>3, OutcomeTwice DEF NewDocument
    <3> QED
      BY <1>2, <3>1, <3>4, <3>5, <3>6 DEF Recorded
  <2>6. RecordedSoFar'
    <3> SUFFICES ASSUME NEW t \in Contents
                 PROVE  /\ t \in registrar'.todo => ItemsOf(k)'[t] # None
                        /\ registrar'.still /\ ~registrar'.errors
                             /\ t \notin registrar'.todo
                             /\ ItemsOf(k)'[t] # None => Recorded(k, t)'
      BY <1>2 DEF RecordedSoFar
    <3> QED
      BY <1>1, <1>2, <1>6, <2>3, <2>4, <2>5 DEF RecordInv, RecordedSoFar
  <2>7. RepeatIsRecorded'
    <3> SUFFICES ASSUME registrar.repeat
                 PROVE  AllRecorded(k)'
      BY <1>1, <1>2, <1>6 DEF RepeatIsRecorded
    <3> QED
      BY <2>3, <2>4, <2>5 DEF RecordInv, RepeatIsRecorded, AllRecorded
  <2> QED
    BY <1>3, <1>4, <2>6, <2>7 DEF RecordInv
<1> QED
  BY <1>5, <1>6

LEMMA FinishRunRecord ==
  ASSUME RegistryInv, RecordInv, FinishRun
  PROVE  RecordInv'
<1> DEFINE st == FinalStatus(registrar.run)
<1>1. /\ registrar.pc = "finish" /\ registrar.todo = {}
      /\ runs' = [runs EXCEPT ![registrar.run].status = st]
      /\ registrar' = IdleRegistrar
      /\ settled' = IF registrar.still /\ ~registrar.errors THEN registrar.run
                    ELSE 0
      /\ UNCHANGED <<disk, reports, results, parseStatus, document>>
  BY DEF FinishRun, RegistryInv, RegistrarHasRun, storeVars
<1>2. PICK k \in 1..Len(runs) : k = registrar.run
  BY <1>1 DEF RegistryInv, RegistrarHasRun
<1>3. st \in {"PENDING", "RUNNING", "COMPLETED", "PARTIAL", "FAILED"}
  BY DEF FinalStatus
<1> HIDE DEF st
<1>4. /\ Len(runs') = Len(runs)
      /\ \A j \in 1..Len(runs) : runs'[j].report = runs[j].report
  BY <1>1, <1>2, <1>3, RunUpdate DEF RegistryInv
<1>5. OneRunPerReport'
  BY <1>4 DEF RecordInv, OneRunPerReport
<1>6. RecordedSoFar' /\ RepeatIsRecorded'
  BY <1>1 DEF RecordedSoFar, RepeatIsRecorded, IdleRegistrar
<1>7. SettledIsRecorded'
  <2>1. registrar'.pc = "idle" /\ settled' \in {k, 0}
    BY <1>1, <1>2 DEF IdleRegistrar
  <2> SUFFICES ASSUME settled' = k, registrar.still, ~registrar.errors,
                      runs[k].report # 0, NEW s \in Contents,
                      ItemsOf(k)'[s] # None
               PROVE  Recorded(k, s)'
    <3>1. settled' # 0 => registrar.still /\ ~registrar.errors
      BY <1>1
    <3>2. settled' = k /\ AllRecorded(k)' => AllRecorded(settled)'
      BY DEF AllRecorded, ItemsOf, Recorded, NewRow, NewStatus, NewDocument,
             ItemOutcome, Label
    <3> QED
      BY <1>4, <2>1, <3>1, <3>2 DEF SettledIsRecorded, AllRecorded
  <2>2. ItemsOf(k)' = ItemsOf(k) /\ Label(k)' = Label(k)
    BY <1>1, <1>4 DEF ItemsOf, Label
  <2>3. Recorded(k, s)
    BY <1>1, <1>2, <2>2 DEF RecordInv, RecordedSoFar
  <2> QED
    BY <1>1, <2>2, <2>3, RecordedStays
<1> QED
  BY <1>5, <1>6, <1>7 DEF RecordInv

\* The steps of the registrar that write no row of an item.
LEMMA RegistrarMovesRecord ==
  ASSUME StoreInv, RegistryInv, RecordInv,
         \/ BeginRun \/ RunRaises \/ KillRegistrar
         \/ \E s \in Contents : IngestFails(s)
         \/ \E failed \in BOOLEAN : EndItems(failed)
  PROVE  RecordInv'
<1>1. UNCHANGED <<disk, reports, results, parseStatus, document, settled>>
  BY DEF BeginRun, RunRaises, KillRegistrar, IngestFails, EndItems, storeVars
<1>2. ReportsStay
  BY <1>1, ReportsCounted DEF ReportsStay
<1>3. registrar \in Registrar /\ registrar.pc # "idle" /\ settled = 0
  <2>1. registrar.pc # "idle"
    BY DEF BeginRun, RunRaises, KillRegistrar, IngestFails, EndItems
  <2> QED
    BY <2>1 DEF RegistryInv, RegistryTypeOK, RecordInv, SettledIsRecorded
<1>4. CASE BeginRun
  <2>1. /\ registrar' = [registrar EXCEPT !.pc = "items"]
        /\ runs' = [runs EXCEPT ![registrar.run].status = "RUNNING"]
    BY <1>4 DEF BeginRun
  <2>2. registrar.run \in 1..Len(runs)
    BY <1>3 DEF RegistryInv, RegistrarHasRun
  <2>3. /\ Len(runs') = Len(runs)
        /\ \A j \in 1..Len(runs) : runs'[j].report = runs[j].report
    BY <2>1, <2>2, RunUpdate DEF RegistryInv
  <2>4. /\ registrar'.run = registrar.run /\ registrar'.todo = registrar.todo
        /\ registrar'.still = registrar.still
        /\ registrar'.errors = registrar.errors
        /\ registrar'.repeat = registrar.repeat /\ registrar'.pc = "items"
    BY <1>3, <2>1 DEF Registrar
  <2> QED
    BY <1>1, <1>2, <1>3, <2>3, <2>4, RecordRests
<1>5. CASE RunRaises \/ KillRegistrar
  <2>1. IdleRegistrar \in Registrar /\ runs' = runs
    BY <1>5, IdleRegistrarType DEF RunRaises, KillRegistrar
  <2>2. \/ registrar' = IdleRegistrar
        \/ registrar' = [IdleRegistrar EXCEPT !.run = registrar.run,
                                              !.raised = TRUE]
    BY <1>5 DEF RunRaises, KillRegistrar
  <2>3. IdleRegistrar.pc = "idle" /\ ~IdleRegistrar.repeat
    BY DEF IdleRegistrar
  <2>4. registrar'.pc = "idle" /\ ~registrar'.repeat
    BY <2>1, <2>2, <2>3 DEF Registrar
  <2> QED
    BY <1>1, <1>2, <1>3, <2>1, <2>4, RecordRests
<1>6. ASSUME NEW s \in Contents, IngestFails(s)
      PROVE  RecordInv'
  <2>1. /\ registrar' = [registrar EXCEPT !.todo = @ \ {s}, !.errors = TRUE]
        /\ runs' = runs
    BY <1>6 DEF IngestFails
  <2>2. /\ registrar'.run = registrar.run
        /\ registrar'.todo \subseteq registrar.todo /\ registrar'.errors
        /\ registrar'.repeat = registrar.repeat
        /\ registrar'.pc = registrar.pc
    BY <1>3, <2>1 DEF Registrar
  <2> QED
    BY <1>1, <1>2, <1>3, <2>1, <2>2, RecordRests
<1>7. ASSUME NEW failed \in BOOLEAN, EndItems(failed)
      PROVE  RecordInv'
  <2> DEFINE e == registrar.errors \/ failed
  <2>1. /\ registrar' = [registrar EXCEPT !.pc = "finish", !.errors = e]
        /\ runs' = runs
    BY <1>7 DEF EndItems
  <2>2. ~e => ~registrar.errors
    OBVIOUS
  <2> HIDE DEF e
  <2>3. /\ registrar'.run = registrar.run /\ registrar'.todo = registrar.todo
        /\ registrar'.still = registrar.still /\ registrar'.errors = e
        /\ registrar'.repeat = registrar.repeat /\ registrar'.pc = "finish"
    BY <1>3, <2>1 DEF Registrar
  <2> QED
    BY <1>1, <1>2, <1>3, <2>1, <2>2, <2>3, RecordRests
<1> QED
  BY <1>4, <1>5, <1>6, <1>7

\* What the parsers do ends what is still, settled or a repetition, unless the
\* files stay as they are.
LEMMA ParserStepRecord ==
  ASSUME RegistryInv, RecordInv, ReportsStay, SeeDisk
  PROVE  RecordInv'
<1> DEFINE still == registrar.still /\ disk' = disk
           repeat == registrar.repeat /\ disk' = disk
<1>1. registrar' = [registrar EXCEPT !.still = still, !.repeat = repeat]
  BY DEF SeeDisk
<1>2. /\ still => registrar.still /\ disk' = disk
      /\ repeat => registrar.repeat /\ disk' = disk
  OBVIOUS
<1> HIDE DEF still, repeat
<1>3. /\ registrar'.pc = registrar.pc /\ registrar'.run = registrar.run
      /\ registrar'.todo = registrar.todo
      /\ registrar'.errors = registrar.errors
      /\ registrar'.still = still /\ registrar'.repeat = repeat
  BY <1>1 DEF RegistryInv, RegistryTypeOK, Registrar
<1>4. /\ settled' # 0 => settled' = settled /\ disk' = disk
      /\ UNCHANGED <<runs, results, parseStatus, document>>
  BY DEF SeeDisk
<1>5. repeat => registrar.pc # "idle"
  BY <1>2 DEF RecordInv, RepeatIsRecorded
<1>6. settled # 0 => registrar.pc = "idle"
  BY DEF RecordInv, SettledIsRecorded
<1> QED
  BY <1>2, <1>3, <1>4, <1>5, <1>6, RecordRests

LEMMA RecordStutters ==
  ASSUME RegistryInv, RecordInv, ReportsStay, UNCHANGED <<disk, registryVars>>
  PROVE  RecordInv'
<1>1. registrar.repeat => registrar.pc # "idle"
  BY DEF RecordInv, RepeatIsRecorded
<1>2. settled # 0 => registrar.pc = "idle"
  BY DEF RecordInv, SettledIsRecorded
<1> QED
  BY <1>1, <1>2, RecordRests DEF registryVars

LEMMA RecordInitially == Init => RecordInv
<1> SUFFICES ASSUME Init PROVE RecordInv
  OBVIOUS
<1>1. runs = <<>> /\ registrar = IdleRegistrar /\ settled = 0
  BY DEF Init, RegistryInit
<1> QED
  BY <1>1 DEF RecordInv, OneRunPerReport, RecordedSoFar, SettledIsRecorded,
              RepeatIsRecorded, IdleRegistrar

LEMMA RecordStep ==
  ASSUME PipelineInv, RecordInv, [Next]_pipelineVars
  PROVE  RecordInv'
<1> USE DEF PipelineInv
<1>1. CASE Parse
  <2>1. ReportsStay /\ SeeDisk
    BY <1>1, ParserWorkStep DEF Parse, StoreStepOK
  <2> QED
    BY <2>1, ParserStepRecord
<1>2. CASE Register
  <2>1. CASE RegistryStart
    BY <2>1, RegistryStartRecord
  <2>2. CASE RegistryWork
    BY <2>2, IngestItemRecord, FinishRunRecord, RegistrarMovesRecord
       DEF RegistryWork, RefuseManifest
  <2> QED
    BY <1>2, <2>1, <2>2 DEF Register
<1>3. CASE Rescan
  <2>1. ReportsStay
    BY <1>3, RerouteStep DEF Rescan, StoreStepOK
  <2>2. UNCHANGED <<disk, registryVars>>
    BY <1>3 DEF Rescan, Reroute
  <2> QED
    BY <2>1, <2>2, RecordStutters
<1>4. CASE Fault
  <2>1. ASSUME NEW p \in Parsers, ParserFault(p), SeeDisk
        PROVE  RecordInv'
    BY <2>1, ParserFaultStep, ParserStepRecord DEF StoreStepOK
  <2>2. CASE RegistryFault
    BY <2>2, RegistrarMovesRecord DEF RegistryFault
  <2> QED
    BY <1>4, <2>1, <2>2 DEF Fault
<1>5. CASE Rest \/ UNCHANGED pipelineVars
  <2>1. UNCHANGED <<disk, reports, registryVars>>
    BY <1>5 DEF Rest, pipelineVars, storeVars
  <2>2. ReportsStay
    BY <2>1, ReportsCounted DEF ReportsStay
  <2> QED
    BY <2>1, <2>2, RecordStutters
<1> QED
  BY <1>1, <1>2, <1>3, <1>4, <1>5 DEF Next

LEMMA RecordInvariant == Spec => []RecordInv
BY PipelineInvariant, RecordInitially, RecordStep, PTL DEF Spec

\* A transaction of a repetition writes what is there.
LEMMA RepeatWritesNothing ==
  ASSUME RegistryInv, RecordInv, registrar.repeat,
         NEW s \in Contents, IngestItem(s)
  PROVE  UNCHANGED <<results, document, parseStatus>>
<1> DEFINE k == registrar.run
<1>1. registrar.pc # "idle" /\ runs[k].report # 0 /\ AllRecorded(k)
  BY DEF RecordInv, RepeatIsRecorded
<1>2. /\ k \in 1..Len(runs) /\ s \in registrar.todo
      /\ results' = [results EXCEPT ![k] = [results[k] EXCEPT ![s] = NewRow(k, s)]]
      /\ parseStatus' = [parseStatus EXCEPT ![s] = NewStatus(k, s)]
      /\ document' = [document EXCEPT ![s] = NewDocument(k, s)]
  BY <1>1, IngestItemWrites
<1>3. Recorded(k, s)
  BY <1>1, <1>2 DEF AllRecorded, RecordInv, RecordedSoFar
<1>4. /\ results \in [1..Len(runs) -> [Contents -> Result]]
      /\ parseStatus \in [Contents -> {None, "PARSED", "PARSED_EMPTY",
                                       "PARSE_FAILED"}]
      /\ document \in [Contents -> Document]
  BY LenProperties DEF RegistryInv, RegistryTypeOK
<1>5. [results[k] EXCEPT ![s] = NewRow(k, s)] = results[k]
  <2>1. results[k] \in [Contents -> Result]
    BY <1>2, <1>4
  <2> QED
    BY <1>3, <2>1 DEF Recorded
<1> QED
  BY <1>2, <1>3, <1>4, <1>5 DEF Recorded

\* To register a report again, with nothing changed in between, changes no
\* kb_parse_result, no kb_document and no parse_status, whatever else runs,
\* fails or is killed meanwhile (_get_or_create_run_for_report and
\* _persist_content_result).
THEOREM RegisteringAgainChangesNothing == Spec => ReRegisterIsIdempotent
<1>1. ASSUME PipelineInv, RecordInv, [Next]_pipelineVars
      PROVE  [registrar.repeat =>
                UNCHANGED <<results, document, parseStatus>>]_registryVars
  <2> SUFFICES ASSUME registrar.repeat
               PROVE  UNCHANGED <<results, document, parseStatus>>
    OBVIOUS
  <2>1. registrar.pc # "idle" /\ RegistryInv
    BY <1>1 DEF PipelineInv, RecordInv, RepeatIsRecorded
  <2>2. CASE Parse
    BY <2>2 DEF Parse, SeeDisk
  <2>3. CASE Register
    <3>1. ~RegistryStart
      BY <2>1 DEF RegistryStart, StartRegister, StartReconcile
    <3>2. ASSUME NEW s \in Contents, IngestItem(s)
          PROVE  UNCHANGED <<results, document, parseStatus>>
      BY <1>1, <2>1, <3>2, RepeatWritesNothing
    <3>3. CASE BeginRun \/ EndItems(FALSE) \/ FinishRun
      BY <3>3 DEF BeginRun, EndItems, FinishRun
    <3>4. CASE \E s \in Contents : RefuseManifest(s)
      BY <3>4 DEF RefuseManifest, IngestFails
    <3> QED
      BY <2>3, <3>1, <3>2, <3>3, <3>4 DEF Register, RegistryWork
  <2>4. CASE Rescan
    BY <2>4 DEF Rescan, registryVars
  <2>5. CASE Fault
    BY <2>5 DEF Fault, SeeDisk, RegistryFault, IngestFails, EndItems, RunRaises,
                KillRegistrar
  <2>6. CASE Rest \/ UNCHANGED pipelineVars
    BY <2>6 DEF Rest, pipelineVars, registryVars
  <2> QED
    BY <1>1, <2>2, <2>3, <2>4, <2>5, <2>6 DEF Next
<1>2. PipelineInv /\ RecordInv /\ [Next]_pipelineVars =>
        [registrar.repeat =>
           UNCHANGED <<results, document, parseStatus>>]_registryVars
  BY <1>1
<1> QED
  BY <1>2, PipelineInvariant, RecordInvariant, PTL
     DEF Spec, ReRegisterIsIdempotent

-----------------------------------------------------------------------------
(***************************************************************************)
(* ManifestsAreTrue and FreshReportsAreTrue do not meet yet: the former    *)
(* says nothing of a directory that somebody is about to write, where a    *)
(* fresh report still holds.  What a command that has been alone has noted *)
(* as parsed, and is done with, had its original and lies there complete.  *)
(***************************************************************************)
Sound(d) ==
  Truthful(d) /\ (d.manifest.status \in Told => d.manifest.hash # None)

HasOriginal(me) ==
  me.pc \in {"clear", "clear meta", "clear manifest", "convert"} =>
    original[me.cur]

Delivers(me, s, d) ==
  me.items[s] \in Told =>
    original[s] /\ (me.pc = "next" \/ s # me.cur => Sound(d))

DeliversSoFar(p) ==
  parser[p].clean =>
    /\ HasOriginal(parser[p])
    /\ \A s \in Contents : Delivers(parser[p], s, disk[s])

FreshIsSound ==
  fresh # 0 =>
    \A s \in Contents :
      reports[fresh].items[s] \in Told => original[s] /\ Sound(disk[s])

DeliveryInv == FreshIsSound /\ \A p \in Parsers : DeliversSoFar(p)

LEMMA DeliveryWithoutWrite ==
  ASSUME StoreInv, DeliveryInv, NEW p \in Parsers, OthersStay(p), disk' = disk,
         original' = original, FreshIsSound',
         parser'[p].clean =>
           /\ HasOriginal(parser'[p])
           /\ \A s \in Contents : Delivers(parser'[p], s, disk[s])
  PROVE  DeliveryInv'
<1>1. DeliversSoFar(p)'
  BY DEF DeliversSoFar, HasOriginal, Delivers
<1>2. ASSUME NEW q \in Parsers \ {p}
      PROVE  DeliversSoFar(q)'
  <2>1. DeliversSoFar(q) /\ parser \in [Parsers -> ParserState]
    BY DEF DeliveryInv, StoreInv, StoreTypeOK
  <2> QED
    BY <2>1, OthersFields DEF DeliversSoFar, HasOriginal, Delivers
<1> QED
  BY <1>1, <1>2 DEF DeliveryInv

LEMMA SoundStays ==
  ASSUME DeliveryInv, disk' = disk, original' = original, reports' = reports,
         fresh' = fresh
  PROVE  FreshIsSound'
BY DEF DeliveryInv, FreshIsSound

LEMMA StartParseDelivery ==
  ASSUME StoreInv, DeliveryInv, NEW p \in Parsers, NEW S \in SUBSET Contents,
         NEW force \in BOOLEAN, StartParse(p, S, force)
  PROVE  DeliveryInv'
<1> DEFINE alone == Active = {}
           new == [IdleParser EXCEPT !.pc = "next", !.force = force,
                                     !.batch = S, !.clean = alone]
<1>1. /\ Moves(p, new)
      /\ UNCHANGED <<disk, original, reports, fresh>>
  BY DEF StartParse, Moves
<1> HIDE DEF alone
<1>2. alone \in BOOLEAN
  BY DEF alone
<1>3. /\ new \in ParserState /\ new.pc = "next"
      /\ \A s \in Contents : new.items[s] = None
  BY <1>2, IdleParserType DEF ParserState, IdleParser
<1> HIDE DEF new
<1>4. parser'[p] = new /\ OthersStay(p)
  BY <1>1, <1>3, MovesLeaveOthers DEF StoreInv, StoreTypeOK
<1>5. HasOriginal(new) /\ \A s \in Contents : Delivers(new, s, disk[s])
  BY <1>3 DEF HasOriginal, Delivers, Told, None
<1> QED
  BY <1>1, <1>4, <1>5, SoundStays, DeliveryWithoutWrite

LEMMA PlanContentDelivery ==
  ASSUME StoreInv, DeliveryInv, NEW p \in Parsers, NEW s \in Contents,
         NEW limited \in BOOLEAN, PlanContent(p, s, limited)
  PROVE  DeliveryInv'
<1>0. PICK me, new : me = parser[p] /\ new = parser'[p]
  OBVIOUS
<1>1. /\ me.pc = "next" /\ UNCHANGED <<disk, original, reports, fresh>>
      /\ OthersStay(p) /\ new.clean = me.clean
      /\ \A t \in Contents \ {s} : new.items[t] = me.items[t]
      /\ new.pc # "next" => new.cur = s
      /\ \/ new.pc = "next" /\ ~Vouched(p, new.items[s])
         \/ new.pc = "manifest" /\ new.items[s] = "FAILED"
         \/ /\ new.items[s] = me.items[s] /\ new.pc \in {"clear", "convert"}
            /\ original[s]
  BY <1>0, PlanContentOutcome
<1>2. ASSUME new.clean
      PROVE  HasOriginal(new) /\ \A t \in Contents : Delivers(new, t, disk[t])
  <2>1. \A t \in Contents : Delivers(me, t, disk[t])
    BY <1>0, <1>1, <1>2 DEF DeliveryInv, DeliversSoFar
  <2>2. \A t \in Contents \ {s} : Delivers(new, t, disk[t])
    BY <1>1, <2>1 DEF Delivers
  <2>3. HasOriginal(new) /\ Delivers(new, s, disk[s])
    BY <1>1 DEF HasOriginal, Delivers, Vouched, Told
  <2> QED
    BY <2>2, <2>3
<1> QED
  BY <1>0, <1>1, <1>2, SoundStays, DeliveryWithoutWrite

LEMMA ConvertDelivery ==
  ASSUME StoreInv, DeliveryInv, NEW p \in Parsers,
         \/ \E out \in Outputs \cup {Blank}, incomplete \in BOOLEAN :
              Converted(p, out, incomplete)
         \/ NotConverted(p)
  PROVE  DeliveryInv'
<1>0. PICK me, new, s : me = parser[p] /\ new = parser'[p] /\ s = me.cur
  OBVIOUS
<1>1. /\ me.pc = "convert" /\ s \in Contents
      /\ UNCHANGED <<disk, original, reports, fresh>>
      /\ OthersStay(p) /\ new.clean = me.clean
      /\ \A t \in Contents \ {s} : new.items[t] = me.items[t]
      /\ \/ new.pc = "next" /\ ~Vouched(p, new.items[s])
         \/ new.pc \in {"text", "manifest"} /\ new.cur = s
  BY <1>0, ConvertOutcome
<1>2. ASSUME new.clean
      PROVE  HasOriginal(new) /\ \A t \in Contents : Delivers(new, t, disk[t])
  <2>1. HasOriginal(me) /\ \A t \in Contents : Delivers(me, t, disk[t])
    BY <1>0, <1>1, <1>2 DEF DeliveryInv, DeliversSoFar
  <2>2. \A t \in Contents \ {s} : Delivers(new, t, disk[t])
    BY <1>0, <1>1, <2>1 DEF Delivers
  <2>3. HasOriginal(new) /\ Delivers(new, s, disk[s])
    BY <1>0, <1>1, <2>1 DEF HasOriginal, Delivers, Vouched
  <2> QED
    BY <2>2, <2>3
<1> QED
  BY <1>0, <1>1, <1>2, SoundStays, DeliveryWithoutWrite

LEMMA FileStepDelivery ==
  ASSUME StoreInv, DeliveryInv, NEW p \in Parsers, NEW dir, NEW pc, Writing(p),
         KeepsWord(p, dir, pc), FileStep(p, dir, pc),
         pc = "next" /\ parser[p].clean => Sound(dir)
  PROVE  DeliveryInv'
<1> DEFINE me == parser[p]
           s == me.cur
           new == AfterFile(me, pc)
<1>1. /\ parser \in [Parsers -> ParserState] /\ me \in ParserState
      /\ s \in Contents /\ disk \in [Contents -> ParsedDir]
  BY DEF StoreInv, StoreTypeOK, ParserHasContent, Writing
<1>2. /\ new \in ParserState /\ new.pc = pc
      /\ new.clean = me.clean /\ new.items = me.items
      /\ pc # "next" => new.cur = s
  BY <1>1 DEF AfterFile, ParserState, KeepsWord
<1>3. disk' = [disk EXCEPT ![s] = dir] /\ fresh' = 0 /\ original' = original
  BY DEF FileStep
<1>4. Moves(p, new)
  BY FileStepMoves
<1> HIDE DEF new
<1>5. FreshIsSound'
  BY <1>3 DEF FreshIsSound
<1>6. ASSUME new.clean
      PROVE  HasOriginal(new) /\ \A t \in Contents : Delivers(new, t, disk'[t])
  <2>1. HasOriginal(me) /\ \A t \in Contents : Delivers(me, t, disk[t])
    BY <1>2, <1>6 DEF DeliveryInv, DeliversSoFar
  <2>2. HasOriginal(new)
    BY <1>2, <2>1 DEF HasOriginal, KeepsWord
  <2>3. ASSUME NEW t \in Contents \ {s}
        PROVE  Delivers(new, t, disk'[t])
    BY <1>1, <1>2, <1>3, <2>1 DEF Delivers
  <2>4. Delivers(new, s, disk'[s])
    BY <1>1, <1>2, <1>3, <1>6, <2>1 DEF Delivers
  <2> QED
    BY <2>2, <2>3, <2>4
<1>7. DeliversSoFar(p)'
  <2>1. parser'[p] = new
    BY <1>1, <1>2, <1>4, MovesLeaveOthers
  <2> QED
    BY <1>3, <1>6, <2>1 DEF DeliversSoFar, HasOriginal, Delivers
<1>8. ASSUME NEW q \in Parsers \ {p}
      PROVE  DeliversSoFar(q)'
  <2>1. parser[q] \in ParserState /\ parser'[q] = [parser[q] EXCEPT !.clean = FALSE]
    BY <1>1, <1>4 DEF Moves
  <2> QED
    BY <2>1 DEF DeliversSoFar, ParserState
<1> QED
  BY <1>5, <1>7, <1>8 DEF DeliveryInv

LEMMA WritesDelivery ==
  ASSUME StoreInv, ManifestInv, DeliveryInv, NEW p \in Parsers,
         \/ ClearText(p) \/ ClearMeta(p) \/ ClearManifest(p)
         \/ WriteText(p) \/ WriteMeta(p) \/ WriteManifest(p)
  PROVE  DeliveryInv'
<1> DEFINE me == parser[p]
           d == disk[me.cur]
<1>1. PICK dir, pc :
        /\ KeepsWord(p, dir, pc) /\ FileStep(p, dir, pc)
        /\ pc = "next" =>
             /\ WriteManifest(p)
             /\ dir = [d EXCEPT !.manifest = NewManifest(p)]
  BY WritesKeepWord
<1>2. Writing(p)
  BY WritesKeepWord
<1>3. ASSUME pc = "next", me.clean
      PROVE  Sound(dir)
  <2>1. TrueSoFar(p) /\ me.pc = "manifest"
    BY <1>1, <1>3 DEF ManifestInv, WriteManifest
  <2>2. VerdictFits(me) /\ WrittenFits(p, me, d)
    BY <1>3, <2>1 DEF TrueSoFar
  <2>3. d \in ParsedDir
    BY <1>2 DEF StoreInv, StoreTypeOK, ParserHasContent, Writing
  <2>4. /\ dir.manifest.status = me.verdict /\ dir.manifest.parser = p
        /\ dir.manifest.hash = me.out
        /\ dir.text = d.text /\ dir.meta = d.meta
    BY <1>1, <1>3, <2>3 DEF NewManifest, ParsedDir
  <2> QED
    BY <2>1, <2>2, <2>4 DEF Sound, Truthful, VerdictFits, WrittenFits
<1> QED
  BY <1>1, <1>2, <1>3, FileStepDelivery

LEMMA FinishParseDelivery ==
  ASSUME StoreInv, DeliveryInv, NEW p \in Parsers, FinishParse(p)
  PROVE  DeliveryInv'
<1> DEFINE row == [parser |-> p, items |-> parser[p].items]
           n == Len(reports) + 1
<1>1. /\ parser[p].pc = "next" /\ parser' = [parser EXCEPT ![p] = IdleParser]
      /\ disk' = disk /\ original' = original
      /\ reports' = Append(reports, row)
      /\ fresh' = IF parser[p].clean THEN n ELSE fresh
  BY DEF FinishParse
<1>2. /\ reports \in Seq(Report) /\ Len(reports) \in Nat
      /\ fresh \in 0..Len(reports)
  BY DEF StoreInv, StoreTypeOK
<1>3. row.items = parser[p].items
  OBVIOUS
<1> HIDE DEF row
<1>4. reports'[n] = row /\ \A r \in 1..Len(reports) : reports'[r] = reports[r]
  BY <1>1, <1>2
<1>5. parser'[p] = IdleParser /\ OthersStay(p) /\ ~IdleParser.clean
  BY <1>1, IdleParserType, MovesLeaveOthers
     DEF StoreInv, StoreTypeOK, IdleParser
<1>6. FreshIsSound'
  <2>1. CASE parser[p].clean
    <3>1. \A s \in Contents :
            parser[p].items[s] \in Told => original[s] /\ Sound(disk[s])
      BY <1>1, <2>1 DEF DeliveryInv, DeliversSoFar, Delivers
    <3>2. reports'[fresh'].items = parser[p].items
      BY <1>1, <1>3, <1>4, <2>1
    <3> QED
      BY <1>1, <3>1, <3>2 DEF FreshIsSound
  <2>2. CASE ~parser[p].clean
    <3>1. fresh' = fresh /\ (fresh # 0 => reports'[fresh] = reports[fresh])
      BY <1>1, <1>2, <1>4, <2>2
    <3> QED
      BY <1>1, <3>1 DEF DeliveryInv, FreshIsSound
  <2> QED
    BY <2>1, <2>2
<1> QED
  BY <1>1, <1>5, <1>6, DeliveryWithoutWrite

LEMMA InterruptDelivery ==
  ASSUME StoreInv, DeliveryInv, NEW p \in Parsers, NEW next \in ParserState,
         ~next.clean, Interrupt(p, next)
  PROVE  DeliveryInv'
<1>1. /\ parser \in [Parsers -> ParserState]
      /\ Moves(p, next)
      /\ \A q \in Parsers \ {p} : parser'[q] = [parser[q] EXCEPT !.clean = FALSE]
  BY DEF Interrupt, Moves, StoreInv, StoreTypeOK
<1>2. FreshIsSound'
  BY DEF Interrupt, DeliveryInv, FreshIsSound
<1>3. \A q \in Parsers : ~parser'[q].clean
  <2>1. parser'[p] = next
    BY <1>1, MovesLeaveOthers
  <2>2. ASSUME NEW q \in Parsers \ {p}
        PROVE  ~parser'[q].clean
    <3>1. parser[q] \in ParserState /\ parser'[q] = [parser[q] EXCEPT !.clean = FALSE]
      BY <1>1
    <3> QED
      BY <3>1 DEF ParserState
  <2> QED
    BY <2>1, <2>2
<1> QED
  BY <1>2, <1>3 DEF DeliveryInv, DeliversSoFar

LEMMA DeliveryRests ==
  ASSUME DeliveryInv, UNCHANGED <<disk, original, parser, reports, fresh>>
  PROVE  DeliveryInv'
<1>1. FreshIsSound'
  BY SoundStays
<1>2. \A p \in Parsers : DeliversSoFar(p)'
  BY DEF DeliveryInv, DeliversSoFar, HasOriginal, Delivers
<1> QED
  BY <1>1, <1>2 DEF DeliveryInv

LEMMA DeliveryInitially == Init => DeliveryInv
<1> SUFFICES ASSUME Init PROVE DeliveryInv
  OBVIOUS
<1>1. fresh = 0 /\ \A p \in Parsers : ~parser[p].clean
  BY DEF Init, StoreInit, IdleParser
<1> QED
  BY <1>1 DEF DeliveryInv, FreshIsSound, DeliversSoFar

LEMMA ParserStepDelivery ==
  ASSUME StoreInv, ManifestInv, DeliveryInv, NEW p \in Parsers,
         ParserWork(p) \/ ParserFault(p)
  PROVE  DeliveryInv'
<1>1. ASSUME NEW S \in Targets, NEW force \in BOOLEAN, StartParse(p, S, force)
      PROVE  DeliveryInv'
  <2>1. S \in SUBSET Contents
    BY DEF Targets
  <2> QED
    BY <1>1, <2>1, StartParseDelivery
<1>2. ASSUME NEW s \in Contents, NEW limited \in BOOLEAN,
             PlanContent(p, s, limited)
      PROVE  DeliveryInv'
  BY <1>2, PlanContentDelivery
<1>3. CASE \/ ClearText(p) \/ ClearMeta(p) \/ ClearManifest(p)
           \/ WriteText(p) \/ WriteMeta(p) \/ WriteManifest(p)
  BY <1>3, WritesDelivery
<1>4. CASE \/ \E out \in Outputs \cup {Blank}, incomplete \in BOOLEAN :
                Converted(p, out, incomplete)
           \/ NotConverted(p)
  BY <1>4, ConvertDelivery
<1>5. CASE FinishParse(p)
  BY <1>5, FinishParseDelivery
<1>6. CASE ParserFault(p)
  <2> DEFINE raised == [parser[p] EXCEPT !.pc = "next", !.cur = None,
                          !.verdict = None, !.out = None, !.clean = FALSE,
                          !.items[parser[p].cur] = "FAILED"]
  <2>1. IdleParser \in ParserState /\ ~IdleParser.clean
    BY IdleParserType DEF IdleParser
  <2>2. CASE KillParser(p)
    BY <2>1, <2>2, InterruptDelivery DEF KillParser
  <2>3. CASE ParserRaises(p)
    <3>1. parser[p] \in ParserState /\ parser[p].cur \in Contents
      BY <2>3 DEF ParserRaises, StoreInv, StoreTypeOK, ParserHasContent
    <3>2. [parser[p].items EXCEPT ![parser[p].cur] = "FAILED"]
            \in [Contents -> ItemStatus]
      BY <3>1 DEF ParserState, ItemStatus, Verdicts
    <3>3. raised \in ParserState /\ ~raised.clean
      BY <3>1, <3>2 DEF ParserState
    <3>4. Interrupt(p, IF p = "markitdown" THEN raised ELSE IdleParser)
      BY <2>3 DEF ParserRaises
    <3> HIDE DEF raised
    <3> QED
      BY <2>1, <3>3, <3>4, InterruptDelivery
  <2> QED
    BY <1>6, <2>2, <2>3 DEF ParserFault
<1> QED
  BY <1>1, <1>2, <1>3, <1>4, <1>5, <1>6 DEF ParserWork

LEMMA DeliveryStep ==
  ASSUME PipelineInv, TruthInv, DeliveryInv, [Next]_pipelineVars
  PROVE  DeliveryInv'
<1>1. StoreInv /\ ManifestInv
  BY DEF PipelineInv, TruthInv
<1>2. CASE Parse
  BY <1>1, <1>2, ParserStepDelivery DEF Parse
<1>3. CASE Register
  <2>1. UNCHANGED storeVars
    BY <1>3, RegistrarLeavesStore DEF Register
  <2> QED
    BY <2>1, DeliveryRests DEF storeVars
<1>4. CASE Rescan
  BY <1>4, DeliveryRests DEF Rescan, Reroute
<1>5. CASE Fault
  <2>1. ASSUME NEW p \in Parsers, ParserFault(p)
        PROVE  DeliveryInv'
    BY <1>1, <2>1, ParserStepDelivery
  <2>2. CASE RegistryFault
    <3>1. UNCHANGED storeVars
      BY <2>2, RegistrarLeavesStore
    <3> QED
      BY <3>1, DeliveryRests DEF storeVars
  <2> QED
    BY <1>5, <2>1, <2>2 DEF Fault
<1>6. CASE Rest \/ UNCHANGED pipelineVars
  BY <1>6, DeliveryRests DEF Rest, pipelineVars, storeVars
<1> QED
  BY <1>2, <1>3, <1>4, <1>5, <1>6 DEF Next

LEMMA DeliveryInvariant == Spec => []DeliveryInv
BY PipelineInvariant, TruthInvariant, DeliveryInitially, DeliveryStep, PTL
   DEF Spec

\* What lies in the directory of a delivered content, and in the tables.
LEMMA DeliveredFacts ==
  ASSUME PipelineInv, TruthInv, RecordInv, DeliveryInv, NEW s \in Delivered
  PROVE  LET item == reports[fresh].items[s]
             name == reports[fresh].parser
             d == disk[s]
             row == results[settled][s]
         IN /\ s \in Contents /\ item \in Told /\ name \in Parsers
            /\ Label(settled) = name /\ original[s]
            /\ d.manifest.status = item /\ d.manifest.parser = name
            /\ d.manifest.hash = d.text /\ d.text # None /\ d.meta = name
            /\ row.status = item /\ row.hash = d.text
            /\ ~row.flagged /\ ~row.missing /\ row.indexed = Artifacts
            /\ parseStatus[s] = IF item = "SUCCESS" THEN "PARSED"
                                ELSE "PARSED_EMPTY"
            /\ document[s] = [status |-> parseStatus[s], parser |-> name,
                              hash |-> d.text]
<1> DEFINE item == reports[fresh].items[s]
           name == reports[fresh].parser
           d == disk[s]
           m == disk[s].manifest
           row == results[settled][s]
<1>1. /\ settled # 0 /\ fresh # 0 /\ runs[settled].report = fresh
      /\ s \in Contents /\ item \in Told
  BY DEF Delivered, Told
<1>2. /\ ItemsOf(settled)[s] = item /\ Label(settled) = name
      /\ name \in Parsers
  <2>1. fresh \in 1..Len(reports) /\ reports \in Seq(Report)
    BY <1>1 DEF PipelineInv, StoreInv, StoreTypeOK
  <2>2. reports[fresh] \in Report
    BY <2>1
  <2>3. name \in Parsers
    BY <2>2 DEF Report
  <2> QED
    BY <1>1, <2>3 DEF ItemsOf, Label
<1>3. /\ original[s] /\ m.status = item /\ m.parser = name
      /\ d.text = m.hash /\ d.meta = m.parser /\ m.hash # None
  <2>1. original[s] /\ Sound(d)
    BY <1>1 DEF DeliveryInv, FreshIsSound
  <2>2. m.status = item /\ m.parser = name
    BY <1>1 DEF TruthInv, ReportInv, FreshReportIsTrue, Told
  <2> QED
    BY <1>1, <2>1, <2>2 DEF Sound, Truthful
<1>4. Readable(s) /\ ItemOutcome(settled, s) = item
  BY <1>1, <1>2, <1>3 DEF ItemOutcome, ResultStatus, Readable, Told, Verdicts
<1>5. Recorded(settled, s)
  BY <1>1, <1>2 DEF RecordInv, SettledIsRecorded, AllRecorded, Told, None
<1>6. /\ row.status = item /\ row.hash = m.hash
      /\ ~row.flagged /\ ~row.missing
      /\ row.indexed = Indexed(row.indexed, item, Readable(s))
  <2> DEFINE flagged == m.hash # None /\ d.text \notin {None, m.hash}
             missing == ~Readable(s) /\ item = "FAILED"
             indexed == Indexed(row.indexed, item, Readable(s))
  <2>1. row = [status |-> item, hash |-> m.hash, flagged |-> flagged,
               missing |-> missing, indexed |-> indexed]
    BY <1>4, <1>5 DEF Recorded, NewRow
  <2>2. ~flagged /\ ~missing
    BY <1>3, <1>4
  <2> HIDE DEF row, flagged, missing, indexed
  <2>3. /\ row.status = item /\ row.hash = m.hash
        /\ ~row.flagged /\ ~row.missing /\ row.indexed = indexed
    BY <2>1, <2>2
  <2> QED
    BY <2>3 DEF indexed
<1>7. row.indexed = Artifacts
  <2>1. settled \in 1..Len(runs)
    BY <1>1, RunsCounted DEF PipelineInv, RegistryInv, RegistryTypeOK
  <2>2. row \in Result
    BY <1>1, <2>1, RowsOfRuns DEF PipelineInv, RegistryInv
  <2>3. row.indexed \subseteq Artifacts
    BY <2>2 DEF Result
  <2> QED
    BY <1>1, <1>4, <1>6, <2>3 DEF Indexed, Artifacts, Told
<1>8. parseStatus[s] = IF item = "SUCCESS" THEN "PARSED" ELSE "PARSED_EMPTY"
  BY <1>1, <1>4, <1>5 DEF Recorded, NewStatus, ParseStatusAfter, Told
<1>9. document[s] = [status |-> parseStatus[s], parser |-> name,
                     hash |-> m.hash]
  BY <1>1, <1>2, <1>4, <1>5, <1>8
     DEF Recorded, NewDocument, DocumentAfter, Told
<1> QED
  BY <1>1, <1>2, <1>3, <1>6, <1>7, <1>8, <1>9

DeliveredInv == PipelineInv /\ TruthInv /\ RecordInv /\ DeliveryInv

LEMMA DeliveredInvariant == Spec => []DeliveredInv
BY PipelineInvariant, TruthInvariant, RecordInvariant, DeliveryInvariant, PTL
   DEF DeliveredInv

\* Parse, then register, with nothing done since: the report, the three files,
\* kb_parse_result, kb_parsed_artifact, kb_document and parse_status say the
\* same of each content reported as parsed, whatever the failures, kills and
\* registrations before have left (_ingest_report_item).
THEOREM DeliveredAreRegistered == Spec => []DeliveredIsRegistered
<1>1. ASSUME DeliveredInv, NEW s \in Delivered
      PROVE  LET item == reports[fresh].items[s]
                 row == results[settled][s]
             IN /\ row.status = item /\ row.indexed = Artifacts
                /\ row.hash = disk[s].text /\ ~row.flagged /\ ~row.missing
                /\ parseStatus[s] = document[s].status
                /\ document[s] = [status |-> IF item = "SUCCESS" THEN "PARSED"
                                             ELSE "PARSED_EMPTY",
                                  parser |-> reports[fresh].parser,
                                  hash   |-> disk[s].text]
  <2> DEFINE item == reports[fresh].items[s]
             verdict == IF item = "SUCCESS" THEN "PARSED" ELSE "PARSED_EMPTY"
             row == results[settled][s]
  <2>1. /\ row.status = item /\ row.indexed = Artifacts
        /\ row.hash = disk[s].text /\ ~row.flagged /\ ~row.missing
    BY <1>1, DeliveredFacts DEF DeliveredInv
  <2>2. /\ parseStatus[s] = verdict
        /\ document[s] = [status |-> parseStatus[s],
                          parser |-> reports[fresh].parser,
                          hash   |-> disk[s].text]
    BY <1>1, DeliveredFacts DEF DeliveredInv
  <2> HIDE DEF verdict
  <2>3. document[s].status = verdict
    BY <2>2
  <2> QED
    BY <2>1, <2>2, <2>3 DEF verdict
<1>2. DeliveredInv => DeliveredIsRegistered
  BY <1>1 DEF DeliveredIsRegistered
<1> QED
  BY <1>2, DeliveredInvariant, PTL

\* ... and check-parse-quality has nothing to say against such a content but,
\* of an empty text, that it is empty (parse_quality_checker.py).
THEOREM DeliveredPassTheCheck == Spec => []DeliveredPassesQuality
<1>1. ASSUME DeliveredInv, NEW s \in Delivered
      PROVE  Issues(settled, s) = IF reports[fresh].items[s] = "EMPTY"
                                  THEN {"REGISTRY_EMPTY_RESULT"} ELSE {}
  <2> DEFINE item == reports[fresh].items[s]
             name == reports[fresh].parser
             d == disk[s]
             row == results[settled][s]
  <2>1. /\ item \in Told /\ name \in Parsers
        /\ Label(settled) = name /\ original[s]
        /\ d.manifest.status = item /\ d.manifest.parser = name
        /\ d.text # None /\ d.meta = name
        /\ row.status = item /\ ~row.missing /\ row.indexed = Artifacts
    BY <1>1, DeliveredFacts DEF DeliveredInv
  <2>2. OnDisk(s) = Artifacts
    BY <2>1 DEF OnDisk, Artifacts, Told, Parsers, None
  <2>3. FileIssues(s) = {}
    BY <2>1, <2>2 DEF FileIssues
  <2>4. ManifestIssues(settled, s) = {}
    BY <2>1 DEF ManifestIssues, Told, None, Torn
  <2>5. RegistryIssues(settled, s)
          = IF item = "EMPTY" THEN {"REGISTRY_EMPTY_RESULT"} ELSE {}
    BY <2>1, <2>2 DEF RegistryIssues, Told
  <2> QED
    BY <2>3, <2>4, <2>5 DEF Issues
<1>2. DeliveredInv => DeliveredPassesQuality
  BY <1>1 DEF DeliveredPassesQuality
<1> QED
  BY <1>2, DeliveredInvariant, PTL
=============================================================================
