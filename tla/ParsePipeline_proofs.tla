------------------------ MODULE ParsePipeline_proofs ------------------------
(***************************************************************************)
(* Proofs about ParsePipeline, for any contents, texts, reports, runs and  *)
(* faults: type correctness, and two promises of the parse registry.       *)
(***************************************************************************)
EXTENDS ParsePipeline, TLAPS, FiniteSetTheorems, SequenceTheorems

(***************************************************************************)
(* First the store: every step of a parser, and everything that may go     *)
(* wrong with it, keeps it well formed.  StoreTypeOK is kept because       *)
(* a parser in the middle of its work has a content in hand, and because   *)
(* each command that runs has a place for its report.                      *)
(***************************************************************************)
ParserHasContent ==
  \A p \in Parsers :
    parser[p].pc \notin {"idle", "next"} => parser[p].cur \in Contents

RoomForReports == Len(reports) + Cardinality(Active) <= MaxReports

StoreInv == StoreTypeOK /\ ParserHasContent /\ RoomForReports

\* A report, once written, stays as it is.
ReportsStay ==
  /\ Len(reports) <= Len(reports')
  /\ \A r \in 1..Len(reports) : reports'[r] = reports[r]

StoreStepOK == StoreInv' /\ ReportsStay

-----------------------------------------------------------------------------
LEMMA ParsersFinite == IsFiniteSet(Parsers)
<1>1. IsFiniteSet({"markitdown"} \cup {"mineru"})
  BY FS_Singleton, FS_AddElement
<1>2. Parsers = {"markitdown"} \cup {"mineru"}
  BY DEF Parsers
<1> QED
  BY <1>1, <1>2

\* Counting the commands that run gives a number.
LEMMA ActiveFinite ==
  ASSUME NEW S, S \subseteq Parsers
  PROVE  IsFiniteSet(S) /\ Cardinality(S) \in Nat
BY ParsersFinite, FS_Subset, FS_CardinalityType

LEMMA IdleParserType == IdleParser \in ParserState /\ IdleParser.pc = "idle"
<1>1. [s \in Contents |-> None] \in [Contents -> ItemStatus]
  BY DEF ItemStatus
<1> QED
  BY <1>1 DEF IdleParser, ParserState

LEMMA NoDirType == NoManifest \in Manifest /\ NoDir \in ParsedDir
<1>1. NoManifest \in Manifest
  BY DEF NoManifest, Manifest
<1> QED
  BY <1>1 DEF NoDir, ParsedDir

LEMMA ReportsCounted ==
  ASSUME StoreInv
  PROVE  Len(reports) \in Nat /\ 0 \in 0..Len(reports)
<1>1. reports \in Seq(Report)
  BY DEF StoreInv, StoreTypeOK
<1>2. Len(reports) \in Nat
  BY <1>1
<1> QED
  BY <1>2

\* One command moves to new, the others at most learn that they are disturbed.
Moves(p, new) ==
  parser' = [q \in Parsers |-> IF q = p THEN new
                               ELSE [parser[q] EXCEPT !.clean = FALSE]]

LEMMA MovesType ==
  ASSUME parser \in [Parsers -> ParserState], NEW p \in Parsers,
         NEW new \in ParserState, Moves(p, new)
  PROVE  /\ parser' \in [Parsers -> ParserState]
         /\ parser'[p] = new
         /\ \A q \in Parsers \ {p} :
              parser'[q].pc = parser[q].pc /\ parser'[q].cur = parser[q].cur
<1> DEFINE seen(q) == [parser[q] EXCEPT !.clean = FALSE]
<1>1. \A q \in Parsers :
        /\ seen(q) \in ParserState
        /\ seen(q).pc = parser[q].pc /\ seen(q).cur = parser[q].cur
  BY DEF ParserState
<1>2. parser' = [q \in Parsers |-> IF q = p THEN new ELSE seen(q)]
  BY DEF Moves
<1> HIDE DEF seen
<1> QED
  BY <1>1, <1>2

\* A step of a command that runs already, and writes no report.
LEMMA CommandStep ==
  ASSUME StoreInv, NEW p \in Parsers, parser[p].pc # "idle",
         parser' \in [Parsers -> ParserState],
         parser'[p].pc \notin {"idle", "next"} => parser'[p].cur \in Contents,
         \A q \in Parsers \ {p} :
           parser'[q].pc = parser[q].pc /\ parser'[q].cur = parser[q].cur,
         route' = route, original' = original, reports' = reports,
         disk' \in [Contents -> ParsedDir], torn' \subseteq Contents,
         fresh' \in 0..Len(reports)
  PROVE  StoreStepOK
<1>1. StoreTypeOK'
  BY DEF StoreInv, StoreTypeOK
<1>2. ParserHasContent'
  BY DEF StoreInv, ParserHasContent
<1>3. Active' \subseteq Active /\ Active \subseteq Parsers
  BY DEF Active
<1>4. /\ Cardinality(Active') <= Cardinality(Active)
      /\ Cardinality(Active') \in Nat /\ Cardinality(Active) \in Nat
  <2>1. IsFiniteSet(Active) /\ Cardinality(Active) \in Nat
    BY <1>3, ActiveFinite
  <2>2. Active' \in SUBSET Active
    BY <1>3
  <2>3. Cardinality(Active') <= Cardinality(Active)
    BY <2>1, <2>2, FS_Subset
  <2>4. Cardinality(Active') \in Nat
    BY <1>3, ActiveFinite
  <2> QED
    BY <2>1, <2>3, <2>4
<1>5. Len(reports) \in Nat
  BY DEF StoreInv, StoreTypeOK
<1>6. RoomForReports'
  BY <1>4, <1>5, MaxReportsAssumption DEF StoreInv, RoomForReports
<1>7. ReportsStay
  BY <1>5 DEF ReportsStay
<1> QED
  BY <1>1, <1>2, <1>6, <1>7 DEF StoreInv, StoreStepOK

\* ... and touches no directory either.
LEMMA ThinkingStep ==
  ASSUME StoreInv, NEW p \in Parsers, NEW new \in ParserState,
         parser[p].pc # "idle",
         new.pc \notin {"idle", "next"} => new.cur \in Contents,
         parser' = [parser EXCEPT ![p] = new],
         UNCHANGED <<route, original, disk, reports, torn, fresh>>
  PROVE  StoreStepOK
<1>1. /\ parser \in [Parsers -> ParserState]
      /\ disk \in [Contents -> ParsedDir] /\ torn \subseteq Contents
      /\ fresh \in 0..Len(reports)
  BY DEF StoreInv, StoreTypeOK
<1>2. /\ parser' \in [Parsers -> ParserState]
      /\ parser'[p] = new
      /\ \A q \in Parsers \ {p} : parser'[q] = parser[q]
  BY <1>1
<1> QED
  BY <1>1, <1>2, CommandStep

-----------------------------------------------------------------------------
(* The steps of a parser (_process_content of markitdown_parser.py,        *)
(* _build_plan and _execute_plan of mineru_pdf_parser.py).                 *)

LEMMA StartParseStep ==
  ASSUME StoreInv, NEW p \in Parsers, NEW S, S \subseteq Contents,
         NEW force \in BOOLEAN, StartParse(p, S, force)
  PROVE  StoreStepOK
<1> DEFINE alone == Active = {}
           new == [IdleParser EXCEPT !.pc = "next", !.force = force,
                                     !.batch = S, !.clean = alone]
<1>1. /\ parser[p].pc = "idle"
      /\ Len(reports) + Cardinality(Active) < MaxReports
      /\ Moves(p, new)
      /\ UNCHANGED <<route, original, disk, reports, torn, fresh>>
  BY DEF StartParse, Moves
<1> HIDE DEF alone
<1>2. alone \in BOOLEAN
  BY DEF alone
<1>3. new \in ParserState /\ new.pc = "next"
  BY <1>2, IdleParserType DEF ParserState
<1> HIDE DEF new
<1>4. parser \in [Parsers -> ParserState] /\ Len(reports) \in Nat
  BY DEF StoreInv, StoreTypeOK
<1>5. /\ parser' \in [Parsers -> ParserState]
      /\ parser'[p] = new
      /\ \A q \in Parsers \ {p} :
           parser'[q].pc = parser[q].pc /\ parser'[q].cur = parser[q].cur
  BY <1>1, <1>3, <1>4, MovesType
<1>6. StoreTypeOK'
  BY <1>1, <1>5 DEF StoreInv, StoreTypeOK
<1>7. ParserHasContent'
  BY <1>3, <1>5 DEF StoreInv, ParserHasContent
<1>8. Active' = Active \cup {p} /\ p \notin Active
  BY <1>1, <1>3, <1>5 DEF Active
<1>9. Cardinality(Active') = Cardinality(Active) + 1
  <2>1. IsFiniteSet(Active)
    BY ActiveFinite DEF Active
  <2> QED
    BY <1>8, <2>1, FS_AddElement
<1>10. Cardinality(Active) \in Nat
  BY ActiveFinite DEF Active
<1>11. RoomForReports'
  BY <1>1, <1>4, <1>9, <1>10, MaxReportsAssumption DEF RoomForReports
<1>12. ReportsStay
  BY <1>1, <1>4 DEF ReportsStay
<1> QED
  BY <1>6, <1>7, <1>11, <1>12 DEF StoreInv, StoreStepOK

LEMMA PlanContentStep ==
  ASSUME StoreInv, NEW p \in Parsers, NEW s \in Contents,
         NEW limited \in BOOLEAN, PlanContent(p, s, limited)
  PROVE  StoreStepOK
<1> DEFINE d == Decision(p, s, limited)
           plan == [parser[p] EXCEPT !.batch = @ \ {s}, !.cur = s]
<1>1. /\ parser[p].pc = "next"
      /\ parser' = [parser EXCEPT ![p] =
           CASE d = "skip" ->
                  [plan EXCEPT !.items[s] = "SKIPPED", !.cur = None]
             [] d = "no original" /\ p = "markitdown" ->
                  [plan EXCEPT !.items[s] = "FAILED", !.pc = "manifest",
                               !.verdict = "FAILED"]
             [] d = "no original" /\ p = "mineru" ->
                  [plan EXCEPT !.items[s] = "FAILED", !.cur = None]
             [] d = "parse" ->
                  [plan EXCEPT !.pc = IF parser[p].force THEN "clear"
                                      ELSE "convert"]]
      /\ UNCHANGED <<route, original, disk, reports, torn, fresh>>
  BY DEF PlanContent
<1>2. parser[p] \in ParserState
  BY DEF StoreInv, StoreTypeOK
<1>3. /\ plan \in ParserState /\ plan.pc = "next" /\ plan.cur = s
      /\ plan.force = parser[p].force
  BY <1>1, <1>2 DEF ParserState
<1>4. d \in {"skip", "no original", "parse"}
  BY DEF Decision
<1>5. \A i \in ItemStatus : [plan.items EXCEPT ![s] = i] \in [Contents -> ItemStatus]
  BY <1>3 DEF ParserState
<1> HIDE DEF d, plan
<1>6. CASE d = "skip"
  <2> DEFINE new == [plan EXCEPT !.items[s] = "SKIPPED", !.cur = None]
  <2>1. new \in ParserState /\ new.pc = "next"
    BY <1>3, <1>5 DEF ParserState, ItemStatus
  <2>2. parser' = [parser EXCEPT ![p] = new]
    BY <1>1, <1>6
  <2> HIDE DEF new
  <2> QED
    BY <1>1, <2>1, <2>2, ThinkingStep
<1>7. CASE d = "no original" /\ p = "markitdown"
  <2> DEFINE new == [plan EXCEPT !.items[s] = "FAILED", !.pc = "manifest",
                                 !.verdict = "FAILED"]
  <2>1. new \in ParserState /\ new.cur = s
    BY <1>3, <1>5 DEF ParserState, ItemStatus, Verdicts
  <2>2. parser' = [parser EXCEPT ![p] = new]
    BY <1>1, <1>7
  <2> HIDE DEF new
  <2> QED
    BY <1>1, <2>1, <2>2, ThinkingStep
<1>8. CASE d = "no original" /\ p = "mineru"
  <2> DEFINE new == [plan EXCEPT !.items[s] = "FAILED", !.cur = None]
  <2>1. new \in ParserState /\ new.pc = "next"
    BY <1>3, <1>5 DEF ParserState, ItemStatus, Verdicts
  <2>2. parser' = [parser EXCEPT ![p] = new]
    BY <1>1, <1>8
  <2> HIDE DEF new
  <2> QED
    BY <1>1, <2>1, <2>2, ThinkingStep
<1>9. CASE d = "parse"
  <2> DEFINE new == [plan EXCEPT !.pc = IF parser[p].force THEN "clear"
                                        ELSE "convert"]
  <2>1. new \in ParserState /\ new.cur = s
    BY <1>3 DEF ParserState
  <2>2. parser' = [parser EXCEPT ![p] = new]
    BY <1>1, <1>9
  <2> HIDE DEF new
  <2> QED
    BY <1>1, <2>1, <2>2, ThinkingStep
<1> QED
  BY <1>4, <1>6, <1>7, <1>8, <1>9 DEF Parsers

LEMMA FileStepType ==
  ASSUME StoreInv, NEW p \in Parsers, NEW dir \in ParsedDir,
         parser[p].pc \notin {"idle", "next"},
         NEW pc \in {"clear meta", "clear manifest", "convert", "meta",
                     "manifest", "next"},
         FileStep(p, dir, pc)
  PROVE  StoreStepOK
<1> DEFINE s == parser[p].cur
           new == IF pc = "next"
                  THEN [parser[p] EXCEPT !.pc = pc, !.cur = None,
                                         !.verdict = None, !.out = None]
                  ELSE [parser[p] EXCEPT !.pc = pc]
<1>1. parser \in [Parsers -> ParserState] /\ parser[p] \in ParserState
      /\ s \in Contents
  BY DEF StoreInv, StoreTypeOK, ParserHasContent
<1>2. Moves(p, new)
  <2>1. parser' = [q \in Parsers |->
          IF q # p THEN [parser[q] EXCEPT !.clean = FALSE]
          ELSE IF pc = "next"
               THEN [parser[p] EXCEPT !.pc = pc, !.cur = None,
                                      !.verdict = None, !.out = None]
               ELSE [parser[p] EXCEPT !.pc = pc]]
    BY DEF FileStep
  <2> QED
    BY <2>1 DEF Moves
<1>3. /\ new \in ParserState /\ new.pc = pc
      /\ pc # "next" => new.cur \in Contents
  BY <1>1 DEF ParserState
<1> HIDE DEF new
<1>4. /\ parser' \in [Parsers -> ParserState]
      /\ parser'[p] = new
      /\ \A q \in Parsers \ {p} :
           parser'[q].pc = parser[q].pc /\ parser'[q].cur = parser[q].cur
  BY <1>1, <1>2, <1>3, MovesType
<1>5. /\ disk' = [disk EXCEPT ![s] = dir]
      /\ torn' \in {torn \cup {s}, torn \ {s}, torn}
      /\ fresh' = 0 /\ UNCHANGED <<route, original, reports>>
  BY DEF FileStep
<1>6. /\ disk' \in [Contents -> ParsedDir] /\ torn' \subseteq Contents
      /\ fresh' \in 0..Len(reports)
  <2>1. disk \in [Contents -> ParsedDir] /\ torn \subseteq Contents
    BY DEF StoreInv, StoreTypeOK
  <2> HIDE DEF s
  <2>2. disk' \in [Contents -> ParsedDir]
    BY <1>1, <1>5, <2>1
  <2>3. torn' \subseteq Contents
    BY <1>1, <1>5, <2>1
  <2>4. fresh' \in 0..Len(reports)
    BY <1>5, ReportsCounted
  <2> QED
    BY <2>2, <2>3, <2>4
<1> QED
  BY <1>3, <1>4, <1>5, <1>6, CommandStep

LEMMA WritesStep ==
  ASSUME StoreInv, NEW p \in Parsers,
         \/ ClearText(p) \/ ClearMeta(p) \/ ClearManifest(p)
         \/ WriteText(p) \/ WriteMeta(p) \/ WriteManifest(p)
  PROVE  StoreStepOK
<1> DEFINE d == disk[parser[p].cur]
<1>1. parser[p].pc \notin {"idle", "next"}
  BY DEF ClearText, ClearMeta, ClearManifest, WriteText, WriteMeta, WriteManifest
<1>2. d \in ParsedDir /\ parser[p] \in ParserState
  BY <1>1 DEF StoreInv, StoreTypeOK, ParserHasContent
<1>3. CASE ClearText(p)
  <2>1. [d EXCEPT !.text = None] \in ParsedDir
    BY <1>2 DEF ParsedDir
  <2> QED
    BY <1>1, <1>3, <2>1, FileStepType DEF ClearText
<1>4. CASE ClearMeta(p)
  <2>1. [d EXCEPT !.meta = None] \in ParsedDir
    BY <1>2 DEF ParsedDir
  <2> QED
    BY <1>1, <1>4, <2>1, FileStepType DEF ClearMeta
<1>5. CASE ClearManifest(p)
  <2>1. [d EXCEPT !.manifest = NoManifest] \in ParsedDir
    BY <1>2, NoDirType DEF ParsedDir
  <2> QED
    BY <1>1, <1>5, <2>1, FileStepType DEF ClearManifest
<1>6. CASE WriteText(p)
  <2>1. [d EXCEPT !.text = parser[p].out] \in ParsedDir
    BY <1>2 DEF ParsedDir, ParserState
  <2> QED
    BY <1>1, <1>6, <2>1, FileStepType DEF WriteText
<1>7. CASE WriteMeta(p)
  <2>1. [d EXCEPT !.meta = p] \in ParsedDir
    BY <1>2 DEF ParsedDir
  <2> QED
    BY <1>1, <1>7, <2>1, FileStepType DEF WriteMeta
<1>8. CASE WriteManifest(p)
  <2>1. NewManifest(p) \in Manifest
    BY <1>2 DEF NewManifest, Manifest, ParserState
  <2>2. [d EXCEPT !.manifest = NewManifest(p)] \in ParsedDir
    BY <1>2, <2>1 DEF ParsedDir
  <2> QED
    BY <1>1, <1>8, <2>2, FileStepType DEF WriteManifest
<1> QED
  BY <1>3, <1>4, <1>5, <1>6, <1>7, <1>8

LEMMA ConvertStep ==
  ASSUME StoreInv, NEW p \in Parsers,
         \/ \E out \in Outputs \cup {Blank}, incomplete \in BOOLEAN :
              Converted(p, out, incomplete)
         \/ NotConverted(p)
  PROVE  StoreStepOK
<1> DEFINE s == parser[p].cur
<1>1. /\ parser[p].pc = "convert"
      /\ UNCHANGED <<route, original, disk, reports, torn, fresh>>
  BY DEF Converted, NotConverted
<1>2. parser[p] \in ParserState /\ s \in Contents
  BY <1>1 DEF StoreInv, StoreTypeOK, ParserHasContent
<1>3. \A i \in ItemStatus :
        [parser[p].items EXCEPT ![s] = i] \in [Contents -> ItemStatus]
  BY <1>2 DEF ParserState
<1>4. CASE NotConverted(p)
  <2> DEFINE new == IF p = "markitdown"
                    THEN [parser[p] EXCEPT !.items[s] = "FAILED",
                                           !.pc = "manifest", !.verdict = "FAILED"]
                    ELSE [parser[p] EXCEPT !.items[s] = "FAILED",
                                           !.pc = "next", !.cur = None]
  <2>1. parser' = [parser EXCEPT ![p] = new]
    BY <1>4 DEF NotConverted
  <2>2. new \in ParserState /\ (new.pc # "next" => new.cur \in Contents)
    BY <1>2, <1>3 DEF ParserState, ItemStatus, Verdicts
  <2> HIDE DEF new
  <2> QED
    BY <1>1, <2>1, <2>2, ThinkingStep
<1>5. ASSUME NEW out \in Outputs \cup {Blank}, NEW incomplete \in BOOLEAN,
             Converted(p, out, incomplete)
      PROVE  StoreStepOK
  <2> DEFINE verdict == IF incomplete THEN "FAILED"
                        ELSE IF out = Blank THEN "EMPTY" ELSE "SUCCESS"
             new == [parser[p] EXCEPT !.pc = "text", !.out = out,
                       !.verdict = verdict, !.items[s] = verdict]
  <2>1. parser' = [parser EXCEPT ![p].pc = "text", ![p].out = out,
                     ![p].verdict = verdict, ![p].items[s] = verdict]
    BY <1>5 DEF Converted
  <2>2. verdict \in Verdicts
    BY DEF Verdicts
  <2> HIDE DEF verdict
  <2>3. new \in ParserState /\ new.cur \in Contents
    BY <1>2, <1>3, <2>2 DEF ParserState, ItemStatus
  <2>4. parser' = [parser EXCEPT ![p] = new]
    BY <2>1, <1>2 DEF ParserState
  <2> HIDE DEF new
  <2> QED
    BY <1>1, <2>3, <2>4, ThinkingStep
<1> QED
  BY <1>4, <1>5

LEMMA FinishParseStep ==
  ASSUME StoreInv, NEW p \in Parsers, FinishParse(p)
  PROVE  StoreStepOK
<1> DEFINE row == [parser |-> p, items |-> parser[p].items]
<1>1. /\ parser[p].pc = "next"
      /\ reports' = Append(reports, row)
      /\ fresh' \in {Len(reports) + 1, fresh}
      /\ parser' = [parser EXCEPT ![p] = IdleParser]
      /\ UNCHANGED <<route, original, disk, torn>>
  BY DEF FinishParse
<1>2. parser \in [Parsers -> ParserState] /\ reports \in Seq(Report)
  BY DEF StoreInv, StoreTypeOK
<1>3. row \in Report
  BY <1>2 DEF Report, ParserState
<1> HIDE DEF row
<1>4. /\ reports' \in Seq(Report) /\ Len(reports') = Len(reports) + 1
      /\ Len(reports) \in Nat
      /\ \A r \in 1..Len(reports) : reports'[r] = reports[r]
  BY <1>1, <1>2, <1>3
<1>5. Active' = Active \ {p} /\ p \in Active
  BY <1>1, <1>2, IdleParserType DEF Active
<1>6. Cardinality(Active) \in Nat /\ Cardinality(Active') = Cardinality(Active) - 1
  <2>1. IsFiniteSet(Active) /\ Cardinality(Active) \in Nat
    BY ActiveFinite DEF Active
  <2> QED
    BY <1>5, <2>1, FS_RemoveElement
<1>7. RoomForReports'
  BY <1>4, <1>6, MaxReportsAssumption DEF StoreInv, RoomForReports
<1>8. Len(reports') <= MaxReports
  <2>1. Cardinality(Active') \in Nat
    BY ActiveFinite DEF Active
  <2> QED
    BY <1>4, <1>7, <2>1, MaxReportsAssumption DEF RoomForReports
<1>9. parser' \in [Parsers -> ParserState]
  BY <1>1, <1>2, IdleParserType
<1>10. fresh' \in 0..Len(reports')
  BY <1>1, <1>4 DEF StoreInv, StoreTypeOK
<1>11. StoreTypeOK'
  BY <1>1, <1>4, <1>8, <1>9, <1>10 DEF StoreInv, StoreTypeOK
<1>12. ParserHasContent'
  BY <1>1, <1>2, IdleParserType DEF StoreInv, ParserHasContent
<1>13. ReportsStay
  BY <1>4 DEF ReportsStay
<1> QED
  BY <1>7, <1>11, <1>12, <1>13 DEF StoreInv, StoreStepOK

LEMMA ParserWorkStep ==
  ASSUME StoreInv, NEW p \in Parsers, ParserWork(p)
  PROVE  StoreStepOK
<1>1. \A S \in Targets : S \subseteq Contents
  BY DEF Targets
<1>2. ASSUME NEW S \in Targets, NEW force \in BOOLEAN, StartParse(p, S, force)
      PROVE  StoreStepOK
  BY <1>1, <1>2, StartParseStep
<1>3. ASSUME NEW s \in Contents, NEW limited \in BOOLEAN,
             PlanContent(p, s, limited)
      PROVE  StoreStepOK
  BY <1>3, PlanContentStep
<1> QED
  BY <1>2, <1>3, WritesStep, ConvertStep, FinishParseStep DEF ParserWork

\* A command that is interrupted leaves a file whole, cut short or untouched.
LEMMA InterruptStep ==
  ASSUME StoreInv, NEW p \in Parsers, NEW next \in ParserState,
         parser[p].pc # "idle", next.pc \in {"idle", "next"}, Interrupt(p, next)
  PROVE  StoreStepOK
<1> DEFINE s == parser[p].cur
<1>1. parser \in [Parsers -> ParserState]
  BY DEF StoreInv, StoreTypeOK
<1>2. Moves(p, next) /\ UNCHANGED <<route, original, reports>>
  BY DEF Interrupt, Moves
<1>3. /\ parser' \in [Parsers -> ParserState]
      /\ parser'[p] = next
      /\ \A q \in Parsers \ {p} :
           parser'[q].pc = parser[q].pc /\ parser'[q].cur = parser[q].cur
  BY <1>1, <1>2, MovesType
<1>4. /\ disk' \in [Contents -> ParsedDir] /\ torn' \subseteq Contents
      /\ fresh' \in 0..Len(reports)
  <2>1. CASE Writing(p)
    <3>1. s \in Contents /\ disk[s] \in ParsedDir
      BY <2>1 DEF Writing, StoreInv, StoreTypeOK, ParserHasContent
    <3>2. Interrupted(p) \subseteq ParsedDir
      <4>1. [NoManifest EXCEPT !.status = Torn] \in Manifest
        BY DEF NoManifest, Manifest
      <4>2. /\ [disk[s] EXCEPT !.text = Torn] \in ParsedDir
            /\ [disk[s] EXCEPT !.meta = Torn] \in ParsedDir
            /\ [disk[s] EXCEPT !.manifest = [NoManifest EXCEPT !.status = Torn]]
                 \in ParsedDir
        BY <3>1, <4>1 DEF ParsedDir
      <4> QED
        BY <2>1, <3>1, <4>2 DEF Interrupted
    <3>3. PICK d \in Interrupted(p) : disk' = [disk EXCEPT ![s] = d]
      BY <2>1 DEF Interrupt
    <3>4. torn' = torn \cup {s} /\ fresh' = 0
      BY <2>1 DEF Interrupt
    <3> QED
      BY <3>1, <3>2, <3>3, <3>4 DEF StoreInv, StoreTypeOK
  <2>2. CASE ~Writing(p)
    BY <2>2 DEF Interrupt, StoreInv, StoreTypeOK
  <2> QED
    BY <2>1, <2>2
<1> QED
  BY <1>2, <1>3, <1>4, CommandStep

LEMMA ParserFaultStep ==
  ASSUME StoreInv, NEW p \in Parsers, ParserFault(p)
  PROVE  StoreStepOK
<1>1. CASE KillParser(p)
  BY <1>1, InterruptStep, IdleParserType DEF KillParser
<1>2. CASE ParserRaises(p)
  <2> DEFINE new == [parser[p] EXCEPT !.pc = "next", !.cur = None,
                       !.verdict = None, !.out = None, !.clean = FALSE,
                       !.items[parser[p].cur] = "FAILED"]
  <2>1. parser[p].pc \notin {"idle", "next"}
    BY <1>2 DEF ParserRaises
  <2>2. parser[p] \in ParserState /\ parser[p].cur \in Contents
    BY <2>1 DEF StoreInv, StoreTypeOK, ParserHasContent
  <2>3. [parser[p].items EXCEPT ![parser[p].cur] = "FAILED"]
          \in [Contents -> ItemStatus]
    BY <2>2 DEF ParserState, ItemStatus, Verdicts
  <2>4. new \in ParserState /\ new.pc = "next"
    BY <2>2, <2>3 DEF ParserState
  <2>5. Interrupt(p, IF p = "markitdown" THEN new ELSE IdleParser)
    BY <1>2 DEF ParserRaises
  <2> HIDE DEF new
  <2> QED
    BY <2>1, <2>4, <2>5, InterruptStep, IdleParserType
<1> QED
  BY <1>1, <1>2 DEF ParserFault

LEMMA RerouteStep ==
  ASSUME StoreInv, NEW s \in Contents, NEW r \in Parsers \cup {None},
         Reroute(s, r)
  PROVE  StoreStepOK
<1>1. route' = [route EXCEPT ![s] = r]
      /\ UNCHANGED <<original, disk, parser, reports, torn, fresh>>
  BY DEF Reroute
<1>2. Active' = Active
  BY <1>1 DEF Active
<1>3. Len(reports) \in Nat
  BY DEF StoreInv, StoreTypeOK
<1> QED
  BY <1>1, <1>2, <1>3
     DEF StoreInv, StoreTypeOK, ParserHasContent, RoomForReports, StoreStepOK,
         ReportsStay

LEMMA StoreStutters ==
  ASSUME StoreInv, UNCHANGED storeVars
  PROVE  StoreStepOK
<1>1. UNCHANGED <<route, original, disk, parser, reports, torn, fresh>>
  BY DEF storeVars
<1>2. Active' = Active
  BY <1>1 DEF Active
<1>3. Len(reports) \in Nat
  BY DEF StoreInv, StoreTypeOK
<1> QED
  BY <1>1, <1>2, <1>3
     DEF StoreInv, StoreTypeOK, ParserHasContent, RoomForReports, StoreStepOK,
         ReportsStay

LEMMA StoreInitially == StoreInit => StoreInv
<1> SUFFICES ASSUME StoreInit PROVE StoreInv
  OBVIOUS
<1>1. reports = <<>> /\ Len(reports) = 0 /\ fresh = 0 /\ torn = {}
  BY DEF StoreInit
<1>2. parser = [p \in Parsers |-> IdleParser]
  BY DEF StoreInit
<1>3. disk \in [Contents -> ParsedDir]
  BY NoDirType DEF StoreInit
<1>4. StoreTypeOK
  BY <1>1, <1>2, <1>3, IdleParserType, MaxReportsAssumption
     DEF StoreInit, StoreTypeOK
<1>5. ParserHasContent
  BY <1>2, IdleParserType DEF ParserHasContent
<1>6. Active = {}
  BY <1>2, IdleParserType DEF Active
<1>7. RoomForReports
  BY <1>1, <1>6, FS_EmptySet, MaxReportsAssumption DEF RoomForReports
<1> QED
  BY <1>4, <1>5, <1>7 DEF StoreInv
-----------------------------------------------------------------------------

(***************************************************************************)
(* The inductive invariant of the registry.  CompletedRunIsComplete is not *)
(* inductive: FinishRun looks at the errors and at the report, not at the  *)
(* results, so one has to know that every item that is no longer to do has *)
(* a result, unless an error was noted.                                    *)
(***************************************************************************)
ReportsOfRuns == \A k \in 1..Len(runs) : runs[k].report <= Len(reports)

RegistrarHasRun ==
  /\ registrar.pc # "idle" => registrar.run \in 1..Len(runs)
  /\ registrar.pc = "finish" => registrar.todo = {}

ItemsDone ==
  LET k == registrar.run IN
  registrar.pc # "idle" /\ ~registrar.errors /\ runs[k].report # 0 =>
    \A s \in Contents :
      ItemsOf(k)[s] # None /\ s \notin registrar.todo =>
        results[k][s].status # None

RegistryInv ==
  /\ RegistryTypeOK
  /\ ReportsOfRuns
  /\ RegistrarHasRun
  /\ ItemsDone
  /\ ParsedHasDocument
  /\ CompletedRunIsComplete

CountersInv == faults \in 0..MaxFaults /\ reroutes \in 0..MaxReroutes

PipelineInv == StoreInv /\ RegistryInv /\ CountersInv

-----------------------------------------------------------------------------
LEMMA IdleRegistrarType == IdleRegistrar \in Registrar
BY MaxRunsAssumption DEF IdleRegistrar, Registrar

LEMMA RunsCounted ==
  ASSUME RegistryTypeOK
  PROVE  Len(runs) \in Nat /\ Len(results) = Len(runs)
BY DEF RegistryTypeOK

LEMMA RowsOfRuns ==
  ASSUME RegistryTypeOK, NEW k \in 1..Len(runs)
  PROVE  /\ runs[k] \in Run
         /\ runs[k].report \in 0..MaxReports /\ runs[k].report \in Nat
         /\ results[k] \in [Contents -> Result]
<1>1. runs[k] \in Run
  BY DEF RegistryTypeOK
<1>2. runs[k].report \in 0..MaxReports
  BY <1>1 DEF Run
<1>3. runs[k].report \in Nat
  BY <1>2, MaxReportsAssumption
<1>4. k \in 1..Len(results) /\ results \in Seq([Contents -> Result])
  BY DEF RegistryTypeOK
<1>5. results[k] \in [Contents -> Result]
  BY <1>4, LenProperties
<1> QED
  BY <1>1, <1>2, <1>3, <1>5

\* A report keeps its items, so a run keeps its items.
LEMMA ItemsStay ==
  ASSUME RegistryInv, ReportsStay, runs' = runs
  PROVE  \A k \in 1..Len(runs) :
           runs[k].report # 0 => ItemsOf(k)' = ItemsOf(k)
<1> SUFFICES ASSUME NEW k \in 1..Len(runs), runs[k].report # 0
             PROVE  ItemsOf(k)' = ItemsOf(k)
  OBVIOUS
<1>1. runs[k] \in Run /\ runs[k].report <= Len(reports)
  BY DEF RegistryInv, RegistryTypeOK, ReportsOfRuns
<1>2. runs[k].report \in 1..MaxReports
  BY <1>1, MaxReportsAssumption DEF Run
<1>3. runs[k].report \in 1..Len(reports)
  BY <1>1, <1>2, MaxReportsAssumption
<1>4. reports'[runs[k].report] = reports[runs[k].report]
  BY <1>3 DEF ReportsStay
<1> QED
  BY <1>4 DEF ItemsOf

\* A step that leaves the four tables alone, and the registrar where it is.
LEMMA TablesRest ==
  ASSUME RegistryInv, ReportsStay,
         UNCHANGED <<runs, results, parseStatus, document>>,
         registrar' \in Registrar,
         registrar'.pc = registrar.pc, registrar'.run = registrar.run,
         registrar'.todo = registrar.todo, registrar'.errors = registrar.errors,
         settled' \in {settled, 0},
         Len(reports) \in Nat, Len(reports') \in Nat
  PROVE  RegistryInv'
<1>1. \A k \in 1..Len(runs) : runs[k].report # 0 => ItemsOf(k)' = ItemsOf(k)
  BY ItemsStay
<1>2. RegistryTypeOK'
  BY RunsCounted DEF RegistryInv, RegistryTypeOK
<1>3. ReportsOfRuns'
  <2>1. \A k \in 1..Len(runs) : runs[k].report \in Nat
    BY RowsOfRuns DEF RegistryInv
  <2> QED
    BY <2>1 DEF RegistryInv, ReportsOfRuns, ReportsStay
<1>4. RegistrarHasRun'
  BY DEF RegistryInv, RegistrarHasRun
<1>5. ItemsDone'
  BY <1>1 DEF RegistryInv, RegistrarHasRun, ItemsDone
<1>6. ParsedHasDocument'
  BY DEF RegistryInv, ParsedHasDocument
<1>7. CompletedRunIsComplete'
  BY <1>1 DEF RegistryInv, CompletedRunIsComplete
<1> QED
  BY <1>2, <1>3, <1>4, <1>5, <1>6, <1>7 DEF RegistryInv

\* What a registration that starts, or starts again, is given (_get_or_create_
\* run_for_report, _get_or_create_reconcile_run).
LEMMA StartRunStep ==
  ASSUME RegistryInv, Len(reports) \in Nat,
         NEW k \in 1..(Len(runs) + 1), k <= MaxRuns,
         NEW row \in Run, row.status = "PENDING", row.report <= Len(reports),
         NEW todo, todo \subseteq Contents, NEW repeat \in BOOLEAN,
         k <= Len(runs) => runs[k].report = row.report,
         row.report # 0 =>
           todo = {s \in Contents : reports[row.report].items[s] # None},
         StartRun(k, row, todo, repeat)
  PROVE  RegistryInv'
<1> DEFINE empty == [s \in Contents |-> NoResult]
<1>1. /\ runs \in Seq(Run) /\ Len(runs) \in Nat
      /\ results \in Seq([Contents -> Result]) /\ Len(results) = Len(runs)
      /\ Len(runs) <= MaxRuns
  BY DEF RegistryInv, RegistryTypeOK
<1>2. empty \in [Contents -> Result]
  <2>1. NoResult \in Result
    BY DEF NoResult, Result, ItemStatus
  <2> QED
    BY <2>1
<1> HIDE DEF empty
<1>3. /\ runs' = IF k > Len(runs) THEN Append(runs, row) ELSE runs
      /\ results' = IF k > Len(runs) THEN Append(results, empty) ELSE results
      /\ registrar' = [IdleRegistrar EXCEPT !.pc = "pending", !.run = k,
                         !.todo = todo, !.still = TRUE, !.repeat = repeat]
      /\ settled' = 0
      /\ parseStatus' = parseStatus /\ document' = document
      /\ reports' = reports
  BY DEF StartRun, empty, storeVars
<1>4. k \in Nat /\ (k > Len(runs) => k = Len(runs) + 1)
  BY <1>1
<1>5. /\ runs' \in Seq(Run) /\ results' \in Seq([Contents -> Result])
      /\ Len(results') = Len(runs')
      /\ Len(runs) <= Len(runs') /\ Len(runs') <= MaxRuns
      /\ Len(runs') \in Nat /\ k \in 1..Len(runs')
      /\ \A j \in 1..Len(runs) : runs'[j] = runs[j] /\ results'[j] = results[j]
      /\ \A j \in 1..Len(runs') : j \notin 1..Len(runs) => j = k /\ runs'[j] = row
      /\ runs'[k].report = row.report
  <2>1. CASE k > Len(runs)
    <3>1. k = Len(runs) + 1 /\ runs' = Append(runs, row) /\ results' = Append(results, empty)
      BY <1>3, <1>4, <2>1
    <3>2. /\ runs' \in Seq(Run) /\ Len(runs') = Len(runs) + 1
          /\ \A j \in 1..Len(runs) : runs'[j] = runs[j]
          /\ runs'[Len(runs) + 1] = row
      BY <1>1, <3>1, AppendProperties
    <3>3. /\ results' \in Seq([Contents -> Result])
          /\ Len(results') = Len(results) + 1
          /\ \A j \in 1..Len(results) : results'[j] = results[j]
      BY <1>1, <1>2, <3>1, AppendProperties
    <3> QED
      BY <1>1, <3>1, <3>2, <3>3, MaxRunsAssumption
  <2>2. CASE ~(k > Len(runs))
    <3>1. runs' = runs /\ results' = results
      BY <1>3, <2>2
    <3>2. k <= Len(runs) /\ runs[k].report = row.report
      BY <1>1, <1>4, <2>2
    <3> QED
      BY <1>1, <1>4, <3>1, <3>2
  <2> QED
    BY <2>1, <2>2
<1>6. /\ registrar' \in Registrar
      /\ registrar'.pc = "pending" /\ registrar'.run = k
      /\ registrar'.todo = todo
  <2>1. k \in 0..MaxRuns
    BY <1>4, MaxRunsAssumption
  <2>2. IdleRegistrar \in Registrar
    BY IdleRegistrarType
  <2> QED
    BY <1>3, <2>1, <2>2 DEF Registrar
<1>7. RegistryTypeOK'
  BY <1>3, <1>5, <1>6 DEF RegistryInv, RegistryTypeOK
<1>8. ReportsOfRuns'
  BY <1>1, <1>3, <1>5 DEF RegistryInv, ReportsOfRuns
<1>9. RegistrarHasRun'
  BY <1>5, <1>6 DEF RegistrarHasRun
<1>10. ItemsDone'
  BY <1>3, <1>5, <1>6 DEF ItemsDone, ItemsOf
<1>11. ParsedHasDocument'
  BY <1>3 DEF RegistryInv, ParsedHasDocument
<1>12. CompletedRunIsComplete'
  BY <1>1, <1>3, <1>5 DEF RegistryInv, CompletedRunIsComplete, ItemsOf
<1> QED
  BY <1>7, <1>8, <1>9, <1>10, <1>11, <1>12 DEF RegistryInv

LEMMA RegistryStartStep ==
  ASSUME StoreInv, RegistryInv, RegistryStart
  PROVE  RegistryInv'
<1>1. /\ Len(reports) \in Nat /\ Len(reports) <= MaxReports
      /\ Len(runs) \in Nat /\ Len(runs) <= MaxRuns
      /\ settled \in Nat
  BY DEF StoreInv, StoreTypeOK, RegistryInv, RegistryTypeOK
<1>2. ASSUME NEW r \in 1..Len(reports), StartRegister(r)
      PROVE  RegistryInv'
  <2> DEFINE k == IF RunsOf(r) # {} THEN CHOOSE k \in RunsOf(r) : TRUE
                  ELSE Len(runs) + 1
             row == [report |-> r, status |-> "PENDING"]
             todo == {s \in Contents : reports[r].items[s] # None}
  <2>1. k <= MaxRuns /\ StartRun(k, row, todo, settled \in RunsOf(r))
    BY <1>2 DEF StartRegister
  <2>2. k \in 1..(Len(runs) + 1) /\ (k <= Len(runs) => runs[k].report = r)
    <3>1. CASE RunsOf(r) # {}
      <4>1. k \in RunsOf(r)
        BY <3>1
      <4> QED
        BY <1>1, <4>1 DEF RunsOf
    <3>2. CASE RunsOf(r) = {}
      BY <1>1, <3>2
    <3> QED
      BY <3>1, <3>2
  <2>3. row \in Run /\ row.report <= Len(reports)
    BY <1>1, MaxReportsAssumption DEF Run
  <2>4. PICK k1 \in 1..(Len(runs) + 1) : k1 = k
    BY <2>2
  <2>5. PICK repeat \in BOOLEAN : repeat = (settled \in RunsOf(r))
    <3> DEFINE again == settled \in RunsOf(r)
    <3>1. again \in BOOLEAN
      OBVIOUS
    <3> HIDE DEF again
    <3>2. \E repeat \in BOOLEAN : repeat = again
      BY <3>1
    <3> QED
      BY <3>2 DEF again
  <2>6. PICK todo1 \in SUBSET Contents : todo1 = todo
    OBVIOUS
  <2> HIDE DEF k
  <2>7. StartRun(k1, row, todo1, repeat)
    BY <2>1, <2>4, <2>5, <2>6 DEF StartRun
  <2> QED
    BY <1>1, <2>1, <2>2, <2>3, <2>4, <2>6, <2>7, StartRunStep
<1>3. ASSUME NEW S \in Targets, StartReconcile(S)
      PROVE  RegistryInv'
  <2> DEFINE row == [report |-> 0, status |-> "PENDING"]
             todo == {s \in S : disk[s].manifest.status # None}
  <2>1. Len(runs) < MaxRuns /\ StartRun(Len(runs) + 1, row, todo, FALSE)
    BY <1>3 DEF StartReconcile
  <2>2. row \in Run /\ row.report <= Len(reports)
    BY <1>1, MaxReportsAssumption DEF Run
  <2>3. PICK k1 \in 1..(Len(runs) + 1) : k1 = Len(runs) + 1
    BY <1>1
  <2>4. PICK todo1 \in SUBSET Contents : todo1 = todo
    BY DEF Targets
  <2>5. StartRun(k1, row, todo1, FALSE)
    BY <2>1, <2>3, <2>4 DEF StartRun
  <2>6. k1 <= MaxRuns /\ ~(k1 <= Len(runs))
    BY <1>1, <2>1, <2>3, MaxRunsAssumption
  <2> QED
    BY <1>1, <2>2, <2>5, <2>6, StartRunStep
<1> QED
  BY <1>2, <1>3 DEF RegistryStart

\* A change of the status of one run.
LEMMA RunUpdate ==
  ASSUME RegistryTypeOK, NEW k \in 1..Len(runs),
         NEW st \in {"PENDING", "RUNNING", "COMPLETED", "PARTIAL", "FAILED"},
         runs' = [runs EXCEPT ![k].status = st]
  PROVE  /\ runs' \in Seq(Run) /\ Len(runs') = Len(runs)
         /\ \A j \in 1..Len(runs) :
              /\ runs'[j].report = runs[j].report
              /\ runs'[j].status = IF j = k THEN st ELSE runs[j].status
<1>1. runs \in Seq(Run) /\ runs[k] \in Run
  BY RowsOfRuns DEF RegistryTypeOK
<1> DEFINE row == [runs[k] EXCEPT !.status = st]
<1>2. row \in Run /\ row.report = runs[k].report /\ row.status = st
  BY <1>1 DEF Run
<1>3. runs' = [runs EXCEPT ![k] = row]
  OBVIOUS
<1> HIDE DEF row
<1>4. /\ runs' \in Seq(Run) /\ Len(runs') = Len(runs)
      /\ \A j \in 1..Len(runs) : runs'[j] = IF j = k THEN row ELSE runs[j]
  BY <1>1, <1>2, <1>3, ExceptSeq
<1> QED
  BY <1>2, <1>4

LEMMA BeginRunStep ==
  ASSUME RegistryInv, BeginRun
  PROVE  RegistryInv'
<1>1. /\ registrar.pc = "pending"
      /\ runs' = [runs EXCEPT ![registrar.run].status = "RUNNING"]
      /\ registrar' = [registrar EXCEPT !.pc = "items"]
      /\ UNCHANGED <<reports, results, parseStatus, document, settled>>
  BY DEF BeginRun, storeVars
<1>2. PICK k \in 1..Len(runs) : k = registrar.run
  BY <1>1 DEF RegistryInv, RegistrarHasRun
<1>3. /\ runs' \in Seq(Run) /\ Len(runs') = Len(runs)
      /\ \A j \in 1..Len(runs) :
           /\ runs'[j].report = runs[j].report
           /\ runs'[j].status = IF j = k THEN "RUNNING" ELSE runs[j].status
  BY <1>1, <1>2, RunUpdate DEF RegistryInv
<1>4. /\ registrar' \in Registrar /\ registrar'.pc = "items"
      /\ registrar'.run = registrar.run /\ registrar'.todo = registrar.todo
      /\ registrar'.errors = registrar.errors
  BY <1>1 DEF RegistryInv, RegistryTypeOK, Registrar
<1>5. RegistryTypeOK'
  BY <1>1, <1>3, <1>4 DEF RegistryInv, RegistryTypeOK
<1>6. ReportsOfRuns'
  BY <1>1, <1>3 DEF RegistryInv, ReportsOfRuns
<1>7. RegistrarHasRun'
  BY <1>2, <1>3, <1>4 DEF RegistrarHasRun
<1>8. ItemsDone'
  BY <1>1, <1>2, <1>3, <1>4 DEF RegistryInv, ItemsDone, ItemsOf
<1>9. ParsedHasDocument'
  BY <1>1 DEF RegistryInv, ParsedHasDocument
<1>10. CompletedRunIsComplete'
  BY <1>1, <1>3 DEF RegistryInv, CompletedRunIsComplete, ItemsOf
<1> QED
  BY <1>5, <1>6, <1>7, <1>8, <1>9, <1>10 DEF RegistryInv

\* A step between two items that writes no table.
LEMMA RegistrarMoves ==
  ASSUME RegistryInv, registrar' \in Registrar, ItemsDone', RegistrarHasRun',
         registrar'.run <= Len(runs),
         UNCHANGED <<reports, runs, results, parseStatus, document, settled>>
  PROVE  RegistryInv'
<1>1. RegistryTypeOK'
  BY DEF RegistryInv, RegistryTypeOK
<1>2. ReportsOfRuns' /\ ParsedHasDocument'
  BY DEF RegistryInv, ReportsOfRuns, ParsedHasDocument
<1>3. CompletedRunIsComplete'
  BY DEF RegistryInv, CompletedRunIsComplete, ItemsOf
<1> QED
  BY <1>1, <1>2, <1>3 DEF RegistryInv

LEMMA IngestFailsStep ==
  ASSUME RegistryInv, NEW s \in Contents, IngestFails(s)
  PROVE  RegistryInv'
<1>1. /\ registrar.pc = "items"
      /\ registrar' = [registrar EXCEPT !.todo = @ \ {s}, !.errors = TRUE]
      /\ UNCHANGED <<reports, runs, results, parseStatus, document, settled>>
  BY DEF IngestFails, storeVars
<1>2. registrar \in Registrar /\ registrar.run \in 1..Len(runs)
  BY <1>1 DEF RegistryInv, RegistryTypeOK, RegistrarHasRun
<1>3. /\ registrar' \in Registrar /\ registrar'.pc = "items"
      /\ registrar'.run = registrar.run /\ registrar'.errors
  BY <1>1, <1>2 DEF Registrar
<1>4. ItemsDone' /\ RegistrarHasRun' /\ registrar'.run <= Len(runs)
  BY <1>1, <1>2, <1>3, RunsCounted DEF ItemsDone, RegistrarHasRun, RegistryInv
<1> QED
  BY <1>1, <1>3, <1>4, RegistrarMoves

LEMMA EndItemsStep ==
  ASSUME RegistryInv, NEW failed \in BOOLEAN, EndItems(failed)
  PROVE  RegistryInv'
<1>1. /\ registrar.pc = "items" /\ registrar.todo = {}
      /\ registrar' = [registrar EXCEPT !.pc = "finish", !.errors = @ \/ failed]
      /\ UNCHANGED <<reports, runs, results, parseStatus, document, settled>>
  BY DEF EndItems, storeVars
<1>2. registrar \in Registrar /\ registrar.run \in 1..Len(runs)
  BY <1>1 DEF RegistryInv, RegistryTypeOK, RegistrarHasRun
<1> DEFINE e == registrar.errors \/ failed
<1>3. e \in BOOLEAN /\ (~e => ~registrar.errors)
  OBVIOUS
<1>4. registrar' = [registrar EXCEPT !.pc = "finish", !.errors = e]
  BY <1>1
<1> HIDE DEF e
<1>5. /\ registrar' \in Registrar /\ registrar'.pc = "finish"
      /\ registrar'.run = registrar.run /\ registrar'.todo = {}
      /\ ~registrar'.errors => ~registrar.errors
  BY <1>1, <1>2, <1>3, <1>4 DEF Registrar
<1>6. ItemsDone'
  BY <1>1, <1>2, <1>5 DEF RegistryInv, ItemsDone, ItemsOf
<1>7. RegistrarHasRun' /\ registrar'.run <= Len(runs)
  BY <1>1, <1>2, <1>5, RunsCounted DEF RegistrarHasRun, RegistryInv
<1> QED
  BY <1>1, <1>5, <1>6, <1>7, RegistrarMoves

\* The command is over, whatever the reason; run stays known.
LEMMA RegistryStops ==
  ASSUME RegistryInv, RunRaises \/ KillRegistrar
  PROVE  RegistryInv'
<1>1. UNCHANGED <<reports, runs, results, parseStatus, document, settled>>
  BY DEF RunRaises, KillRegistrar, storeVars
<1>2. registrar \in Registrar /\ registrar.run <= Len(runs) /\ Len(runs) \in Nat
  BY RunsCounted DEF RegistryInv, RegistryTypeOK
<1>3. /\ registrar' \in Registrar /\ registrar'.pc = "idle"
      /\ registrar'.run \in {0, registrar.run}
  <2>1. CASE KillRegistrar
    BY <2>1, IdleRegistrarType DEF KillRegistrar, IdleRegistrar
  <2>2. CASE RunRaises
    <3>1. registrar' = [IdleRegistrar EXCEPT !.run = registrar.run, !.raised = TRUE]
      BY <2>2 DEF RunRaises
    <3>2. IdleRegistrar.pc = "idle"
      BY DEF IdleRegistrar
    <3> QED
      BY <1>2, <3>1, <3>2, IdleRegistrarType DEF Registrar
  <2> QED
    BY <2>1, <2>2
<1>4. registrar'.run <= Len(runs)
  BY <1>2, <1>3
<1>5. ItemsDone' /\ RegistrarHasRun'
  BY <1>3 DEF ItemsDone, RegistrarHasRun
<1> QED
  BY <1>1, <1>3, <1>4, <1>5, RegistrarMoves

\* The end of a run: COMPLETED only without errors and without a failed item,
\* and then every item has its result (complete_parse_run).
LEMMA FinishRunStep ==
  ASSUME RegistryInv, FinishRun
  PROVE  RegistryInv'
<1>1. registrar.pc = "finish" /\ registrar.todo = {} /\ registrar \in Registrar
  BY DEF FinishRun, RegistryInv, RegistryTypeOK, RegistrarHasRun
<1>2. PICK k \in 1..Len(runs) : k = registrar.run
  BY <1>1 DEF RegistryInv, RegistrarHasRun
<1>3. PICK st \in {"PENDING", "RUNNING", "COMPLETED", "PARTIAL", "FAILED"} :
        st = FinalStatus(k)
  BY DEF FinalStatus
<1>4. /\ runs' = [runs EXCEPT ![k].status = st]
      /\ registrar' = IdleRegistrar /\ settled' \in {0, k}
      /\ UNCHANGED <<reports, results, parseStatus, document>>
  BY <1>2, <1>3 DEF FinishRun, storeVars
<1>5. /\ runs' \in Seq(Run) /\ Len(runs') = Len(runs)
      /\ \A j \in 1..Len(runs) :
           /\ runs'[j].report = runs[j].report
           /\ runs'[j].status = IF j = k THEN st ELSE runs[j].status
  BY <1>4, RunUpdate DEF RegistryInv
<1>6. Len(runs) \in Nat
  BY RunsCounted DEF RegistryInv
<1>7. IdleRegistrar.pc = "idle" /\ IdleRegistrar.run = 0
  BY DEF IdleRegistrar
<1>8. RegistryTypeOK'
  BY <1>4, <1>5, <1>6, <1>7, IdleRegistrarType DEF RegistryInv, RegistryTypeOK
<1>9. ReportsOfRuns'
  BY <1>4, <1>5 DEF RegistryInv, ReportsOfRuns
<1>10. RegistrarHasRun' /\ ItemsDone'
  BY <1>4, <1>7 DEF RegistrarHasRun, ItemsDone
<1>11. ParsedHasDocument'
  BY <1>4 DEF RegistryInv, ParsedHasDocument
<1>12. st = "COMPLETED" /\ runs[k].report # 0 =>
         \A s \in Contents :
           /\ ItemsOf(k)[s] # "FAILED"
           /\ ItemsOf(k)[s] # None => results[k][s].status # None
  BY <1>1, <1>2, <1>3 DEF FinalStatus, RegistryInv, ItemsDone
<1>13. CompletedRunIsComplete'
  BY <1>4, <1>5, <1>12 DEF RegistryInv, CompletedRunIsComplete, ItemsOf
<1> QED
  BY <1>8, <1>9, <1>10, <1>11, <1>13 DEF RegistryInv

\* One item of a report or one manifest (_persist_content_result).
LEMMA IngestItemStep ==
  ASSUME StoreInv, RegistryInv, NEW s \in Contents, IngestItem(s)
  PROVE  RegistryInv'
<1> DEFINE m == disk[s].manifest
           readable == Readable(s)
           item == IF runs[registrar.run].report = 0 THEN m.status
                   ELSE ItemsOf(registrar.run)[s]
           status == ResultStatus(item, m, readable)
           indexed == Indexed(results[registrar.run][s].indexed, status, readable)
           flagged == m.hash # None /\ disk[s].text \notin {None, m.hash}
           missing == ~readable /\ status = "FAILED"
           row == [status |-> status, hash |-> m.hash, flagged |-> flagged,
                   missing |-> missing, indexed |-> indexed]
           doc == DocumentAfter(document[s], status, Label(registrar.run), m.hash)
           pst == ParseStatusAfter(parseStatus[s], status)
<1>1. /\ registrar.pc = "items"
      /\ registrar' = [registrar EXCEPT !.todo = @ \ {s}]
      /\ results' = [results EXCEPT ![registrar.run][s] = row]
      /\ parseStatus' = [parseStatus EXCEPT ![s] = pst]
      /\ document' = [document EXCEPT ![s] = doc]
      /\ UNCHANGED <<reports, runs, settled>>
  BY DEF IngestItem, storeVars
<1>2. PICK k \in 1..Len(runs) : k = registrar.run
  BY <1>1 DEF RegistryInv, RegistrarHasRun
<1>3. m \in Manifest
  BY DEF StoreInv, StoreTypeOK, ParsedDir
<1>4. /\ results[k] \in [Contents -> Result] /\ runs[k].report \in Nat
      /\ results \in Seq([Contents -> Result]) /\ Len(results) = Len(runs)
      /\ document \in [Contents -> Document]
      /\ parseStatus \in [Contents -> {None, "PARSED", "PARSED_EMPTY", "PARSE_FAILED"}]
  BY RowsOfRuns DEF RegistryInv, RegistryTypeOK
<1>5. status \in {"SUCCESS", "EMPTY", "FAILED", "SKIPPED"}
  BY DEF ResultStatus, Readable, Verdicts
<1>6. indexed \subseteq Artifacts
  <2>1. results[k][s] \in Result
    BY <1>4
  <2> QED
    BY <1>2, <2>1 DEF Indexed, Artifacts, Result
<1>7. Label(registrar.run) \in Parsers
  <2>1. CASE runs[k].report = 0
    BY <1>2, <2>1 DEF Label, Parsers
  <2>2. CASE runs[k].report # 0
    <3>1. runs[k].report <= Len(reports)
      BY DEF RegistryInv, ReportsOfRuns
    <3>2. runs[k].report \in 1..Len(reports)
      BY <1>4, <2>2, <3>1, ReportsCounted
    <3>3. reports[runs[k].report] \in Report
      BY <3>2 DEF StoreInv, StoreTypeOK
    <3> QED
      BY <1>2, <2>2, <3>3 DEF Label, Report
  <2> QED
    BY <2>1, <2>2
<1>8. row \in Result /\ row.status # None
  <2>1. flagged \in BOOLEAN /\ missing \in BOOLEAN
    OBVIOUS
  <2>2. status \in ItemStatus /\ status # None
    BY <1>5 DEF ItemStatus, Verdicts, None
  <2>3. m.hash \in Outputs \cup {Blank, None}
    BY <1>3 DEF Manifest
  <2> HIDE DEF flagged, missing, indexed, status, m
  <2> QED
    BY <1>6, <2>1, <2>2, <2>3 DEF Result
<1>9. /\ doc \in Document
      /\ pst \in {None, "PARSED", "PARSED_EMPTY", "PARSE_FAILED"}
      /\ pst = "PARSED" =>
           doc.status = "PARSED" \/ (doc = document[s] /\ parseStatus[s] = pst)
      /\ pst = "PARSED_EMPTY" =>
           doc.status = "PARSED_EMPTY" \/ (doc = document[s] /\ parseStatus[s] = pst)
  <2>1. m.hash \in Outputs \cup {Blank, None}
    BY <1>3 DEF Manifest
  <2>2. document[s] \in Document
        /\ parseStatus[s] \in {None, "PARSED", "PARSED_EMPTY", "PARSE_FAILED"}
    BY <1>4
  <2> DEFINE h == m.hash  label == Label(registrar.run)
  <2> HIDE DEF status, h, label
  <2>3. doc \in Document
    BY <1>5, <1>7, <2>1, <2>2 DEF DocumentAfter, Document, h, label
  <2>4. pst \in {None, "PARSED", "PARSED_EMPTY", "PARSE_FAILED"}
    BY <1>5, <2>2 DEF ParseStatusAfter
  <2>5. status = "SUCCESS" => pst = "PARSED" /\ doc.status = "PARSED"
    BY DEF ParseStatusAfter, DocumentAfter
  <2>6. status = "EMPTY" => pst = "PARSED_EMPTY" /\ doc.status = "PARSED_EMPTY"
    BY DEF ParseStatusAfter, DocumentAfter
  <2>7. status = "FAILED" => pst = "PARSE_FAILED"
    BY DEF ParseStatusAfter
  <2>8. status = "SKIPPED" => pst = parseStatus[s] /\ doc = document[s]
    BY DEF ParseStatusAfter, DocumentAfter
  <2> HIDE DEF doc, pst
  <2> QED
    BY <1>5, <2>3, <2>4, <2>5, <2>6, <2>7, <2>8
<1> HIDE DEF m, readable, item, status, indexed, flagged, missing, row, doc, pst
<1>10. /\ results' \in Seq([Contents -> Result]) /\ Len(results') = Len(results)
       /\ \A j \in 1..Len(runs) : \A t \in Contents :
            results'[j][t] = IF j = k /\ t = s THEN row ELSE results[j][t]
  <2> DEFINE new == [results[k] EXCEPT ![s] = row]
  <2>1. new \in [Contents -> Result]
    BY <1>4, <1>8
  <2>2. results' = [results EXCEPT ![k] = new]
    BY <1>1, <1>2
  <2>3. \A t \in Contents : new[t] = IF t = s THEN row ELSE results[k][t]
    BY <1>4
  <2> HIDE DEF new
  <2>4. /\ results' \in Seq([Contents -> Result])
        /\ Len(results') = Len(results)
        /\ \A j \in 1..Len(results) : results'[j] = IF j = k THEN new ELSE results[j]
    BY <1>4, <2>1, <2>2, ExceptSeq
  <2> QED
    BY <1>4, <2>3, <2>4
<1>11. /\ registrar' \in Registrar /\ registrar'.pc = "items"
       /\ registrar'.run = k /\ registrar'.todo = registrar.todo \ {s}
       /\ registrar'.errors = registrar.errors
  BY <1>1, <1>2 DEF RegistryInv, RegistryTypeOK, Registrar
<1>12. RegistryTypeOK'
  <2>1. /\ parseStatus' \in [Contents -> {None, "PARSED", "PARSED_EMPTY",
                                          "PARSE_FAILED"}]
        /\ document' \in [Contents -> Document]
    BY <1>1, <1>4, <1>9
  <2>2. registrar'.run <= Len(runs')
    BY <1>1, <1>2, <1>11 DEF RegistryInv, RegistryTypeOK
  <2> QED
    BY <1>1, <1>4, <1>10, <1>11, <2>1, <2>2 DEF RegistryInv, RegistryTypeOK
<1>13. ReportsOfRuns'
  BY <1>1 DEF RegistryInv, ReportsOfRuns
<1>14. RegistrarHasRun'
  BY <1>1, <1>11 DEF RegistrarHasRun
<1>15. ItemsDone'
  BY <1>1, <1>2, <1>8, <1>10, <1>11 DEF RegistryInv, ItemsDone, ItemsOf
<1>16. ParsedHasDocument'
  <2>1. \A t \in Contents :
          /\ parseStatus'[t] = IF t = s THEN pst ELSE parseStatus[t]
          /\ document'[t] = IF t = s THEN doc ELSE document[t]
    BY <1>1, <1>4
  <2> QED
    BY <1>9, <2>1 DEF RegistryInv, ParsedHasDocument
<1>17. CompletedRunIsComplete'
  BY <1>1, <1>8, <1>10 DEF RegistryInv, CompletedRunIsComplete, ItemsOf
<1> QED
  BY <1>12, <1>13, <1>14, <1>15, <1>16, <1>17 DEF RegistryInv

LEMMA RegistryWorkStep ==
  ASSUME StoreInv, RegistryInv, RegistryWork
  PROVE  RegistryInv' /\ StoreInv'
<1>1. RegistryInv'
  <2>1. ASSUME NEW s \in Contents, IngestItem(s) \/ RefuseManifest(s)
        PROVE  RegistryInv'
    BY <2>1, IngestItemStep, IngestFailsStep DEF RefuseManifest
  <2>2. CASE EndItems(FALSE)
    BY <2>2, EndItemsStep
  <2> QED
    BY <2>1, <2>2, BeginRunStep, FinishRunStep DEF RegistryWork
<1>2. UNCHANGED storeVars
  BY DEF RegistryWork, BeginRun, IngestItem, RefuseManifest, IngestFails,
         EndItems, FinishRun
<1>3. StoreInv'
  BY <1>2, StoreStutters DEF StoreStepOK
<1> QED
  BY <1>1, <1>3

LEMMA RegistryFaultStep ==
  ASSUME StoreInv, RegistryInv, RegistryFault
  PROVE  RegistryInv' /\ StoreInv'
<1>1. RegistryInv'
  <2>1. CASE EndItems(TRUE)
    BY <2>1, EndItemsStep
  <2> QED
    BY <2>1, IngestFailsStep, RegistryStops DEF RegistryFault
<1>2. UNCHANGED storeVars
  BY DEF RegistryFault, IngestFails, EndItems, RunRaises, KillRegistrar
<1>3. StoreInv'
  BY <1>2, StoreStutters DEF StoreStepOK
<1> QED
  BY <1>1, <1>3

\* What the parsers do, the registry only takes note of.
LEMMA ParserStepSeen ==
  ASSUME StoreInv, RegistryInv, StoreStepOK, SeeDisk
  PROVE  RegistryInv' /\ StoreInv'
<1> DEFINE still == registrar.still /\ disk' = disk
           repeat == registrar.repeat /\ disk' = disk
<1>1. registrar' = [registrar EXCEPT !.still = still, !.repeat = repeat]
  BY DEF SeeDisk
<1>2. still \in BOOLEAN /\ repeat \in BOOLEAN
  OBVIOUS
<1> HIDE DEF still, repeat
<1>3. /\ settled' \in {settled, 0}
      /\ UNCHANGED <<runs, results, parseStatus, document>>
  BY DEF SeeDisk
<1>4. /\ registrar' \in Registrar
      /\ registrar'.pc = registrar.pc /\ registrar'.run = registrar.run
      /\ registrar'.todo = registrar.todo
      /\ registrar'.errors = registrar.errors
  BY <1>1, <1>2 DEF RegistryInv, RegistryTypeOK, Registrar
<1>5. StoreInv' /\ ReportsStay
  BY DEF StoreStepOK
<1>6. Len(reports) \in Nat /\ Len(reports') \in Nat
  BY <1>5 DEF StoreInv, StoreTypeOK
<1>7. RegistryInv'
  BY <1>3, <1>4, <1>5, <1>6, TablesRest
<1> QED
  BY <1>5, <1>7

LEMMA RescanStep ==
  ASSUME StoreInv, RegistryInv, Rescan
  PROVE  RegistryInv' /\ StoreInv'
<1>1. StoreStepOK
  BY RerouteStep DEF Rescan
<1>2. UNCHANGED <<runs, results, parseStatus, document, registrar, settled>>
  BY DEF Rescan, registryVars
<1>3. StoreInv' /\ ReportsStay
  BY <1>1 DEF StoreStepOK
<1>4. Len(reports) \in Nat /\ Len(reports') \in Nat
  BY <1>3 DEF StoreInv, StoreTypeOK
<1>5. registrar' \in Registrar
  BY <1>2 DEF RegistryInv, RegistryTypeOK
<1>6. RegistryInv'
  BY <1>2, <1>3, <1>4, <1>5, TablesRest
<1> QED
  BY <1>3, <1>6

LEMMA PipelineStutters ==
  ASSUME PipelineInv, UNCHANGED pipelineVars
  PROVE  PipelineInv'
<1>1. UNCHANGED <<storeVars, runs, results, parseStatus, document, registrar,
                  settled, faults, reroutes, reports>>
  BY DEF pipelineVars, registryVars, storeVars
<1>2. StoreInv'
  BY <1>1, StoreStutters DEF PipelineInv, StoreStepOK
<1>3. RegistryTypeOK' /\ ReportsOfRuns' /\ RegistrarHasRun'
  BY <1>1 DEF PipelineInv, RegistryInv, RegistryTypeOK, ReportsOfRuns,
              RegistrarHasRun
<1>4. ItemsDone' /\ ParsedHasDocument' /\ CompletedRunIsComplete'
  BY <1>1 DEF PipelineInv, RegistryInv, ItemsDone, ItemsOf, ParsedHasDocument,
              CompletedRunIsComplete
<1>5. CountersInv'
  BY <1>1 DEF PipelineInv, CountersInv
<1> QED
  BY <1>2, <1>3, <1>4, <1>5 DEF PipelineInv, RegistryInv

LEMMA CountersStep ==
  ASSUME CountersInv, Next
  PROVE  CountersInv'
<1>1. CASE Fault
  BY <1>1, PipelineBounds DEF CountersInv, Fault
<1>2. CASE Rescan
  BY <1>2, PipelineBounds DEF CountersInv, Rescan
<1>3. CASE Parse \/ Register \/ Rest
  BY <1>3 DEF CountersInv, Parse, Register, Rest, pipelineVars
<1> QED
  BY <1>1, <1>2, <1>3 DEF Next

-----------------------------------------------------------------------------
LEMMA PipelineInitially == Init => PipelineInv
<1> SUFFICES ASSUME Init PROVE PipelineInv
  OBVIOUS
<1>1. StoreInv
  BY StoreInitially DEF Init
<1>2. /\ runs = <<>> /\ Len(runs) = 0 /\ results = <<>> /\ Len(results) = 0
      /\ parseStatus = [s \in Contents |-> None]
      /\ document = [s \in Contents |-> NoDocument]
      /\ registrar = IdleRegistrar /\ settled = 0
  BY DEF Init, RegistryInit
<1>3. NoDocument \in Document /\ NoDocument.status = None
  BY DEF NoDocument, Document
<1>4. registrar \in Registrar /\ registrar.pc = "idle" /\ registrar.run = 0
  BY <1>2, IdleRegistrarType DEF IdleRegistrar
<1>5. RegistryTypeOK
  <2>1. runs \in Seq(Run) /\ results \in Seq([Contents -> Result])
    BY <1>2
  <2>2. /\ parseStatus \in [Contents -> {None, "PARSED", "PARSED_EMPTY",
                                         "PARSE_FAILED"}]
        /\ document \in [Contents -> Document]
    BY <1>2, <1>3
  <2> QED
    BY <1>2, <1>4, <2>1, <2>2, MaxRunsAssumption DEF RegistryTypeOK
<1>6. ReportsOfRuns /\ CompletedRunIsComplete
  BY <1>2 DEF ReportsOfRuns, CompletedRunIsComplete
<1>7. RegistrarHasRun /\ ItemsDone
  BY <1>4 DEF RegistrarHasRun, ItemsDone
<1>8. ParsedHasDocument
  BY <1>2 DEF ParsedHasDocument, None
<1>9. CountersInv
  BY PipelineBounds DEF Init, CountersInv
<1> QED
  BY <1>1, <1>5, <1>6, <1>7, <1>8, <1>9 DEF PipelineInv, RegistryInv

LEMMA PipelineStep ==
  ASSUME PipelineInv, [Next]_pipelineVars
  PROVE  PipelineInv'
<1> USE DEF PipelineInv
<1>1. CASE Parse
  <2>1. PICK p \in Parsers : ParserWork(p)
    BY <1>1 DEF Parse
  <2>2. RegistryInv' /\ StoreInv'
    BY <1>1, <2>1, ParserWorkStep, ParserStepSeen DEF Parse
  <2> QED
    BY <1>1, <2>2, CountersStep DEF Next
<1>2. CASE Register
  <2>1. CASE RegistryStart
    <3>1. RegistryInv'
      BY <2>1, RegistryStartStep
    <3>2. UNCHANGED storeVars
      BY <2>1 DEF RegistryStart, StartRegister, StartReconcile, StartRun
    <3>3. StoreInv'
      BY <3>2, StoreStutters DEF StoreStepOK
    <3> QED
      BY <1>2, <3>1, <3>3, CountersStep DEF Next
  <2>2. CASE RegistryWork
    BY <1>2, <2>2, RegistryWorkStep, CountersStep DEF Next
  <2> QED
    BY <1>2, <2>1, <2>2 DEF Register
<1>3. CASE Rescan
  BY <1>3, RescanStep, CountersStep DEF Next
<1>4. CASE Fault
  <2>1. ASSUME NEW p \in Parsers, ParserFault(p), SeeDisk
        PROVE  RegistryInv' /\ StoreInv'
    BY <2>1, ParserFaultStep, ParserStepSeen
  <2>2. CASE RegistryFault
    BY <1>4, <2>2, RegistryFaultStep, CountersStep DEF Next
  <2> QED
    BY <1>4, <2>1, <2>2, CountersStep DEF Fault, Next
<1>5. CASE Rest \/ UNCHANGED pipelineVars
  BY <1>5, PipelineStutters DEF Rest
<1> QED
  BY <1>1, <1>2, <1>3, <1>4, <1>5 DEF Next

LEMMA PipelineInvariant == Spec => []PipelineInv
BY PipelineInitially, PipelineStep, PTL DEF Spec

\* Every directory, report, row and command of the pipeline keeps its type,
\* and no command is without a place for its report or without its run
\* (markitdown_parser.py, mineru_pdf_parser.py, parse_registry.py).
THEOREM PipelineTypeCorrect == Spec => []TypeOK
<1>1. PipelineInv => TypeOK
  BY DEF PipelineInv, StoreInv, RegistryInv, CountersInv, TypeOK
<1> QED
  BY <1>1, PipelineInvariant, PTL

\* After any sequence of registrations, of old and of new reports, complete or
\* broken off, a content that parse_status calls parsed has a kb_document with
\* the same verdict (_update_parse_status and _upsert_document).
THEOREM ParsedContentHasDocument == Spec => []ParsedHasDocument
<1>1. PipelineInv => ParsedHasDocument
  BY DEF PipelineInv, RegistryInv
<1> QED
  BY <1>1, PipelineInvariant, PTL

\* A kb_parse_run is called COMPLETED only when every item of its report has a
\* kb_parse_result and none of them failed, whatever happens while it is
\* registered, and also when it is registered again (complete_parse_run).
THEOREM CompletedRunsAreComplete == Spec => []CompletedRunIsComplete
<1>1. PipelineInv => CompletedRunIsComplete
  BY DEF PipelineInv, RegistryInv
<1> QED
  BY <1>1, PipelineInvariant, PTL
=============================================================================
