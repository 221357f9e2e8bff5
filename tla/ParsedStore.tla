----------------------------- MODULE ParsedStore -----------------------------
(***************************************************************************)
(* Specs 005 and 007, services/markitdown_parser.py and                    *)
(* services/mineru_pdf_parser.py: two parsers that write their output for  *)
(* a content into the one directory that core/parsed_paths.py gives that   *)
(* content, as three files.  The files are written one after the other,    *)
(* the manifest last, with no lock and no rename; a parse that is forced   *)
(* first removes them, the manifest last again.                            *)
(*                                                                         *)
(* Which parser a content belongs to follows from the row of 001, and a    *)
(* rescan may change it: the same bytes under another name get another     *)
(* extension.  Dry runs write nothing here and are left out.               *)
(***************************************************************************)
EXTENDS Naturals, Sequences, FiniteSets

CONSTANTS
  Contents,    \* the contents whose vault_status is COPIED
  Outputs,     \* the texts a conversion may produce, and their sha256
  MaxReports,  \* bound on parse reports
  Overlap      \* TRUE: the two commands may run at the same time

Parsers == {"markitdown", "mineru"}

None  == "none"      \* no such file, or SQL NULL
Blank == "blank"     \* a text with nothing but white space
Torn  == "torn"      \* a file cut short by the death of its writer

ASSUME OutputsAssumption == {None, Blank, Torn} \cap Outputs = {}
ASSUME MaxReportsAssumption == MaxReports \in Nat
ASSUME OverlapAssumption == Overlap \in BOOLEAN

VARIABLES
  route,      \* route[s]: the parser that match_route_type gives s, or None
  original,   \* original[s]: original.bin is in the vault
  disk,       \* disk[s]: the files in the parsed directory of s
  parser,     \* parser[p]: the command of parser p
  reports,    \* the parse reports written so far
  torn,       \* history: contents whose last write sequence was interrupted
  fresh       \* history: the report of an undisturbed run that nothing has
              \* touched the parsed directories since, or 0

storeVars == <<route, original, disk, parser, reports, torn, fresh>>

Verdicts == {"SUCCESS", "EMPTY", "FAILED"}

Manifest == [ status : Verdicts \cup {None, Torn},
              parser : Parsers \cup {None},
              hash   : Outputs \cup {Blank, None} ]      \* output_hash

NoManifest == [status |-> None, parser |-> None, hash |-> None]

ParsedDir == [ text     : Outputs \cup {Blank, None, Torn},
               meta     : Parsers \cup {None, Torn},
               manifest : Manifest ]

NoDir == [text |-> None, meta |-> None, manifest |-> NoManifest]

ItemStatus == Verdicts \cup {"SKIPPED", None}

Report == [parser : Parsers, items : [Contents -> ItemStatus]]

(***************************************************************************)
(* verdict and out are what is about to be written.  clean is history:     *)
(* nothing has failed or interfered since the command started.             *)
(***************************************************************************)
ParserState == [ pc      : {"idle", "next", "clear", "clear meta",
                            "clear manifest", "convert", "text", "meta",
                            "manifest"},
                 force   : BOOLEAN,
                 batch   : SUBSET Contents,
                 cur     : Contents \cup {None},
                 verdict : Verdicts \cup {None},
                 out     : Outputs \cup {Blank, None},
                 items   : [Contents -> ItemStatus],
                 clean   : BOOLEAN ]

IdleParser == [pc |-> "idle", force |-> FALSE, batch |-> {}, cur |-> None,
               verdict |-> None, out |-> None,
               items |-> [s \in Contents |-> None], clean |-> FALSE]

StoreTypeOK ==
  /\ route \in [Contents -> Parsers \cup {None}]
  /\ original \in [Contents -> BOOLEAN]
  /\ disk \in [Contents -> ParsedDir]
  /\ parser \in [Parsers -> ParserState]
  /\ reports \in Seq(Report) /\ Len(reports) <= MaxReports
  /\ torn \subseteq Contents
  /\ fresh \in 0..Len(reports)

StoreInit ==
  /\ route \in [Contents -> Parsers \cup {None}]
  /\ original \in [Contents -> BOOLEAN]
  /\ disk = [s \in Contents |-> NoDir]
  /\ parser = [p \in Parsers |-> IdleParser]
  /\ reports = <<>>
  /\ torn = {}
  /\ fresh = 0

Active == {p \in Parsers : parser[p].pc # "idle"}

Writing(p) == parser[p].pc \in {"clear", "clear meta", "clear manifest",
                                "text", "meta", "manifest"}

\* Nobody is changing the directory of s.
Quiet(s) == \A p \in Parsers : Writing(p) => parser[p].cur # s

-----------------------------------------------------------------------------
\* parse-markitdown and parse-mineru-pdf, on one content or on all; only the
\* latter has --force.
StartParse(p, targets, force) ==
  /\ parser[p].pc = "idle"
  /\ Len(reports) + Cardinality(Active) < MaxReports
  /\ Active = {} \/ Overlap
  /\ force => p = "mineru"
  /\ parser' = [q \in Parsers |->
       IF q = p THEN [IdleParser EXCEPT !.pc = "next", !.force = force,
                                        !.batch = targets,
                                        !.clean = (Active = {})]
       ELSE [parser[q] EXCEPT !.clean = FALSE]]
  /\ UNCHANGED <<route, original, disk, reports, torn, fresh>>

\* _should_skip_idempotent: a SUCCESS manifest of this very parser (which its
\* parser_adapter_version identifies).
AlreadyDone(p, s) ==
  /\ disk[s].manifest.status = "SUCCESS"
  /\ disk[s].manifest.parser = p

\* What is to be done with s; a --limit that is reached skips it too.
Decision(p, s, limited) ==
  IF \/ route[s] # p
     \/ limited
     \/ ~parser[p].force /\ AlreadyDone(p, s) THEN "skip"
  ELSE IF ~original[s] THEN "no original"
  ELSE "parse"

\* The beginning of _process_content (005) or _build_plan (007).  Without an
\* original.bin, 005 writes a FAILED manifest and 007 only reports.
PlanContent(p, s, limited) ==
  LET d == Decision(p, s, limited)
      plan == [parser[p] EXCEPT !.batch = @ \ {s}, !.cur = s]
  IN /\ parser[p].pc = "next" /\ s \in parser[p].batch
     /\ parser' = [parser EXCEPT ![p] =
          CASE d = "skip" ->
                 [plan EXCEPT !.items[s] = "SKIPPED", !.cur = None]
            [] d = "no original" /\ p = "markitdown" ->
                 [plan EXCEPT !.items[s] = "FAILED", !.pc = "manifest",
                              !.verdict = "FAILED"]
            [] d = "no original" /\ p = "mineru" ->
                 [plan EXCEPT !.items[s] = "FAILED", !.cur = None]
            [] d = "parse" ->
                 [plan EXCEPT !.pc = IF parser[p].force THEN "clear"
                                     ELSE "convert"]]
     /\ UNCHANGED <<route, original, disk, reports, torn, fresh>>

\* One file in the directory of the content in hand is replaced; the command
\* goes on at pc, or with the next content.
FileStep(p, dir, pc) ==
  LET s == parser[p].cur
      rivals == {q \in Parsers \ {p} : Writing(q) /\ parser[q].cur = s}
      done == pc \in {"next", "convert"}
  IN /\ disk' = [disk EXCEPT ![s] = dir]
     /\ parser' = [q \in Parsers |->
          IF q # p THEN [parser[q] EXCEPT !.clean = FALSE]
          ELSE IF pc = "next"
               THEN [parser[p] EXCEPT !.pc = pc, !.cur = None,
                                      !.verdict = None, !.out = None]
               ELSE [parser[p] EXCEPT !.pc = pc]]
     /\ torn' = IF rivals # {} THEN torn \cup {s}
                ELSE IF done /\ parser[p].clean THEN torn \ {s}
                ELSE torn
     /\ fresh' = 0
     /\ UNCHANGED <<route, original, reports>>

\* _clear_parsed_outputs, before a forced parse.
ClearText(p) ==
  /\ parser[p].pc = "clear"
  /\ FileStep(p, [disk[parser[p].cur] EXCEPT !.text = None], "clear meta")

ClearMeta(p) ==
  /\ parser[p].pc = "clear meta"
  /\ FileStep(p, [disk[parser[p].cur] EXCEPT !.meta = None], "clear manifest")

\* Mutant: the manifest is left for the parse to overwrite.
ClearNothing(p) ==
  /\ parser[p].pc = "clear manifest"
  /\ FileStep(p, disk[parser[p].cur], "convert")

ClearManifest(p) ==
  /\ parser[p].pc = "clear manifest"
  /\ FileStep(p, [disk[parser[p].cur] EXCEPT !.manifest = NoManifest],
              "convert")

\* Mutant: the report is told before the images are copied.
ReportBeforeImages(p, out, incomplete) ==
  LET verdict == IF out = Blank THEN "EMPTY" ELSE "SUCCESS"
  IN /\ parser[p].pc = "convert"
     /\ incomplete => p = "mineru"
     /\ parser' = [parser EXCEPT ![p].pc = "text", ![p].out = out,
                     ![p].verdict = IF incomplete THEN "FAILED" ELSE verdict,
                     ![p].items[parser[p].cur] = verdict]
     /\ UNCHANGED <<route, original, disk, reports, torn, fresh>>

\* The conversion gives a text.  007 also copies the images: when that fails
\* for some of them, the text is kept and the manifest says FAILED.
Converted(p, out, incomplete) ==
  LET verdict == IF incomplete THEN "FAILED"
                 ELSE IF out = Blank THEN "EMPTY" ELSE "SUCCESS"
  IN /\ parser[p].pc = "convert"
     /\ incomplete => p = "mineru"
     /\ parser' = [parser EXCEPT ![p].pc = "text", ![p].out = out,
                     ![p].verdict = verdict,
                     ![p].items[parser[p].cur] = verdict]
     /\ UNCHANGED <<route, original, disk, reports, torn, fresh>>

\* The conversion fails: an exception of the library (005); a timeout, an exit
\* code or no Markdown file (007).  005 writes a manifest that says so, 007
\* returns the item without writing one.
NotConverted(p) ==
  LET s == parser[p].cur IN
  /\ parser[p].pc = "convert"
  /\ parser' = [parser EXCEPT ![p] =
       IF p = "markitdown"
       THEN [@ EXCEPT !.items[s] = "FAILED", !.pc = "manifest",
                      !.verdict = "FAILED"]
       ELSE [@ EXCEPT !.items[s] = "FAILED", !.pc = "next", !.cur = None]]
  /\ UNCHANGED <<route, original, disk, reports, torn, fresh>>

WriteText(p) ==
  /\ parser[p].pc = "text"
  /\ FileStep(p, [disk[parser[p].cur] EXCEPT !.text = parser[p].out], "meta")

WriteMeta(p) ==
  /\ parser[p].pc = "meta"
  /\ FileStep(p, [disk[parser[p].cur] EXCEPT !.meta = p], "manifest")

NewManifest(p) ==
  [status |-> parser[p].verdict, parser |-> p, hash |-> parser[p].out]

WriteManifest(p) ==
  /\ parser[p].pc = "manifest"
  /\ FileStep(p, [disk[parser[p].cur] EXCEPT !.manifest = NewManifest(p)],
              "next")

\* _write_report
FinishParse(p) ==
  /\ parser[p].pc = "next" /\ parser[p].batch = {}
  /\ reports' = Append(reports, [parser |-> p, items |-> parser[p].items])
  /\ fresh' = IF parser[p].clean THEN Len(reports) + 1 ELSE fresh
  /\ parser' = [parser EXCEPT ![p] = IdleParser]
  /\ UNCHANGED <<route, original, disk, torn>>

\* What an interrupted command may leave: the file it was writing is cut
\* short, or it had not been opened yet.
Interrupted(p) ==
  LET d == disk[parser[p].cur] IN
  IF ~Writing(p) THEN {}
  ELSE {d} \cup CASE parser[p].pc = "text" -> {[d EXCEPT !.text = Torn]}
                  [] parser[p].pc = "meta" -> {[d EXCEPT !.meta = Torn]}
                  [] parser[p].pc = "manifest" ->
                       {[d EXCEPT !.manifest = [NoManifest EXCEPT !.status = Torn]]}
                  [] OTHER -> {}

Interrupt(p, next) ==
  LET s == parser[p].cur IN
  /\ parser' = [q \in Parsers |-> IF q = p THEN next
                                  ELSE [parser[q] EXCEPT !.clean = FALSE]]
  /\ IF Writing(p)
     THEN /\ \E d \in Interrupted(p) : disk' = [disk EXCEPT ![s] = d]
          /\ torn' = torn \cup {s}
          /\ fresh' = 0
     ELSE UNCHANGED <<disk, torn, fresh>>
  /\ UNCHANGED <<route, original, reports>>

\* Something else raises, a full disk for instance.  005 catches it for each
\* content; in 007 it ends the command, and no report is written.
ParserRaises(p) ==
  /\ parser[p].pc \notin {"idle", "next"}
  /\ Interrupt(p, IF p = "markitdown"
                  THEN [parser[p] EXCEPT !.pc = "next", !.cur = None,
                          !.verdict = None, !.out = None, !.clean = FALSE,
                          !.items[parser[p].cur] = "FAILED"]
                  ELSE IdleParser)

KillParser(p) ==
  /\ parser[p].pc # "idle"
  /\ Interrupt(p, IdleParser)

\* A rescan finds the same bytes under another name: file_ext changes.
Reroute(s, r) ==
  /\ route[s] # r
  /\ route' = [route EXCEPT ![s] = r]
  /\ UNCHANGED <<original, disk, parser, reports, torn, fresh>>
-----------------------------------------------------------------------------
Targets == {Contents} \cup {{s} : s \in Contents}

ParserWork(p) ==
  \/ \E S \in Targets, force \in BOOLEAN : StartParse(p, S, force)
  \/ \E s \in Contents, limited \in BOOLEAN : PlanContent(p, s, limited)
  \/ ClearText(p) \/ ClearMeta(p) \/ ClearManifest(p)
  \/ \E out \in Outputs \cup {Blank}, incomplete \in BOOLEAN :
       Converted(p, out, incomplete)
  \/ NotConverted(p)
  \/ WriteText(p) \/ WriteMeta(p) \/ WriteManifest(p)
  \/ FinishParse(p)

ParserFault(p) == ParserRaises(p) \/ KillParser(p)
-----------------------------------------------------------------------------
\* A manifest that says SUCCESS or EMPTY tells the truth about the other two
\* files, whichever parser wrote them, unless a writer was interrupted or two
\* commands wrote into the directory at once.
ManifestIsTrue ==
  \A s \in Contents :
    LET m == disk[s].manifest IN
    m.status \in {"SUCCESS", "EMPTY"} /\ s \notin torn /\ Quiet(s) =>
      /\ disk[s].text = m.hash
      /\ disk[s].meta = m.parser
      /\ m.status = "EMPTY" <=> m.hash = Blank

\* As long as nothing touches the directories, the report of an undisturbed
\* run agrees with the manifests: what it calls parsed is there, by that
\* parser; and what 005 calls failed has a manifest that says so.
FreshReportIsTrue ==
  fresh # 0 =>
    \A s \in Contents :
      LET item == reports[fresh].items[s]
          m == disk[s].manifest
      IN item \in {"SUCCESS", "EMPTY"}
           \/ (item = "FAILED" /\ reports[fresh].parser = "markitdown") =>
         m.status = item /\ m.parser = reports[fresh].parser

\* specs/007-mineru-pdf-parser-adapter/plan.md: the service catches the error
\* of a conversion and writes a FAILED manifest.
FailureHasManifest ==
  fresh # 0 =>
    \A s \in Contents :
      reports[fresh].items[s] = "FAILED" => disk[s].manifest.status = "FAILED"
=============================================================================
