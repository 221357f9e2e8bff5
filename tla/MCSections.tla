----------------------------- MODULE MCSections -----------------------------
(***************************************************************************)
(* Sections on every text of at most MaxLines lines: a text grows by one   *)
(* line at a time.                                                         *)
(***************************************************************************)
EXTENDS Sections

CONSTANTS
  MaxLines,   \* bound on the lines of a text
  MaxLevel    \* the deepest level of a heading

ASSUME MCSectionsAssumption == MaxLines \in Nat /\ MaxLevel \in Nat

Lines == [level : 1..MaxLevel, words : {"A", "B"}]
           \cup {[level |-> 0, words |-> "p"], Blank}

VARIABLE text

Init == text = <<>>

AppendLine ==
  /\ Len(text) < MaxLines
  /\ \E line \in Lines : text' = Append(text, line)

Next == AppendLine

Spec == Init /\ [][Next]_text
-----------------------------------------------------------------------------
\* The headings that enclose line i, by their meaning: those that no heading of
\* the same or of a higher rank follows, up to i.
Encloses(j, i) ==
  /\ j <= i /\ IsHeading(text[j])
  /\ \A k \in (j + 1)..i : IsHeading(text[k]) => text[k].level > text[j].level

\* The heading_path of a section, which source_location shows to a reader, is
\* the headings that enclose it, whatever levels the text skips or returns to.
PathIsEnclosing ==
  \A k \in DOMAIN SplitSections(text) :
    LET section == SplitSections(text)[k]
        rows == InOrder({j \in 1..Len(text) : Encloses(j, section.start + 1)})
    IN section.path = [n \in DOMAIN rows |-> text[rows[n]]]

Within(i, section) == section.start < i /\ i <= section.stop

\* Every inked line from the first heading on, or of a text without headings,
\* is quoted by exactly one section, and every section quotes something.
QuotedOnce ==
  LET sections == SplitSections(text)
      quotable == {i \in DOMAIN text :
                     /\ text[i] # Blank
                     /\ \/ \A j \in DOMAIN text : ~IsHeading(text[j])
                        \/ \E j \in 1..i : IsHeading(text[j])}
  IN /\ \A i \in quotable :
          Cardinality({k \in DOMAIN sections : Within(i, sections[k])}) = 1
     /\ \A k \in DOMAIN sections :
          /\ sections[k].body # <<>>
          /\ ToSet(sections[k].body) \ {Blank}
               = {text[i] : i \in {j \in quotable : Within(j, sections[k])}}
=============================================================================
