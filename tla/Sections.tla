------------------------------ MODULE Sections ------------------------------
(***************************************************************************)
(* Spec 010, services/evidence_chain.py: how a parsed text is cut into     *)
(* sections, and where a section says that it stands.                      *)
(*                                                                         *)
(* A text is a sequence of lines; offsets count lines instead of           *)
(* characters.  A line is a heading (level 1 and up), other text (level 0) *)
(* or Blank.  A heading is taken to stand on one line: HEADING_PATTERN     *)
(* also lets the marks be followed by a line break.                        *)
(***************************************************************************)
EXTENDS SequencesExt

Blank == [level |-> 0, words |-> "blank"]

IsHeading(line) == line.level > 0

\* str.strip
Strip(text) ==
  LET inked == {i \in DOMAIN text : text[i] # Blank} IN
  IF inked = {} THEN <<>> ELSE SubSeq(text, Min(inked), Max(inked))

\* The members of a set of numbers, the smaller first.
InOrder(S) ==
  [ k \in 1..Cardinality(S) |->
      CHOOSE i \in S : Cardinality({j \in S : j <= i}) = k ]

\* HEADING_PATTERN.finditer
Headings(text) == InOrder({i \in 1..Len(text) : IsHeading(text[i])})

\* Mutant: a heading of the same level is not closed.
UnwindDeeper(stack, level) ==
  LET keep == {k \in 0..Len(stack) :
                 \A j \in (k + 1)..Len(stack) : stack[j].level > level}
  IN SubSeq(stack, 1, Min(keep))

\* The while loop: the headings that the next one closes leave the stack.
Unwind(stack, level) ==
  LET keep == {k \in 0..Len(stack) :
                 \A j \in (k + 1)..Len(stack) : stack[j].level >= level}
  IN SubSeq(stack, 1, Min(keep))

\* heading_stack after the k-th heading
HeadingStack(text, heads) ==
  LET stack[k \in 0..Len(heads)] ==
        IF k = 0 THEN <<>>
        ELSE LET line == text[heads[k]]
             IN Append(Unwind(stack[k - 1], line.level), line)
  IN stack

\* Mutant: the last section ends where it begins.
SectionEndAtHeading(text, heads, k) == heads[Min({k + 1, Len(heads)})] - 1

SectionEnd(text, heads, k) ==
  IF k < Len(heads) THEN heads[k + 1] - 1 ELSE Len(text)

\* _split_markdown_sections.  What stands before the first heading belongs to
\* no section.
SplitSections(text) ==
  LET heads == Headings(text)
      stack == HeadingStack(text, heads)
      Section(k) ==
        [ path  |-> stack[k],
          start |-> heads[k] - 1,
          stop  |-> SectionEnd(text, heads, k),
          body  |-> Strip(SubSeq(text, heads[k], SectionEnd(text, heads, k))) ]
  IN IF heads # <<>> THEN [k \in 1..Len(heads) |-> Section(k)]
     ELSE IF Strip(text) = <<>> THEN <<>>
     ELSE << [path |-> <<>>, start |-> 0, stop |-> Len(text),
              body |-> Strip(text)] >>
=============================================================================
