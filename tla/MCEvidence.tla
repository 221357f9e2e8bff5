----------------------------- MODULE MCEvidence -----------------------------
(***************************************************************************)
(* TLC instance of Evidence.  The sample texts differ in what matters to   *)
(* the uids: LongerText changes the first chunk of ShortText and moves the *)
(* second, and BlankText has none.                                         *)
(***************************************************************************)
EXTENDS Evidence

Heading(words) == [level |-> 1, words |-> words]
Line(words) == [level |-> 0, words |-> words]

ShortText  == <<Heading("A"), Line("p"), Heading("B")>>
LongerText == <<Heading("A"), Line("p"), Line("q"), Heading("B")>>
BlankText  == <<Blank>>

TwoTexts    == {ShortText, LongerText}
ThreeTexts  == {ShortText, LongerText, BlankText}

MCSymmetry == Permutations(Contents) \cup Permutations(Builders)
=============================================================================
