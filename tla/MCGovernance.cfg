SPECIFICATION Spec
CONSTANTS
  NPaths = 2
  Contents = {a, b}
  NoSha = NoSha
  Scanners = {p, q}
  NameRank <- BetterNamesLast
  Commands = {"govern-duplicates"}
  MaxEdits = 1
  MaxFaults = 1
SYMMETRY MCSymmetry
INVARIANTS
  TwoScansAreExact

  
