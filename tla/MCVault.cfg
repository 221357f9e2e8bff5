SPECIFICATION Spec
CONSTANTS
  NPaths = 2
  Contents = {a, b}
  NoSha = NoSha
  Scanners = {p}
  NameRank <- BetterNamesLast
  Commands = {"copy-to-vault"}
  MaxEdits = 1
  MaxFaults = 1
SYMMETRY MCSymmetry
INVARIANTS
  TypeOK
  
  StatusesAgree
  CopyKnowsBin
  SettledCopySucceeds
PROPERTIES
  ValidBinIsKept
  ImplementsArchive
