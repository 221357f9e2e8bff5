SPECIFICATION FairInventorySpec
CONSTANTS
  NPaths = 2
  Contents = {a, b}
  NoSha = NoSha
  Scanners = {p}
INVARIANTS
  InventoryTypeOK
  RowsFollowFiles
  TwoScansAreExact
PROPERTIES
  ScanEnds
  ScansAdvance
