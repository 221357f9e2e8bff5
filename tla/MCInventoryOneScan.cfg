SPECIFICATION InventorySpec
CONSTANTS
  NPaths = 2
  Contents = {a, b}
  NoSha = NoSha
  Scanners = {p}
SYMMETRY ContentsSymmetry
INVARIANT
  OneScanIsExact
