CONSTANTS
  d1 = d1
  d2 = d2
  Documents = {d1, d2}
  Entries <- MCEntries
  Project = p
  Unknown = q
  MaxScore = 2
  Limits = {1, 2}
  None = None
SPECIFICATION Spec
INVARIANTS
  TypeOK
  PagesAreRanking
  TotalIsReached
