CONSTANTS
  Contents = {a}
  Texts <- TwoTexts
  Builders = {x, y}
  Forces = {TRUE, FALSE}
  Limits = {0}
  Overlap = TRUE
  Failures = {"error", "deadlock"}
  MaxResults = 2
  None = None
SPECIFICATION Spec
SYMMETRY MCSymmetry
INVARIANTS
  TypeOK
  EvidenceHasChunk
  
  
PROPERTIES
  FeedOnlyGrows
