CONSTANTS
  Contents = {a}
  Texts <- TwoTexts
  Builders = {x}
  Forces = {FALSE}
  Limits = {0}
  Overlap = FALSE
  Failures = {"error"}
  MaxResults = 2
  None = None
SPECIFICATION Spec
INVARIANTS
  ChunkHasEvidence

