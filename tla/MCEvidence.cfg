CONSTANTS
  Contents = {a, b}
  Texts <- ThreeTexts
  Builders = {x}
  Forces = {FALSE}
  Limits = {0, 1}
  Overlap = FALSE
  Failures = {"error"}
  MaxResults = 2
  None = None
SPECIFICATION Spec
SYMMETRY MCSymmetry
INVARIANTS
  OneTextPerContent
