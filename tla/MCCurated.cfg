CONSTANTS
  Contents = {s}
  MaxEvidence = 1
  Builders = {x, y}
  Forces = {TRUE, FALSE}
  MaxEntries = 1
  Named = FALSE
  None = None
SPECIFICATION Spec
SYMMETRY MCSymmetry
INVARIANTS
  TypeOK
  RowsMatchFiles
  ReferencesAreStored
  ForcedBuildIsCurrent
  
