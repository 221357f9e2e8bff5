SPECIFICATION Spec
CONSTANTS
  Contents = {s}
  Outputs = {o}
  MaxReports = 2
  MaxRuns = 2
  MaxFaults = 1
  MaxReroutes = 1
  Overlap = FALSE
INVARIANTS
  TypeOK
  ParsedHasDocument
  CompletedRunIsComplete
  DeliveredIsRegistered
  DeliveredPassesQuality
PROPERTIES
  ReRegisterIsIdempotent
