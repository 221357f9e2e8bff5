SPECIFICATION Spec
CONSTANTS
  Contents = {s}
  Outputs = {o1, o2}
  MaxReports = 3
  MaxRuns = 0
  MaxFaults = 1
  MaxReroutes = 1
  Overlap = TRUE
SYMMETRY OutputsSymmetry
INVARIANTS
  ManifestIsTrue
  FreshReportIsTrue
