SPECIFICATION Spec
CONSTANTS
  Levels = {0, 1, 2}
  MaxSamples = 4
  Oracles <- RegistryOracles
INVARIANT FlatIsDegraded GrowthIsTheRuns HitMatchesWindow
CHECK_DEADLOCK FALSE
