CONSTANTS
  MaxCrashes = 2
  Width = 3
  Releases <- MCReleases
SPECIFICATION Spec
INVARIANTS LossIsLocal OnceOnly SameNonce
PROPERTIES LaterRunsAreQuiet Finishes
CHECK_DEADLOCK FALSE
