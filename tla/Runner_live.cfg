SPECIFICATION FairSpec
CONSTANTS
  Run = {r1, r2}
  Server = {s1}
  MaxConcurrentExecs = 1
  MaxCrashes = 1
  Faults = {}
  None = None
INVARIANT
  WithdrawnNeverRuns
PROPERTIES
  RunsReturn
  OrphansCollected
