SPECIFICATION Spec
CONSTANTS
  Request = {r1, r2, r3}
  Name = {"a", "b"}
  Stored = {"a"}
  ListLimit = 2
  None = None
  Faults = {"db", "s3", "sandbox"}
  MaxDeaths = 1
INVARIANTS
  AppendsKept
  RowsFollowSession
PROPERTIES
  RestoresSynced
SYMMETRY Symmetry
