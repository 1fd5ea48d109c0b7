SPECIFICATION Spec
CONSTANTS
  Request = {r1, r2, r3}
  Tenant = {"t1", "t2"}
  Name = {"n"}
  None = None
  Harvest <- Artifact
  Faults = {"db", "s3"}
  MaxCrashes = 1
INVARIANTS
  RowHasItsObject
  ObjectAccountedFor
  VersionsTree
SYMMETRY Symmetry
