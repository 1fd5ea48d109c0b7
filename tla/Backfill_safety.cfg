SPECIFICATION MCSpec
CONSTANTS
  Skill = {s1, s2}
  Server = {m1, m2}
  Stored <- SomeRows
  Table = {"approved"}
  Faults = {"db", "s3"}
  MaxCrashes = 1
  None = None
  MaxInt = 8
  Malformed = Malformed
INVARIANTS
  RowsKeepTheirArchive
  SmoothPassMigrates
  EditsMoveUp
  DiffsAreExact
PROPERTIES
  ApprovalsFollowRows
SYMMETRY Symmetry
