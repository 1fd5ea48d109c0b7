SPECIFICATION Spec
CONSTANTS
  Request = {r1, r2}
  Content = {x, y, z}
  MaxVersion = 2
  QueueCap = 1
  MaxCrashes = 0
  Faults = {}
  Ops = {"upload", "edit"}
  None = None
PROPERTY
  EditsAreNewVersions
