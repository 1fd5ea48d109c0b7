SPECIFICATION FairSpec
CONSTANTS
  Request = {r1}
  Content = {x, y, z}
  MaxVersion = 2
  QueueCap = 1
  MaxCrashes = 1
  Faults = {}
  Ops = {"upload", "edit", "decline_forever"}
  None = None
PROPERTIES
  EditsAreNewVersions
  WaitingIsSettled
CHECK_DEADLOCK FALSE
