SPECIFICATION Spec
CONSTANTS
  Request = {r1}
  Content = {x, y}
  MaxVersion = 1
  QueueCap = 1
  MaxCrashes = 1
  Faults = {"db", "s3"}
  Ops = {"upload", "edit", "activate", "approve", "decline", "decline_forever", "reopen", "delete", "delete_all"}
  None = None
SYMMETRY Symmetric
INVARIANTS
  PromotedIsCleared
  AvailableHasArchive
  WaitingIsTracked
