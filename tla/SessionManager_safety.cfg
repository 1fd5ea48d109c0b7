SPECIFICATION Spec
CONSTANTS
  Caller = {c1, c2}
  Key = {k1, k2, k3}
  Sandbox = {s1, s2, s3}
  Reaper = {"shutdown"}
  MaxSessionSandboxes = 1
  None = None
SYMMETRY Symmetric
INVARIANTS
  InsertNeverOverwrites
  SandboxBelongsToSession
  LiveSandboxAccountedFor
  CapacityOvershootBounded
CHECK_DEADLOCK FALSE
