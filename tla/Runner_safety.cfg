SPECIFICATION Spec
CONSTANTS
  Run = {r1, r2}
  Server = {s1, s2}
  MaxConcurrentExecs = 1
  MaxCrashes = 1
  Faults = {"db", "s3", "os"}
  None = None
SYMMETRY Symmetric
INVARIANTS
  LiveSandboxIsOwned
  SandboxesBounded
  RunningIsTracked
  FinishedHasNoSandbox
