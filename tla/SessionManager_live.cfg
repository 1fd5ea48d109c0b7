SPECIFICATION FairSpec
CONSTANTS
  Caller = {c1, c2}
  Key = {k1}
  Sandbox = {s1, s2}
  Reaper = {"cleanup"}
  MaxSessionSandboxes = 1
  None = None
PROPERTIES
  ImplementsPool
  RequestsAnswered
