SPECIFICATION FairSpec
CONSTANTS
  Scan = {s1, s2}
  Reload = {r1, r2}
  None = None
  Archive <- AllArchives
  Content <- Archives
  Overlays <- AllOverlays
  Defaults <- Embedded
  StartFile <- FileOverlay
  Feed <- NoFeed
  LLMEnabled = TRUE
  MaxConcurrent = 1
  ScriptOf <- CharScripts
  Encoding <- Bytes
  Byte <- AllBytes
  PackageName <- Names
  maxEntryCount = 5
  maxDecompressedSize = 12
  maxCompressionRatio = 4
PROPERTIES
  EveryoneReturns
INVARIANTS
  PassedIsClean
  BadPackagesBlocked
  OverlayInForce
  MisspeltReported
  NothingLeaks
