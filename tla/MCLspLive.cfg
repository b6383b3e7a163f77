SPECIFICATION FairSpec
CONSTANTS
  Uris = {u1}
  Texts = {t1, t2}
  None = None
  Unreadable = Unreadable
  Panics = {t2}
  SkippedUris = {}
  FileUris = {u1}
  MaxAnalyses = 3
  MaxSaves = 1
  MaxVersion = 3
  MaxEvents = 0
  VersionsRestart = FALSE
  QuietScan = TRUE
  QuietUntilWatched = TRUE
  DebounceOutlasts = TRUE
CHECK_DEADLOCK FALSE
PROPERTIES
  EventuallyAnalyzed
  DiagnosticsConverge
  PendingSettles
