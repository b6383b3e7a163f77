SPECIFICATION Spec
CONSTANTS
  Uris = {u1}
  Texts = {t1, t2}
  None = None
  Unreadable = Unreadable
  Panics = {}
  SkippedUris = {}
  FileUris = {u1}
  MaxAnalyses = 2
  MaxSaves = 0
  MaxVersion = 3
  MaxEvents = 0
  VersionsRestart = FALSE
  QuietScan = TRUE
  QuietUntilWatched = TRUE
  DebounceOutlasts = TRUE
CHECK_DEADLOCK FALSE
INVARIANT ClosedHasNoDiagnostics
