SPECIFICATION Spec
CONSTANTS
  Uris = {u1}
  Texts = {t1, t2}
  None = None
  Unreadable = Unreadable
  Panics = {}
  SkippedUris = {}
  FileUris = {u1}
  MaxAnalyses = 2
  MaxSaves = 2
  MaxVersion = 2
  MaxEvents = 1
  VersionsRestart = FALSE
  QuietScan = TRUE
  QuietUntilWatched = TRUE
  DebounceOutlasts = FALSE
CHECK_DEADLOCK FALSE
SYMMETRY TextSymmetry
INVARIANTS
  TypeOK
  IndexFollowsDisk
  IndexAgreesWithCache
  OpenUnitHasBuffer
  LiveSavesAreCancellable
  NoOrphanTask
  CacheMatchesBuffer
  PendingIsTheLiveTask
  DiagnosticsMatchVersion
PROPERTIES
  KeepsOwnership
