CONSTANTS
  Comments <- MCComments
  First = "first"
  LifecycleTries = 2
  Admins = {admin1, admin2}
  AdminJobs <- MCAdminJobs
  ServerSteps = 2
  AdminSteps = 2
  IdOrder <- MCIdOrder
  Sources <- MCSources
  PageSize = 2
  MigrationRuns = 2
  Starters <- MCTwo
  OldTenants <- MCTenants
  OldJobs <- MCTwo
  OldMetrics = {1}
  SchemaCrashes = 2
  WorkJobs <- MCTwo
  ScanSize = 1
  ReconcileLimit = 1
  WorkRetries = 1
  WorkFaults = 1
  WorkRuns = 2
  WatchRuns = 2
  WatchRetries = 1
  LogPieces = 2
  Shown = 1
  Visits <- MCTwo
  MaxLinks = 2
  MaxApps = 2
  MaxInstalls = 1
  MaxRequests = 2
  MaxExpired = 2
  Requests <- MCTwo
  GitHubEvents <- MCGitHubEvents
  GitLabEvents <- MCGitLabEvents
  MaxChanges = 1
  Paths = {"file"}
  Contents <- MCTwo
  Large = {2}
  Topics = {"finding"}
  HistoryJobs <- MCTwo
  KindOf <- MCKindOf
  HistoryRetries = 1
  MaxFailures = 1
  MaxMoves = 1
  Memories = {1, 2, 3}
  Italic = {3}
  Askers = {1, 2, 3}
  Asked <- MCAsked
  FewEntries = 1
  MaxEdits = 2
  Tries <- MCTwo
  MaxPushes = 2
  MaxSessions = 1
  MaxTurns = 3
SPECIFICATION Spec
SYMMETRY Symmetry
INVARIANTS
  TypeOK
  OutcomeIsTold
  CommandsKeepPromises
  ProfilesConsistent
  QuietMigrationCopies
  OldDataSurvives
  RunsAgreeWithJobs
  WatchTellsTheEnd
  SetupIsWhole
  StorageOutlivesWork
  RepliesAreTrue
  HistoryIsSound
  MemoryIsKept
  WorkspaceIsExact
PROPERTIES
  ClaimedJobSurvives
CHECK_DEADLOCK FALSE
