SPECIFICATION PartsSpec
CONSTANTS
  MaxCommands = 3
  MaxInterrupts = 1
  Retries = 2
  Sessions = {"default"}
  NumRetries = 0
  MaxRequests = 3
  Chains <- MCChains
  Observations <- MCObservations
  MaxSteps = 3
  BundleLists <- MCBundleLists
  CallReplies <- MCCallReplies
  Lines = {"text", "bare", "python", "bash", "<command>", "</command>"}
  MaxLines = 4
  Scripts <- MCScripts
  Texts <- MCTexts
  Pieces <- MCPieces
  Window = 2
  Overlap = 1
  MaxEdits = 2
  MaxText = 5
  Ids = {1, 2, 3}
  Filters <- MCFilters
  Cuts <- MCCuts
  Shuffled <- MCShuffled
  MaxBoxes = 3
  MaxActions = 2
  MaxRequeries = 3
  Bundles <- MCBundles
  HasInstall = {"registry", "windowed"}
  PostDir = "elsewhere"
  StateBundles <- MCStateBundles
  MaxVersion = 1
  MaxAttempts = 2
  MaxTurns = 4
  MaxRetypes = 3
  Actions = {1, 2, 3}
  EditActions = {3}
  SampleSizes <- MCSampleSizes
  MaxStarts = 3
  Instances = {"a1", "a10", "b"}
  Inside <- MCInside
  Kinds = {"swea-agent"}
  NumWorkers = 2
  Statuses = {"submitted"}
INVARIANTS
  ExitCodeResyncs
  AnswersAreOwn
  ConversationHolds
  ActionsAreWhole
  EditsAreSound
  SelectionIsSound
  SandboxesAreOwn
  ReplayRepeats
  SteeringIsSound
  SamplesAreUsed
  ResetIsFresh
  NoLeak
  StartIsUnnamed
  LogsFollowInstances
  ReportKeepsEveryEnd
PROPERTY EnvironmentIsSound
CHECK_DEADLOCK FALSE
