SPECIFICATION MCSpec
CONSTANTS
  Parts = {"layout", "controller", "saving", "settings", "bindings", "pulls", "terminals", "process", "output", "capture", "probes", "palette", "notes", "context", "catalogue", "mcp"}
  None = None
  LayoutTasks <- PaneTasks  MaxStarts = 2  MaxTabs = 2
  ShownTasks = {"t1", "t2"}  FirstTask = "t1"  MaxShownRevision = 1
  MaxLayoutChanges = 4  MaxLayoutFailures = 1
  Windows = {"w1", "w2"}  Agents = {"claude"}  ForeignAgent = "other"
  Tokens = {"token"}  MaxSettingsRevision = 2
  BoundTasks = {"t1"}  PluginFiles = {"f1"}  PluginTexts <- PluginFileTexts
  MaxPhases = 2  MadeKinds = {"planning"}  Catalog <- AgentCatalog
  MaxInstalls = 2  MaxBindingRevision = 2  MaxAskedOfPlugins = 2
  Commits = {"b", "c1", "c2"}  Ancestors <- CommitAncestors  Base = "b"
  ReviewLists <- GitHubReviews  CheckLists <- GitHubChecks  MaxAskedOfGitHub = 3
  MaxGitHubChanges = 3  MaxClock = 1  MaxPulls = 2
  TerminalSessions = {"s1", "s2"}  StartingSessions = {"s1"}  MaxAttempts = 2
  MaxActs = 2  MaxRenders = 0  MaxEnds = 1
  Bytes = {"s", "t", "n"}  RedactedValues <- ValuesToRedact  Mark <- RedactionMark
  Marker <- HostMarker  MaximumBytes = 3  TailBytes = 2  MaxWritten = 7
  CaptureMaxPath = 2  CaptureStarts <- CodeStarts
  MaximumChanged = 2  MaximumEntries = 2  MaxEdits = 2
  ConflictFiles = {"f", "g"}  ConflictOrder <- GitOrder  MaxCommits = 2
  MaxRepositoryChanges = 2  MaxProbes = 2
  PaletteContexts <- CommandContexts  PaletteQueries <- SearchQueries
  PaletteText <- CommandText  PaletteRank <- CommandRank  MaxPaletteActs = 4
  NoteTasks = {"t1", "t2"}  NoteSessions = {"s1", "s1b", "s2"}  NoteOwner <- NoteOwners
  NoteTexts = {"", "x"}  MaxNotes = 1  MaxNoteChanges = 2
  ContextSetups <- DesktopSetups  ContextLimit = 2  MaxBatch = 2  MaxContextChanges = 1
  GateDesktops = {"d1", "d2"}  GateViewer = "d1"  AllowedGates = {"a", "b"}
  GateTexts <- GateFileTexts  MaxGateCalls = 2  MaxGateFailures = 1
  Symbols = {"initialize", "initialized", "call", "bad"}  Newline = "nl"
  McpLimit = 2  MaxChunk = 2  MaxInput = 5
CHECK_DEADLOCK FALSE
INVARIANTS
  PanesSafe TerminalsSafe GatesAreSafe CaptureWasTrue
  ProbesAreTrue ShownIsSound ContextIsKept McpAnswersAreTrue
PROPERTIES
  ControllerIsSound LayoutIsSaved NoSettingsAreLost BindingsAreSound
  PullRequestsSound NotesAreTrue
