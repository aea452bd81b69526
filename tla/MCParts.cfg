SPECIFICATION PartsSpec
CONSTANTS
    NCalls = 2
    Notes = {}
    Stubborn = {1}
    Slots = 2
    Pipe = 1
    MaxNoise = 1
    Agents = {a1}
    NEvents = 2
    NForeign = 1
    BusCap = 1
    Policies <- RetryPolicies
    Headers = {0, 3, 12}
    Width = 6
    MaxShift = 3
    MaxRetryAfter = 10
    DefaultBase = 2
    DefaultCap = 7
    MaxAttempts = 4
    MaxTurns = 5
    Names = {"f", "g"}
    Said <- SaidKinds
    Replied <- RepliedKinds
    Wanted <- WantedParameters
    MaxFrames = 4
    Blocks <- ReplyBlocks
    MaxInput = 5
    MaxEvent = 4
    Commands = {1, 2, 3}
    Editors = {1}
    Starters = {3}
    Providers = {"p"}
    Members = {"a", "b"}
    Drafts <- EditorDrafts
    Types = {"http", "cli", "broken"}
    Roles = {"sub", "main"}
    McpTools = {"b", "r"}
    MaxPieces = 3
    ForeignStates = {"input-required", "working", "failed"}
    MaxSteps = 2
    MaxCalls = 2
    KeepLasts = {1, 3}
    MaxRuns = 3
INVARIANTS
    ReadLoopNeverStalls
    SendsOnlyOnOpen
    RunIsAccounted
    BodiesAreClosedOnce
    DelayIsBounded
    WireKeepsTheTurns
    WireIsAcceptable
    StreamTellsTheMessage
    StreamIsWhole
    ScannerTellsTheStream
    FileLoads
    TeamsAreSound
    AnswerCrosses
    RequestsAreWellFormed
    DelegationsAreAccounted
PROPERTIES
    ImplementsRequests
    CallsReturn
    CommandExits
    TurnsAreWhole
    RunsEnd
CHECK_DEADLOCK FALSE
