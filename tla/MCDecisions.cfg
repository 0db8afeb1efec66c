SPECIFICATION Spec
CONSTANTS
    Exchanges <- MCExchanges
    Values <- MCValues
    ToolCalls <- MCToolCalls
    Vectors <- MCVectors
    MaxMessages = 2
    MaxText = 3
    MaxImages = 2
    MaxImageBytes = 2
    MaxBatch = 2
    MaxTextChars = 2
    MaxBatchChars = 3
    MaxTools = 2
    ValidateSchema <- SchemaOutcomes
    ValidateValue <- ValueOutcomes
    Schemas <- MCAllSchemas
    MaxProperties = 2
    MaxDepth = 1
    root = root
    sub = sub
    fileA = fileA
    fileB = fileB
    fileC = fileC
    Commands <- MCCommands
    Installed = {"windows.telemetry.read", "windows.files.search", "windows.app.open", "windows.media.control"}
    Root = root
    Dirs = {sub}
    Files = {fileA, fileB, fileC}
    Parent <- MCParent
    Matching = {fileA, fileB}
    MaxEntries = 2
    Volumes = {0, 2, 3}
    MaxChanges = 2
    Interval = 1
    MissAfter = 2
    MaxGap = 2
    Day = 4
    Week = 7
    SmartEvery = 2
    MaxRows = 8
    MinSamples = 2
    MaxDelay = 3
    Horizon = 10
    MaxTroubles = 2
INVARIANTS
    AcceptedFitsModel
    ReplyFitsRequest
    HealthIsTruthful
    SearchIsSound
    OutcomeIsObserved
    PassIsEarned
    HealthyHostPasses
CHECK_DEADLOCK FALSE
