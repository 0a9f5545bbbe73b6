SPECIFICATION Spec
CONSTANTS
    m1 = m1 m2 = m2 m3 = m3 h1 = h1 h2 = h2 h0 = h0
    Tokens <- MCTokens
    Models <- MCKvModels
    Hashes <- MCHashes
    NoHash = h0
    Hash <- MCHash
    NLayers = 2
    Cap = 10
    FixedN = 3
    Cooldown = 2
    Schedule <- MCSchedule
    HighRisk <- MCHighRisk
    Lookahead = 2
    RicciWarm = 2
    Kinds <- MCKinds
    Modes <- MCModes
    Warmup = 1
    NPrompt = 2
    Predicts <- MCPredicts
    ChatSlack = 1
    NCtx = 8
    PplSlack = 1
    Chunks = 2
    MaxLaunches = 2
    Text <- MCText
SYMMETRY MCSymmetry
ACTION_CONSTRAINT MCNeedsFiles
INVARIANTS TypeOK CacheInStep DriftBounded LookaheadComplete LoadSameHash
PROPERTY ResetsApart
CHECK_DEADLOCK FALSE
