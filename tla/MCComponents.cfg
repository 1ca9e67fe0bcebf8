SPECIFICATION Spec
CONSTANTS
    WandTerms = {a, b}
    WandDocs = {1, 2, 3, 4}
    BlockSize = 2
    RrfK = 0
    RobustFrom = 3
    TrimPercent = 1
    Alpha = 8
    AdaptivePull = 7
    Lambda = 5
    DupThreshold = 6
    DupWindow = 0
    MinKeep = 1
    Scan = 0
    Sensitivity = 2
    BlendTenths = 5
    PChunks <- MCPChunks
    DocOfChunk <- MCDocOfChunk
    FirstLine <- MCFirstLine
    LastLine <- MCLastLine
    JudgedBy <- MCJudgedBy
    TieOrders <- MCTieOrders
    CandidateK = 2
    CrossTopN = 2
    MaxGap = 2
    ProbeK = 2
    FbDocs = 1
    FbTerms = 1
    MaxDocs = 4
    LinkWeight = 2
    Knn = 1
    LpRounds = 2
    PprIters = 2
    GraphK = 2
    MaxLevels = 4
    ClusterSize = 2
    Reach = 2
    SChunks <- MCSChunks
    SDoc <- MCSDoc
    LateScore <- MCLateScore
    CrossScore <- MCCrossScore
    Grade <- MCGrade
    Upper = 7
    Lower = 3
    Strips = 2
    SpTerms = {1, 2, 3}
    StableTerms = {1, 3}
    DefaultDecay = 4
    MinWeight = 130
    Expansions = 1
    SpladeK = 2
    Sim <- MCSim
    M = 1
    EfConstruction = 2
    WaveDivisor = 1
    WavesWidth = 2
    KindOf <- MCKindOf
    MaxLines = 3
    MaxChars = 4
    MinLines = 2
    Overlap = 1
    MinOfFile = 8
    MinOfText = 6
    BreakPercent = 50
    EndSymbol = 2
    LengthBase <- MCLengthBase
    DistBase <- MCDistBase
    MaxCode = 4
    MaxInflate = 6
    WantedExts = {".txt", ".html", ".rtf", ".pdf", ".own"}
    SkippedDirs = {"git"}
    MaxFileBytes = 8
    CustomExts = {".own"}
    Converters <- MCConverters
    ScanRatio = 4
    Identities = {"a", "b"}
    Passages = {1, 2}
    Capacity = 2
    Score <- MCScore
    NoScore <- MCNoScore
    MaxAsked = 2
    ParallelMin = 4
    Widths = {1, 2, 3, 4}
    Lengths = {0, 1, 2, 3, 4, 5, 6, 7, 8}
    MaxRequests = 3
    MaxThreads = 2
    Unset = Unset
    NoNumber = NoNumber
    Tokens <- HTokens
    Meta <- HMeta
    NumberOf <- HNumberOf
    RankScore <- HRankScore
INVARIANTS
    NothingLost
    UnanimityKept
    KeepsWhatWasAsked
    RefinementSound
    GraphSound
    ForestCovers
    StrategiesDegrade
    SparseSurvivesReload
    BuildIsSerial
    ChunkingSound
    InflateInverts
    DocumentsWhole
    FilesAccounted
    TextSurvives
    CacheFaithful
    EachItemOnce
    AnswersAreOwn
    RepliesHonest
CHECK_DEADLOCK FALSE
