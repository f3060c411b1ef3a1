CONSTANTS
    i1 = i1  i2 = i2  i3 = i3  t1 = t1  t2 = t2
    Ids = {i1, i2, i3}
    Texts = {t1, t2}
    Clis = {cli}
    cli = cli
    Gateway = Gateway
    Legacy = {t1, t2}
    Persona = {t2}
    Imports <- MCImports
    MaxRequests = 2
    Nobody = Nobody
    m1 = m1  m2 = m2  q1 = q1  q2 = q2
    Models = {m1, m2}
    Pipelines = {q1, q2}
    Registry <- MCRegistry
    MaxTurns = 2
    Nothing = Nothing
    c1 = c1  c2 = c2
    Concepts <- MCConcepts
    Layers = {1, 3}
    DefaultLayer = 2
    MaxTokens = 5
    ChunkTokens = 2
    MaxFires = 1
    Levels = {0, 1}
    Threshold = 1
    Unset = Unset
    MaxCheckpoints = 3
    FirstId = 6
    LastId = 14
    Word = Word  Eos = Eos  Mask = Mask
    Boards <- MCBoards
    BlockLens = {0, 1, 2}
    Caches = {"off", "delta"}
    StepBudgets = {1, 3}
    TopKs <- MCTopKs
    MaxRevisions = 1
    FullRefreshEvery = 1
    CtxSize = 4
    MaxJobs = 2
    CausalRoutes = TRUE
    Letter = Letter  Stop = Stop  Soft = Soft
    Prompts <- MCPrompts
    PrefixRows = {0, 2}
    MaxNew = 2
    WindowSize = 4
    Branches = 2
    MaxRuns = 3
    Characters = {"<", "/", ">", "a", " ", "I", "i", "."}
    OpenTag <- MCOpen
    CloseTag <- MCClose
    Space = " "
    Wide = {"I"}
    WideLower <- MCWideLower
    PieceSet <- MCPieces
    MostPieces = 5
    n1 = n1  n2 = n2  k1 = k1  k2 = k2  p1 = p1
    Names = {n1, n2}
    Axes0 = {n1}
    MaxDial = 2
    MemCards = {k1, k2}
    Presets = {p1}
    Specs <- MCSpecs
    NoName = NoName
    NotAList = NotAList
    MostRuns = 2
    MostSettings = 2
SPECIFICATION MCSpec
CHECK_DEADLOCK FALSE
INVARIANTS NeutralIsNeutral
