CONSTANTS
    q1 = q1  q2 = q2
    OpenAI = {q1}
    Ollama = {q2}
    MaxPieces = 1
    None = None
    weather = weather  search = search  city = city  query = query
    Tools = {weather, search}
    Arguments = {city, query}
    Offers <- MCOffers
    NativeId = NativeId
    Absent = Absent
    MaxMinted = 2
    MaxLength = 6
    MaxStrays = 1
    r1 = r1  r2 = r2  t1 = t1  t2 = t2  m = m
    Tapes = {r1, r2}
    Off = Off
    FullCap = 1
    MaxSends = 2
    MaxDeltas = 2
    MaxCalls = 3
    Runs = {r1, r2}
    Threads = {t1, t2}
    Traces = {}
    Maps = {m}
    Ops = {"record", "import", "attach", "redact", "scrub", "delete", "retain", "gc", "crash"}
    Keep = 1
    Empty = Empty  Lost = Lost  Nil = Nil  Broken = Broken
    MaxFaults = 1
    d1 = d1  d2 = d2  e1 = e1  e2 = e2
    Dials <- MCDials
    DialValues = {0, 1}
    Variants <- MCVariants
    Cases <- MCCases
    Identities = {101, 102}
    NoDials = NoDials
    NoRunId = NoRunId
    MaxOthers = 1
SPECIFICATION MCSpec
CHECK_DEADLOCK FALSE
INVARIANTS
    NdjsonHonest
    JournalTruthful
    DialogueSound
    StudioHonest
    NoLostEvidence
    ExperimentSound
PROPERTIES
    StreamEnds
    RedactionSticks
    DeleteLeavesNoOrphanChild
