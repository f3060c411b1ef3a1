CONSTANTS
    r1 = r1  r2 = r2  t1 = t1  t2 = t2  a = a
    Runs = {r1, r2}
    Threads = {t1, t2}
    Traces = {a}
    Maps = {}
    Ops = {"record", "attach", "redact", "gc"}
    Keep = 1
    Empty = Empty  Lost = Lost  Nil = Nil  Broken = Broken
    A = A  B = B  AB = AB  S = S  x = x  y = y  z = z  u = u
    FiredSets = {{x}, {x, y}, {x, y, z}, {x, y, z, u}}
    Tokens <- MCTokens
    Words = {A, B, S}
    Voices <- MCVoices
    Spelling <- MCSpelling
    Garbled <- MCGarbled
    ExactMax = 3
    ExhaustiveMax = 3
    TopPairs = 2
    MaxFailures = 1
    Word = "word"  Space = "space"  Stop = "stop"  Quote = "quote"
    Prompts <- MCPrompts
    ProbeTexts <- MCProbeTexts
    Target = 3
    FineTarget = 2
    MaxSpans = 3
    MaxRefined = 1
    MaxFine = 3
    Sizes = {0, 1, 2}
    Floor = 1
SPECIFICATION MCSpec
SYMMETRY Symmetry
CHECK_DEADLOCK FALSE
INVARIANTS
    NeverSilentlyEmpty
    VerdictsAreSound
    ShapleyIsTheMean
    MapIsSound
    StrongestAreRefined
