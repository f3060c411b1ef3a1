CONSTANTS
    q1 = q1  q2 = q2
    OpenAI = {q1}
    Ollama = {q2}
    MaxPieces = 1
    None = None
SPECIFICATION StreamSpec
CHECK_DEADLOCK FALSE
INVARIANTS StopIsTrue
