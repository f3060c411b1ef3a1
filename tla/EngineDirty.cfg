CONSTANTS
    r1 = r1  r2 = r2  r3 = r3
    Requests = {r1, r2, r3}
    Capacity = 2
    MaxPolls = 2
    NoOne = NoOne
    k1 = k1
    Contexts = {k1}
    Calls = {1, 2}
    Kinds = {"completion", "intervene", "checkpoint", "probe", "harvest"}
    Asks = {{}, {"emit"}, {"steer"}, {"write"}, {"capture", "write"}}
    MaxEvents = 2
    NoContext = NoContext
    Frames = 5
    QueueCap = 2
    BatchMax = 2
    Every = 2
SPECIFICATION MCSpec
CHECK_DEADLOCK FALSE
INVARIANTS ContextsClean
