CONSTANTS
    r1 = r1  r2 = r2  r3 = r3  t1 = t1  t2 = t2  a = a  m = m
    Runs = {r1}
    Threads = {t1, t2}
    Traces = {}
    Maps = {m}
    Ops = {"record", "attach", "redact"}
    Keep = 2
    Empty = Empty  Lost = Lost  Nil = Nil  Broken = Broken
SPECIFICATION Spec
SYMMETRY Symmetry
CHECK_DEADLOCK FALSE
PROPERTIES ReplaceIsAtomic
