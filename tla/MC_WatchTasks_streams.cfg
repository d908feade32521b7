SPECIFICATION Spec
CONSTANTS
    t1 = t1
    t2 = t2
    m1 = m1
    m2 = m2
    m3 = m3
    w1 = w1
    w2 = w2
    Tasks = {t1}
    Stored = {}
    Watchers = {w1, w2}
    Mutators = {m1, m2}
    Mutations <- OneTask
    UsedPhases = {"open", "closed"}
    Filter <- FirstOpen
    IncludeInitial = {w1, w2}
    ChanCap = 2
    MaxBeats = 1
INVARIANTS NoSendOnClosed 
SYMMETRY Symmetric
\* every RPC runs once and every stream is opened once
CHECK_DEADLOCK FALSE
