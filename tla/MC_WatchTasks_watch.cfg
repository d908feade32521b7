SPECIFICATION FairSpec
CONSTANTS
    t1 = t1
    t2 = t2
    m1 = m1
    m2 = m2
    m3 = m3
    w1 = w1
    w2 = w2
    Tasks = {t1, t2}
    Stored = {t2}
    Watchers = {w1}
    Mutators = {m1, m2}
    Mutations <- InsertAndLink
    UsedPhases = {"open"}
    Filter <- AllPhases
    IncludeInitial = {w1}
    ChanCap = 1
    MaxBeats = 0
INVARIANTS TypeOK 
PROPERTIES PublishReturns DisconnectReturns StreamCatchesUp
\* every RPC runs once and every stream is opened once
CHECK_DEADLOCK FALSE
