SPECIFICATION Spec
CONSTANTS
    t1 = t1
    t2 = t2
    s1 = s1
    s2 = s2
    Tasks = {t1, t2}
    Streams = {s1, s2}
    NoStream = NoStream
    MaxVersion = 2
    MaxBeats = 1
    MaxDrops = 2
    MaxTimeouts = 1
INVARIANTS OneSource 
PROPERTIES StoppedIsQuiet 
\* a page that was left, or whose streams are quiet, stays as it is
CHECK_DEADLOCK FALSE
