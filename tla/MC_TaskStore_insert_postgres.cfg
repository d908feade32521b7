SPECIFICATION Spec
CONSTANTS
    t1 = t1
    t2 = t2
    t3 = t3
    t4 = t4
    u1 = u1
    u2 = u2
    c1 = c1
    c2 = c2
    c3 = c3
    l1 = l1
    l2 = l2
    TaskIds = {t1, t2}
    Users = {u1, u2}
    NoUser = NoUser
    Clients = {c1, c2, c3}
    NoClient = NoClient
    Labels = {l1, l2}
    NewTasks <- OnePlain
    Updates <- LabelEdits
    CloseStages = {"completed"}
    SingleConn = FALSE
    MaxSteps = 1
    MaxNow = 0
PROPERTIES VersionMonotonic
SYMMETRY Symmetric
\* every caller sends one request and is done
CHECK_DEADLOCK FALSE
