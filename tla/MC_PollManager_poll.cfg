SPECIFICATION Spec
CONSTANTS
    a = a
    b = b
    ta = ta
    tb = tb
    w1 = w1
    w2 = w2
    Collections = {a, b}
    NoCollection = NoCollection
    Tasks = {ta, tb}
    CollectionOf <- Home
    MaxVisits = 2
    Writers = {w1, w2}
    MaxEvents = 2
PROPERTIES MarkedEditStays LateAnswerIgnored Converges
\* the user may stay on the list of collections
CHECK_DEADLOCK FALSE
