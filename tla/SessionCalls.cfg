SPECIFICATION Spec
CONSTANTS
    d1 = d1
    d2 = d2
    o1 = o1
    o2 = o2
    l1 = l1
    l2 = l2
    peer = peer
    None = None
    Dials <- MCDials
    Number = {1, 2}
    Offers = {o1}
    Listeners = {l1}
    Ids <- MCIds
    IdOf <- MCIdOf1
    To <- MCTo1
    Capacity = 1
    MaxInbox = 2
INVARIANTS
    AnswerIsOwn
    FailureHasCause
    PendingIsCurrent
PROPERTIES
    ImplementsCalls
CHECK_DEADLOCK FALSE
