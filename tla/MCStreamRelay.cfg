CONSTANTS
    p1 = p1
    p2 = p2
    m1 = m1
    m2 = m2
    c1 = c1
    Pollers = {p1, p2}
    Messages = {m1, m2}
    Clients = {c1}
    NoPoller = NoPoller
    NoMessage = NoMessage
    RunTime = 3
    LeaseTime = 2
    Buffer = 1
    Visibility = 1
    BatchSize = 2
    Page = 1
    MaxStamp = 2
SPECIFICATION Spec
SYMMETRY Symmetry
INVARIANTS NothingLost WorkIsLeased SkipsNeedOverrun
CHECK_DEADLOCK FALSE
