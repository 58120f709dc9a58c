\* Every failure, the loss of the queues too.
SPECIFICATION FairSpec
CONSTANTS
    None = None
    c1 = c1
    c2 = c2
    c3 = c3
    s1 = s1
    s2 = s2
    Calls = {c1, c2}
    Servers = {s1}
    DupMsgCheckSize = 2
    ThreadPoolSize = 1
    Timeouts = TRUE
    Faults = {"unconfirmed", "reset", "session", "unbind", "replies", "crash"}
    MaxFaults = 1
INVARIANT WaitersAreOpenCalls
PROPERTY CallsEnd
CHECK_DEADLOCK FALSE
