\* Two engines, of which one loses its session or dies; the queue is kept.
SPECIFICATION FairSpec
CONSTANTS
    None = None
    c1 = c1
    c2 = c2
    c3 = c3
    s1 = s1
    s2 = s2
    Calls = {c1, c2}
    Servers = {s1, s2}
    DupMsgCheckSize = 2
    ThreadPoolSize = 1
    Timeouts = FALSE
    Faults = {"session", "crash"}
    MaxFaults = 1
PROPERTIES CallsAreAnswered
INVARIANTS NoRequestLost ToldTheTruth
CHECK_DEADLOCK FALSE
