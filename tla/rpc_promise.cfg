\* Requests published and delivered twice, within what the cache remembers and beyond it; the queue lost, replies sent twice; one engine.
SPECIFICATION Spec
CONSTANTS
    None = None
    c1 = c1
    c2 = c2
    c3 = c3
    s1 = s1
    s2 = s2
    Calls = {c1, c2}
    Servers = {s1}
    DupMsgCheckSize = 1
    ThreadPoolSize = 2
    Timeouts = TRUE
    Faults = {"unconfirmed", "session", "unbind"}
    MaxFaults = 2
SYMMETRY Symmetry
INVARIANT TypeOK
PROPERTY KeepsPromise
CHECK_DEADLOCK FALSE
