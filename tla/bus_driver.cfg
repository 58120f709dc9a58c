CONSTANTS
    None = None
    e1 = e1  e2 = e2
    t1 = t1  t2 = t2
    h1 = h1  h2 = h2
    p1 = p1
    Engines = {e1, e2}
    Threads = {t1, t2}
    PoolConns = {p1}
    Reply = Reply
    Cell = Cell
    Hosts <- TwoHosts
    Settings <- MCSettings
    Faults = {"host", "link", "stop"}
SPECIFICATION FairSpec
INVARIANTS TypeOK SharedSafely LeaksAreTold ServesAllItsQueues
PROPERTIES ComesBack SendsEnd MessagesAreRouted
CHECK_DEADLOCK FALSE
