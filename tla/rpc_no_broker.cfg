CONSTANTS
    h1 = h1  h2 = h2
    c1 = c1  c2 = c2
    k1 = k1  k2 = k2  k3 = k3
    Connections = {k1, k2, k3}
    Hosts = {h1, h2}
    Local = h1
    Ring <- TwoHosts
    Threads = {c1, c2}
    Ttl = 2
    Backlog = 1
    PoolSize = 1
    Settings <- MCSettings
SPECIFICATION FairSpec
INVARIANTS TypeOK Listed
PROPERTIES FanoutMisses KeepsPromise DeadIsNotFound SentIsExecuted CallsEnd
CHECK_DEADLOCK FALSE
