CONSTANTS
    None = None
    w1 = w1  w2 = w2
    t1 = t1  t2 = t2
    n1 = n1  n2 = n2
    k1 = k1  k2 = k2
    Workers <- MCWorkers
    Tenants <- OneTenant
    RushNames <- MCRushNames
    TypeIds <- MCRushTypes
    RushTypes <- MCRushTypes
    StackName <- MCStackName
    StackNames <- MCStackNames
    RushIds = {r1, r2}
    StackIds = {s1, s2}
    Served = {"start", "stop", "list"}
    HeatFails = FALSE
    OperatorActs = FALSE
    Outages = FALSE
    Crashes = FALSE
SPECIFICATION FairSpec
INVARIANTS StacksAccounted
PROPERTIES StopCompletes
