SPECIFICATION FairSpec
CONSTANTS
    None = None
    Requests = {"a", "b", "c"}
    Users = {"ann", "bob"}
    MemberOf <- MCMemberOf
    VersionIn <- MCVersionIn
    AllowedModules = {"exceptions", "rushstack.openstack.common.exception"}
    Importable <- MCImportable
    Raises <- MCRaises
    Settings <- MCSettings
INVARIANTS TypeOK AnswersAreTrue ShowsOwnRushes
PROPERTIES KeepsRestPromise
CHECK_DEADLOCK FALSE
