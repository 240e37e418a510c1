\* Two calls of any kind and two changes of the engine at the same time.
SPECIFICATION Spec
CONSTANTS
    Name <- MCName
    Id <- MCId
    Pid = {1, 2}
    FirstNames <- MCFirstNames
    FirstProc <- MCFirstProc
    MaxChanges = 2
    Forward = {f1, f2}
    Thread = {t1, t2}
    ForwardTo <- MCForwardTo
    MaxAddresses = 2
    Proxy = {p1}
    ProxyTo <- MCProxyTo
    ShortLength = 2
    Query <- MCQuery
    Mappings <- MCMappings
    MaxCalls = 2
CHECK_DEADLOCK FALSE
INVARIANTS TypeOK RightNetwork StraysAreReported ActsOnTarget KnowsItsOwn ListsRunning DoctorIsRight
PROPERTIES ForwardEnds
