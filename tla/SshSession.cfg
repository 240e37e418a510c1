\* Two channels and four requests, of any kind and in any order.
SPECIFICATION Spec
CONSTANTS
    k1 = k1
    Channel = {c1, c2}
    Key <- MCKey
    Terminal = {"xterm", "vt100"}
    Shell <- MCShell
    Setting <- MCSetting
    MaxQueue = 2
    MaxRequests = 4
CHECK_DEADLOCK FALSE
INVARIANTS TypeOK HandedOverOnce ToldTheTruth LastTerminal OnlyListedKeys FirstShell
PROPERTIES KeepsContract Served TasksEnd
