\* Two commands at the same time, on other ports than the one observed.
SPECIFICATION Spec
CONSTANTS
    a = a
    b = b
    sh = sh
    noShell = noShell
    missing = missing
    invalid = invalid
    Container = {a, b}
    Shell = {sh}
    NoShell = noShell
    Keep = Keep
    NoEntry = NoEntry
    Custom = {"custom"}
    Missing = missing
    Invalid = invalid
    Port = {1, 2, 3}
    KilledInWrite = FALSE
    Unknown = {}
    RequestPort = {1, 2}
    InitialFile <- TidyFile
    Command = {c1, c2}
    OneAtATime = FALSE
INVARIANTS OthersKept
