\* One command at a time on files edited by hand.
SPECIFICATION Spec
CONSTANTS
    a = a
    b = b
    sh = sh
    noShell = noShell
    missing = missing
    invalid = invalid
    Container = {a, b}
    Shell = {sh}
    NoShell = noShell
    Keep = Keep
    NoEntry = NoEntry
    Custom = {"custom"}
    Missing = missing
    Invalid = invalid
    Port = {1, 2, 3}
    KilledInWrite = FALSE
    Unknown = {x}
    RequestPort = {1, 2, 3}
    InitialFile <- AnyFile
    Command = {c1}
    OneAtATime = TRUE
INVARIANTS TypeOK
PROPERTIES ImplementsTable StaysWellFormed
