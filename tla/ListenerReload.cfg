\* Every content, at most one foreign socket: safety and liveness.
SPECIFICATION Spec
CONSTANTS
    missing = missing
    invalid = invalid
    Missing = missing
    Invalid = invalid
    Files = {"one", "moved", "twice", "badhost", "blank", "junk"}
    Raw <- Files
    Parse <- MCParse
    Port <- MCPort
    Container <- MCContainer
    MaxForeign = 1
    Squattable <- MCSquattable
INVARIANTS TypeOK OwnsOnlyItsSet WholeSet PidFileOutlivesListeners
PROPERTIES RollbackKeepsService Settles ServesLastConfig ShutdownCompletes
