\* Whether a change that failed once is tried again.  No other process takes a
\* port, so that a key file that cannot be read is the only passing reason.
SPECIFICATION Spec
CONSTANTS
    missing = missing
    invalid = invalid
    Missing = missing
    Invalid = invalid
    Files = {"one", "moved"}
    Raw <- Files
    Parse <- MCParse
    Port <- MCPort
    Container <- MCContainer
    MaxForeign = 0
    Squattable <- MCSquattable
PROPERTIES ChangeTakesEffect
