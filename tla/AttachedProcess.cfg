\* Pipes and PTYs, every kind of program, with buffers smaller than the output.
SPECIFICATION Spec
CONSTANTS
    Modes = {"pipes", "pty"}
    Programs = {"eof", "command", "nothing"}
    PipeSize = 1
    MaxWindow = 1
    MaxInput = 2
    MaxOutput = 2
CHECK_DEADLOCK FALSE
INVARIANTS TypeOK StatusAfterOutput EofAfterInput StallsOnlyForClient
PROPERTIES PipesFinish PtyTornDown DisconnectReaps
