\* A shell on a PTY whose client sends EOF.
SPECIFICATION Spec
CONSTANTS
    Modes = {"pty"}
    Programs = {"eof"}
    PipeSize = 1
    MaxWindow = 1
    MaxInput = 1
    MaxOutput = 1
CHECK_DEADLOCK FALSE
PROPERTIES PtyEofEnds
