\* Two users, root among them, serve the same config path, one command at a time.
SPECIFICATION Spec
CONSTANTS
    NoPid = NoPid
    NoFile = NoFile
    Empty = Empty
    NoUser = NoUser
    User = {me, root}
    Root = root
    DirOwner = me
    ServeUser = {me, root}
    StopUser = {root}
    OtherUser = {}
    Pid = {p1, p2}
    Config = {a}
    Launcher = {l1}
    Stopper = {s1}
    ByHand = FALSE
    OneAtATime = TRUE
    Crashes = FALSE
    StartsFail = FALSE
PROPERTIES StopReaches
