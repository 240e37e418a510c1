\* Two `serve` commands at the same time; nothing crashes.
SPECIFICATION Spec
CONSTANTS
    NoPid = NoPid
    NoFile = NoFile
    Empty = Empty
    NoUser = NoUser
    User = {me, root}
    Root = root
    DirOwner = me
    ServeUser = {me}
    StopUser = {me}
    OtherUser = {}
    Pid = {p1, p2}
    Config = {a}
    Launcher = {l1, l2}
    Stopper = {}
    ByHand = FALSE
    OneAtATime = FALSE
    Crashes = FALSE
    StartsFail = FALSE
INVARIANTS Tracked
