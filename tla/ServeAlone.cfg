\* One `serve` on a host where nothing else goes on.
SPECIFICATION Spec
CONSTANTS
    NoPid = NoPid
    NoFile = NoFile
    Empty = Empty
    NoUser = NoUser
    User = {me, root}
    Root = root
    DirOwner = me
    ServeUser = {me}
    StopUser = {me}
    OtherUser = {}
    Pid = {p1}
    Config = {a}
    Launcher = {l1}
    Stopper = {}
    ByHand = FALSE
    OneAtATime = TRUE
    Crashes = FALSE
    StartsFail = FALSE
PROPERTIES ServeStarts
