\* One command at a time, with crashes, failing starts and reused pids.
SPECIFICATION Spec
CONSTANTS
    NoPid = NoPid
    NoFile = NoFile
    Empty = Empty
    NoUser = NoUser
    User = {me, root, stranger}
    Root = root
    DirOwner = me
    ServeUser = {me}
    StopUser = {me, root}
    OtherUser = {me, stranger}
    Pid = {p1, p2, p3}
    Config = {a, b}
    Launcher = {l1}
    Stopper = {s1}
    ByHand = TRUE
    OneAtATime = TRUE
    Crashes = TRUE
    StartsFail = TRUE
INVARIANTS TypeOK OneDaemon Tracked
PROPERTIES NoLiveFileRemoved SignalledEnds
