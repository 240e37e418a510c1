-------------------------- MODULE DaemonLifecycle --------------------------
(***************************************************************************)
(* How daemons come and go: `serve` (run_daemon), which forks a daemon and *)
(* writes its pid file, the daemon itself (`serve --foreground`,           *)
(* run_foreground_until_shutdown), which writes the same file, and `stop`  *)
(* (stop_daemon), which signals the process the file names.  They share    *)
(* nothing but the pid file and the kernel's table of processes, and every *)
(* file operation is a step of its own: fs::write truncates the file       *)
(* before it writes it, and a check of the file is followed by a separate  *)
(* write.                                                                  *)
(*                                                                         *)
(* Commands are run by users, and what a process may signal, write and     *)
(* remove is the kernel's decision: kill(pid, None) fails for a process of *)
(* another user just as it does for a pid that nobody has.                 *)
(*                                                                         *)
(* The listeners of a daemon are modelled in ListenerReload; here a start  *)
(* succeeds or fails, and a config path stands for its ports.              *)
(***************************************************************************)
EXTENDS FiniteSets

CONSTANTS
    Pid,            \* process ids of the host
    Config,         \* config paths, all in one directory: one pid file
    Launcher,       \* `serve` commands that can run at the same time
    Stopper,        \* `stop` commands that can run at the same time
    NoPid,          \* no process id
    NoFile,         \* the pid file does not exist
    Empty,          \* the pid file is empty, as after its truncation
    ByHand,         \* `serve --foreground` is used too
    OneAtATime,     \* a command is started only when the last one returned
    Crashes,        \* daemons are killed by others than `stop`
    StartsFail,     \* a start can fail for its own reasons (key, host, port)
    User,           \* users of the host
    Root,           \* the user who may do anything
    DirOwner,       \* owner of the directory of the config paths
    ServeUser,      \* users who run `serve` and `serve --foreground`
    StopUser,       \* users who run `stop`
    OtherUser,      \* users whose unrelated processes take pids
    NoUser          \* no user

ASSUME NamesAssumption ==
    /\ {NoPid, NoFile, Empty} \cap Pid = {}
    /\ NoFile # Empty
ASSUME SwitchAssumption ==
    {ByHand, OneAtATime, Crashes, StartsFail} \subseteq BOOLEAN
ASSUME UserAssumption ==
    /\ {Root, DirOwner} \cup ServeUser \cup StopUser \cup OtherUser \subseteq User
    /\ NoUser \notin User

VARIABLES
    pid_file,   \* the pid file: NoFile, Empty or the pid in it
    pid_owner,  \* the user who created it
    proc,       \* the process of each pid
    serve,      \* the `serve` commands
    stop        \* the `stop` commands

vars == <<pid_file, pid_owner, proc, serve, stop>>

\* A process: its user, where a daemon is, the config path it was started with,
\* the existing_pid it read from the pid file, whether SIGTERM has reached its
\* handler, and whether it was started as `serve --foreground`.
Free == [at |-> "free", user |-> NoUser, config |-> NoPid, existing |-> NoFile,
         term |-> FALSE, byhand |-> FALSE]
Other(u) == [Free EXCEPT !.at = "other", !.user = u]

\* A command that does not run.
NoServe == [at |-> "idle", user |-> NoUser, config |-> NoPid, existing |-> NoFile,
            child |-> NoPid]
NoStop == [at |-> "idle", user |-> NoUser, config |-> NoPid, target |-> NoPid]

Early == {"read", "check", "truncate", "write", "start"}
Listening == {"unregistered", "serving"}
Ending == {"remove", "exit"}

IsDaemon(p) == proc[p].at \in Early \cup Listening \cup Ending

-----------------------------------------------------------------------------
(* What the kernel permits: a user is the owner of a process or a file, or *)
(* root.  Files are created with the mode 644: everybody can read them.    *)

MayActFor(u, owner) == u = owner \/ u = Root

\* kill(pid, None).is_ok(): EPERM is an error too.
ProcessIsRunning(u, p) == proc[p].at # "free" /\ MayActFor(u, proc[p].user)

MayWrite(u) == MayActFor(u, IF pid_file = NoFile THEN DirOwner ELSE pid_owner)

\* The first half of fs::write, which creates a file that is missing.
Truncate(u) ==
    /\ pid_file' = Empty
    /\ pid_owner' = IF pid_file = NoFile THEN u ELSE pid_owner

\* The second half.  What is written to a file that was removed since is lost; one
\* that was removed and created again counts as the same.
Write(p) ==
    /\ pid_file' = IF pid_file = NoFile THEN NoFile ELSE p
    /\ UNCHANGED pid_owner

\* fs::remove_file, whose errors nobody looks at.
Remove(u) ==
    IF MayActFor(u, DirOwner)
    THEN pid_file' = NoFile /\ pid_owner' = NoUser
    ELSE UNCHANGED <<pid_file, pid_owner>>

-----------------------------------------------------------------------------
(* Commands are started.                                                   *)

\* Nothing runs that its user still waits for.
Idle ==
    /\ \A l \in Launcher : serve[l] = NoServe
    /\ \A s \in Stopper : stop[s] = NoStop
    /\ \A p \in Pid : proc[p].byhand => proc[p].at \notin Early

MayStart == OneAtATime => Idle

\* A fresh process p of user u that runs the daemon for config path c.
Fork(p, u, c, byhand) ==
    /\ proc[p] = Free
    /\ proc' = [proc EXCEPT ![p] = [at |-> "read", user |-> u, config |-> c,
                                    existing |-> NoFile, term |-> FALSE, byhand |-> byhand]]

\* The process p is gone: its sockets are closed and its pid is free.
Die(p) == proc' = [proc EXCEPT ![p] = Free]

ServeForeground(p, u, c) ==
    /\ ByHand
    /\ MayStart
    /\ Fork(p, u, c, TRUE)
    /\ UNCHANGED <<pid_file, pid_owner, serve, stop>>

Serve(l, u, c) ==
    /\ MayStart
    /\ serve[l] = NoServe
    /\ serve' = [serve EXCEPT ![l].at = "read", ![l].user = u, ![l].config = c]
    /\ UNCHANGED <<pid_file, pid_owner, proc, stop>>

Stop(s, u, c) ==
    /\ MayStart
    /\ stop[s] = NoStop
    /\ stop' = [stop EXCEPT ![s].at = "read", ![s].user = u, ![s].config = c]
    /\ UNCHANGED <<pid_file, pid_owner, proc, serve>>

-----------------------------------------------------------------------------
(* `serve`: ensure_daemon_not_running and run_daemon.                      *)

ServeReturns(l) == serve' = [serve EXCEPT ![l] = NoServe]

\* An empty file is no pid: the command fails.
EnsureRead(l) ==
    /\ serve[l].at = "read"
    /\ CASE pid_file = NoFile -> serve' = [serve EXCEPT ![l].at = "spawn"]
         [] pid_file = Empty  -> ServeReturns(l)
         [] OTHER -> serve' = [serve EXCEPT ![l].at = "check", ![l].existing = pid_file]
    /\ UNCHANGED <<pid_file, pid_owner, proc, stop>>

\* Mutant: the file is taken for stale without asking whether its pid runs.
EnsureCheckSkipped(l) ==
    /\ serve[l].at = "check"
    /\ serve' = [serve EXCEPT ![l].at = "unlink"]
    /\ UNCHANGED <<pid_file, pid_owner, proc, stop>>

EnsureCheck(l) ==
    /\ serve[l].at = "check"
    /\ IF ProcessIsRunning(serve[l].user, serve[l].existing)
       THEN ServeReturns(l)
       ELSE serve' = [serve EXCEPT ![l].at = "unlink"]
    /\ UNCHANGED <<pid_file, pid_owner, proc, stop>>

EnsureUnlink(l) ==
    /\ serve[l].at = "unlink"
    /\ Remove(serve[l].user)
    /\ serve' = [serve EXCEPT ![l].at = "spawn"]
    /\ UNCHANGED <<proc, stop>>

Spawn(l, p) ==
    /\ serve[l].at = "spawn"
    /\ Fork(p, serve[l].user, serve[l].config, FALSE)
    /\ serve' = [serve EXCEPT ![l].at = "truncate", ![l].child = p]
    /\ UNCHANGED <<pid_file, pid_owner, stop>>

\* Mutant: the command is interrupted between truncation and write.
LauncherTruncateOnly(l) ==
    /\ serve[l].at = "truncate"
    /\ Truncate(serve[l].user)
    /\ ServeReturns(l)
    /\ UNCHANGED <<proc, stop>>

\* A file that it may not write ends the command; the child goes on.
LauncherTruncate(l) ==
    /\ serve[l].at = "truncate"
    /\ IF MayWrite(serve[l].user)
       THEN Truncate(serve[l].user) /\ serve' = [serve EXCEPT ![l].at = "write"]
       ELSE ServeReturns(l) /\ UNCHANGED <<pid_file, pid_owner>>
    /\ UNCHANGED <<proc, stop>>

LauncherWrite(l) ==
    /\ serve[l].at = "write"
    /\ Write(serve[l].child)
    /\ ServeReturns(l)
    /\ UNCHANGED <<proc, stop>>

-----------------------------------------------------------------------------
(* The daemon: run_foreground_until_shutdown.                              *)

Goto(p, where) == proc' = [proc EXCEPT ![p].at = where]

\* Without a pid file there is nothing to check.
DaemonRead(p) ==
    /\ proc[p].at = "read"
    /\ IF pid_file = NoFile
       THEN Goto(p, "truncate")
       ELSE proc' = [proc EXCEPT ![p].at = "check", ![p].existing = pid_file]
    /\ UNCHANGED <<pid_file, pid_owner, serve, stop>>

\* An empty file parses to pid 0 by unwrap_or_default, and kill(0, None), which
\* asks for the caller's own process group, succeeds: the daemon gives up.
Occupied(p) ==
    \/ proc[p].existing = Empty
    \/ /\ proc[p].existing \in Pid \ {p}
       /\ ProcessIsRunning(proc[p].user, proc[p].existing)

DaemonCheck(p) ==
    /\ proc[p].at = "check"
    /\ IF Occupied(p) THEN Die(p) ELSE Goto(p, "truncate")
    /\ UNCHANGED <<pid_file, pid_owner, serve, stop>>

DaemonTruncate(p) ==
    /\ proc[p].at = "truncate"
    /\ IF MayWrite(proc[p].user)
       THEN Truncate(proc[p].user) /\ Goto(p, "write")
       ELSE Die(p) /\ UNCHANGED <<pid_file, pid_owner>>
    /\ UNCHANGED <<serve, stop>>

DaemonWrite(p) ==
    /\ proc[p].at = "write"
    /\ Write(p)
    /\ Goto(p, "start")
    /\ UNCHANGED <<serve, stop>>

\* Another daemon listens on the ports of p's config.
PortsTaken(p) ==
    \E q \in Pid \ {p} : proc[q].at \in Listening /\ proc[q].config = proc[p].config

StartListeners(p) ==
    /\ proc[p].at = "start"
    /\ ~PortsTaken(p)
    /\ Goto(p, "unregistered")
    /\ UNCHANGED <<pid_file, pid_owner, serve, stop>>

\* The error ends the process, and the pid file stays.
StartListenersFails(p) ==
    /\ proc[p].at = "start"
    /\ PortsTaken(p) \/ StartsFail
    /\ Die(p)
    /\ UNCHANGED <<pid_file, pid_owner, serve, stop>>

\* The first poll of the shutdown future installs the handler of SIGTERM.
RegisterHandler(p) ==
    /\ proc[p].at = "unregistered"
    /\ Goto(p, "serving")
    /\ UNCHANGED <<pid_file, pid_owner, serve, stop>>

\* Mutant: the signal is consumed but the loop goes on.
ShutdownSwallowed(p) ==
    /\ proc[p].at = "serving"
    /\ proc[p].term
    /\ proc' = [proc EXCEPT ![p].term = FALSE]
    /\ UNCHANGED <<pid_file, pid_owner, serve, stop>>

\* The loop ends and the listeners are stopped.
Shutdown(p) ==
    /\ proc[p].at = "serving"
    /\ proc[p].term
    /\ Goto(p, "remove")
    /\ UNCHANGED <<pid_file, pid_owner, serve, stop>>

RemovePidFile(p) ==
    /\ proc[p].at = "remove"
    /\ Remove(proc[p].user)
    /\ Goto(p, "exit")
    /\ UNCHANGED <<serve, stop>>

Exit(p) ==
    /\ proc[p].at = "exit"
    /\ Die(p)
    /\ UNCHANGED <<pid_file, pid_owner, serve, stop>>

-----------------------------------------------------------------------------
(* `stop`: stop_daemon.                                                    *)

StopReturns(s) == stop' = [stop EXCEPT ![s] = NoStop]

\* Mutant: what the file holds is taken for a pid.
StopReadUnchecked(s) ==
    /\ stop[s].at = "read"
    /\ IF pid_file # NoFile
       THEN stop' = [stop EXCEPT ![s].at = "kill", ![s].target = pid_file]
       ELSE StopReturns(s)
    /\ UNCHANGED <<pid_file, pid_owner, proc, serve>>

\* No file, or no pid in it: the command fails.
StopRead(s) ==
    /\ stop[s].at = "read"
    /\ IF pid_file \in Pid
       THEN stop' = [stop EXCEPT ![s].at = "kill", ![s].target = pid_file]
       ELSE StopReturns(s)
    /\ UNCHANGED <<pid_file, pid_owner, proc, serve>>

\* SIGTERM for p.  A process that has no handler installed dies of it.
Signal(p) ==
    IF proc[p].at \in {"serving"} \cup Ending
    THEN proc' = [proc EXCEPT ![p].term = TRUE]
    ELSE Die(p)

\* Mutant: `stop` removes the file of the daemon it signalled.
StopKillUnlinks(s) ==
    /\ stop[s].at = "kill"
    /\ stop' = [stop EXCEPT ![s].at = "unlink"]
    /\ IF ProcessIsRunning(stop[s].user, stop[s].target)
       THEN Signal(stop[s].target)
       ELSE UNCHANGED proc
    /\ UNCHANGED <<pid_file, pid_owner, serve>>

\* ESRCH goes on to the removal of the file, EPERM ends the command.
StopKill(s) ==
    /\ stop[s].at = "kill"
    /\ CASE proc[stop[s].target] = Free ->
                stop' = [stop EXCEPT ![s].at = "unlink"] /\ UNCHANGED proc
         [] ProcessIsRunning(stop[s].user, stop[s].target) ->
                Signal(stop[s].target) /\ StopReturns(s)
         [] OTHER -> StopReturns(s) /\ UNCHANGED proc
    /\ UNCHANGED <<pid_file, pid_owner, serve>>

\* The process is gone, so its file goes too, and the command fails.
StopUnlink(s) ==
    /\ stop[s].at = "unlink"
    /\ Remove(stop[s].user)
    /\ StopReturns(s)
    /\ UNCHANGED <<proc, serve>>

-----------------------------------------------------------------------------
(* The rest of the host.                                                   *)

\* SIGKILL, the OOM killer, a panic: at any step, and nothing is cleaned up.
Crash(p) ==
    /\ Crashes
    /\ IsDaemon(p)
    /\ Die(p)
    /\ UNCHANGED <<pid_file, pid_owner, serve, stop>>

OtherStarts(p, u) ==
    /\ proc[p] = Free
    /\ proc' = [proc EXCEPT ![p] = Other(u)]
    /\ UNCHANGED <<pid_file, pid_owner, serve, stop>>

OtherExits(p) ==
    /\ proc[p].at = "other"
    /\ Die(p)
    /\ UNCHANGED <<pid_file, pid_owner, serve, stop>>

-----------------------------------------------------------------------------
Init ==
    /\ pid_file = NoFile
    /\ pid_owner = NoUser
    /\ proc = [p \in Pid |-> Free]
    /\ serve = [l \in Launcher |-> NoServe]
    /\ stop = [s \in Stopper |-> NoStop]

DaemonStep(p) ==
    \/ DaemonRead(p)
    \/ DaemonCheck(p)
    \/ DaemonTruncate(p)
    \/ DaemonWrite(p)
    \/ StartListeners(p)
    \/ StartListenersFails(p)
    \/ RegisterHandler(p)
    \/ Shutdown(p)
    \/ RemovePidFile(p)
    \/ Exit(p)

LauncherStep(l) ==
    \/ EnsureRead(l)
    \/ EnsureCheck(l)
    \/ EnsureUnlink(l)
    \/ \E p \in Pid : Spawn(l, p)
    \/ LauncherTruncate(l)
    \/ LauncherWrite(l)

StopperStep(s) ==
    \/ StopRead(s)
    \/ StopKill(s)
    \/ StopUnlink(s)

Commands ==
    \/ \E p \in Pid, u \in ServeUser, c \in Config : ServeForeground(p, u, c)
    \/ \E l \in Launcher, u \in ServeUser, c \in Config : Serve(l, u, c)
    \/ \E s \in Stopper, u \in StopUser, c \in Config : Stop(s, u, c)

Host == \E p \in Pid : Crash(p) \/ (\E u \in OtherUser : OtherStarts(p, u)) \/ OtherExits(p)

Next ==
    \/ \E p \in Pid : DaemonStep(p)
    \/ \E l \in Launcher : LauncherStep(l)
    \/ \E s \in Stopper : StopperStep(s)
    \/ Commands
    \/ Host

\* Every process that can run does.
Fairness ==
    /\ \A p \in Pid : WF_vars(DaemonStep(p))
    /\ \A l \in Launcher : WF_vars(LauncherStep(l))
    /\ \A s \in Stopper : WF_vars(StopperStep(s))

Spec == Init /\ [][Next]_vars /\ Fairness

-----------------------------------------------------------------------------
(* Properties                                                              *)

Process == [at : {"free", "other"} \cup Early \cup Listening \cup Ending,
            user : User \cup {NoUser},
            config : Config \cup {NoPid},
            existing : Pid \cup {NoFile, Empty},
            term : BOOLEAN,
            byhand : BOOLEAN]
ServeCommand == [at : {"idle", "read", "check", "unlink", "spawn", "truncate", "write"},
                 user : User \cup {NoUser},
                 config : Config \cup {NoPid},
                 existing : Pid \cup {NoFile},
                 child : Pid \cup {NoPid}]
StopCommand == [at : {"idle", "read", "kill", "unlink"},
                user : User \cup {NoUser},
                config : Config \cup {NoPid},
                target : Pid \cup {NoPid}]

\* Every variable keeps its type.
TypeOK ==
    /\ pid_file \in Pid \cup {NoFile, Empty}
    /\ pid_owner \in User \cup {NoUser}
    /\ proc \in [Pid -> Process]
    /\ serve \in [Launcher -> ServeCommand]
    /\ stop \in [Stopper -> StopCommand]

\* A daemon has found no other and is about to serve, serves, or ends.
Claims(p) == proc[p].at \in {"truncate", "write", "start", "remove"} \cup Listening

\* What the properties below take for granted: one user runs the daemons and can
\* write the directory, and only that user or root stops them.  StopDenied.cfg
\* shows what happens otherwise.
OneServeUser ==
    /\ \A u \in ServeUser \cup StopUser, v \in ServeUser : MayActFor(u, v)
    /\ \A v \in ServeUser : MayActFor(v, DirOwner)

\* Two daemons of one directory never pass the check of the pid file together,
\* though crashes leave stale and torn files behind and pids are reused, by
\* processes the user may signal and by others.
\* (ensure_daemon_not_running, run_foreground_until_shutdown)
OneDaemon == \A p, q \in Pid : Claims(p) /\ Claims(q) => p = q

\* When no command is under way, a daemon that serves is the one the pid file
\* names, so that `stop` reaches it.
\* (run_daemon and run_foreground_until_shutdown both write the file)
Tracked ==
    \A p \in Pid :
        Idle /\ proc[p].at = "serving" /\ ~proc[p].term => pid_file = p

\* A pid file that names a daemon that listens is removed by nobody: not by the
\* cleaning up of a stale file, in `serve` or in `stop`.
\* (ensure_daemon_not_running, stop_daemon)
NoLiveFileRemoved ==
    [][\A p \in Pid :
         pid_file = p /\ proc[p].at \in Listening => pid_file' # NoFile]_vars

\* A daemon that got SIGTERM ends, and leaves its pid free.
\* (wait_for_shutdown_signal, run_foreground_until_shutdown)
SignalledEnds == \A p \in Pid : proc[p].term ~> proc[p] = Free

\* What the README says of `serve`, that it "starts a background daemon and
\* writes a pid file": the process it forks serves in the end.
ServeStarts == \A l \in Launcher, p \in Pid : serve[l].child = p ~> proc[p].at = "serving"

\* What the README says of `stop`, that it "stops the daemon started from the
\* same config path": a `stop` that returns while such a daemon listens, and its
\* user may signal it, has stopped it: it is gone, or its handler has the signal.
\* (stop_daemon, and everybody who removes or overwrites the file it reads)
StopReaches ==
    [][\A s \in Stopper, p \in Pid :
          (/\ stop[s] # NoStop /\ stop'[s] = NoStop
           /\ proc[p].at \in Listening
           /\ proc[p].config = stop[s].config
           /\ MayActFor(stop[s].user, proc[p].user))
             => proc'[p] = Free \/ proc'[p].term]_vars
=============================================================================
