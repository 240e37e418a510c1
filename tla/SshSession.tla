----------------------------- MODULE SshSession -----------------------------
(***************************************************************************)
(* One SSH connection of a mapped port (PortHandler and the functions it   *)
(* calls in src/src/ssh_server.rs): the channels it holds, the requests of *)
(* the client, and the tasks that channels are handed over to.             *)
(*                                                                         *)
(* The session calls one handler at a time, in the order of the requests.  *)
(* A handler that asks docker is awaited: `awaiting` is what for, and       *)
(* until it returns no request of any channel is taken up.  A handler that *)
(* returns an error ends the connection.  A task runs by itself; it and    *)
(* the session share nothing but the channel.                              *)
(***************************************************************************)
EXTENDS Naturals, Sequences

CONSTANTS
    Channel,      \* channels of the connection
    Key,          \* keys clients have
    Terminal,     \* terminals (PtySpec) a client asks for
    Shell,        \* shells, those of DefaultShells among them
    Setting,      \* what a port is set up with: whether authorized_keys is
                  \* configured and what its lines are, the shells of its
                  \* container and the shell of its mapping
    MaxQueue,     \* bound: requests on their way
    MaxRequests   \* bound: requests of a connection

\* A key as to_openssh writes it: with its comment, if it has one.  The key of
\* a client has none.
Line == [key : Key, comment : BOOLEAN]

\* What resolve_container_shell tries without a configured shell.
DefaultShells == <<"/bin/bash", "/bin/sh", "sh">>

ASSUME SettingAssumption ==
    /\ DefaultShells \in Seq(Shell)
    /\ Setting \subseteq [configured : BOOLEAN, lines : SUBSET Line,
                          shells : SUBSET Shell, shell : Shell \cup {"none"}]
ASSUME BoundAssumption == MaxQueue \in Nat /\ MaxRequests \in Nat
ASSUME NoneAssumption ==
    "none" \notin Terminal \cup Shell /\ "none" \notin Key

Opening == {"session", "direct", "direct_port_too_big"}
Program == {"shell", "exec", "dial_stdio", "sftp"}
Request ==
    [kind : Opening \cup Program \cup {"env", "other_subsystem"}, channel : Channel,
     term : {"none"}]
    \cup [kind : {"pty"}, channel : Channel, term : Terminal]

VARIABLES
    setting,     \* the setting of the port
    container_up,\* docker can start a process in the container: it runs
    interrupted, \* channels for which a shell was looked for when it started
    \* the client
    connected,   \* it has not closed the connection
    user,        \* what it authenticated with
    view,        \* view[c]: what it was told of channel c
    term,        \* term[c]: the last terminal it was granted
    requests,    \* requests it has made
    \* the session
    phase,       \* "auth", "open" or "closed"
    queue,       \* requests not yet answered, the first one in its handler
    answers,     \* requests answered
    channels,    \* PortHandler::channels: the channels held
    pty,         \* pty[c]: ChannelState::pty of a held channel
    awaiting,    \* what the handler of the first request awaits
    \* the tasks
    tasks,       \* tasks[c]: the tasks started for channel c
    trying       \* trying[c]: shells still to be tried for channel c

clientVars == <<connected, user, view, term, requests>>
sessionVars == <<phase, queue, answers, channels, pty, awaiting>>
taskVars == <<tasks, trying>>
\* What no step of the session or of a task changes.
outside == <<setting, container_up, interrupted, connected, user, requests>>
containerVars == <<container_up, interrupted>>
vars == <<setting, containerVars, clientVars, sessionVars, taskVars>>

-----------------------------------------------------------------------------
(* The container and the network.                                          *)

ContainerStops ==
    /\ container_up
    /\ container_up' = FALSE
    /\ UNCHANGED <<setting, interrupted, clientVars, sessionVars, taskVars>>

\* A shell is being looked for on channel c.
Looking(c) ==
    \/ awaiting = "shell" /\ Head(queue).channel = c
    \/ \E i \in DOMAIN tasks[c] : tasks[c][i].stage = "resolve"

\* It starts again, perhaps between two probes of a list of shells.
ContainerStarts ==
    /\ ~container_up
    /\ container_up' = TRUE
    /\ interrupted' = interrupted \cup {c \in Channel : Looking(c)}
    /\ UNCHANGED <<setting, clientVars, sessionVars, taskVars>>

Disconnect ==
    /\ connected
    /\ connected' = FALSE
    /\ UNCHANGED <<setting, containerVars, user, view, term, requests, sessionVars, taskVars>>

-----------------------------------------------------------------------------
(* Authentication.                                                         *)

\* Mutant: a file without keys is taken for no file.
InsecureIfEmpty == ~setting.configured \/ setting.lines = {}

\* Authz::load: without a file everybody is let in; one without keys lets
\* nobody in.
InsecureAllowNone == ~setting.configured

\* Keys are compared as they are written: a line with a comment matches none.
Allows(k) == InsecureAllowNone \/ [key |-> k, comment |-> FALSE] \in setting.lines

Admit(who) ==
    /\ phase = "auth" /\ connected
    /\ phase' = "open"
    /\ user' = who
    /\ UNCHANGED <<setting, containerVars, connected, view, term, requests,
                   queue, answers, channels, pty, awaiting, taskVars>>

AuthNone == InsecureAllowNone /\ Admit("none")

AuthPublicKey(k) == Allows(k) /\ Admit(k)

-----------------------------------------------------------------------------
(* The client.  It opens a channel once, asks for things on a channel only *)
(* when it was told that it is open, and does not have to wait for an      *)
(* answer before it asks again.                                            *)

Told == {"open", "running", "failed"}

Ask(r) ==
    /\ phase = "open" /\ connected
    /\ requests < MaxRequests /\ Len(queue) < MaxQueue
    /\ IF r.kind \in Opening
       THEN view[r.channel] = "new" /\ view' = [view EXCEPT ![r.channel] = "opening"]
       ELSE view[r.channel] \in Told /\ UNCHANGED view
    /\ queue' = Append(queue, r)
    /\ requests' = requests + 1
    /\ UNCHANGED <<setting, containerVars, connected, user, term,
                   phase, answers, channels, pty, awaiting, taskVars>>

\* It closes a channel.  The session has no handler for that: a channel it
\* holds stays in the map.
CloseChannel(c) ==
    /\ phase = "open" /\ connected
    /\ view[c] \in Told
    /\ view' = [view EXCEPT ![c] = "closed"]
    /\ UNCHANGED <<setting, containerVars, connected, user, term, requests,
                   sessionVars, taskVars>>

-----------------------------------------------------------------------------
(* The session.                                                            *)

Handled == Head(queue)

\* The handler of a request of one of these kinds is called.
TakesUp(kinds) ==
    /\ phase = "open" /\ awaiting = "none"
    /\ queue # <<>> /\ Handled.kind \in kinds

\* The handler returns and the client is told; `seen` is what that makes of
\* the channel.
Answer(seen) ==
    /\ queue' = Tail(queue)
    /\ answers' = answers + 1
    /\ view' = IF view[Handled.channel] = "closed" THEN view
               ELSE [view EXCEPT ![Handled.channel] = seen]

\* The handler returns an error: the connection ends, with all its channels.
EndConnection ==
    /\ phase' = "closed"
    /\ queue' = <<>>
    /\ channels' = {}
    /\ pty' = [c \in Channel |-> "none"]
    /\ awaiting' = "none"
    /\ UNCHANGED <<outside, view, term, answers, taskVars>>

\* The channel is handed over to a task.
Spawn(c, kind, terminal, stage) ==
    tasks' = [tasks EXCEPT ![c] =
                  Append(@, [kind |-> kind, term |-> terminal, stage |-> stage])]

\* HashMap::remove: the state of the channel goes with it.
Remove(c) ==
    /\ channels' = channels \ {c}
    /\ pty' = [pty EXCEPT ![c] = "none"]

\* Mutant: a configured shell is only the first to be tried.
CandidatesAll ==
    (IF setting.shell = "none" THEN <<>> ELSE <<setting.shell>>) \o DefaultShells

\* resolve_container_shell: only the configured shell, or the first of the
\* default ones that works.
Candidates == IF setting.shell = "none" THEN DefaultShells ELSE <<setting.shell>>

ChannelOpenSession ==
    /\ TakesUp({"session"})
    /\ channels' = channels \cup {Handled.channel}
    /\ pty' = [pty EXCEPT ![Handled.channel] = "none"]
    /\ Answer("open")
    /\ UNCHANGED <<outside, term, phase, awaiting, taskVars>>

\* A port that is no u16 is refused, any other one is looked up and connected.
ChannelOpenDirectTcpip ==
    /\ TakesUp({"direct", "direct_port_too_big"})
    /\ IF Handled.kind = "direct"
       THEN awaiting' = "look_up" /\ UNCHANGED <<queue, answers, view>>
       ELSE Answer("refused") /\ UNCHANGED awaiting
    /\ UNCHANGED <<outside, term, phase, channels, pty, taskVars>>

\* Mutant: the first terminal is kept (entry(channel).or_insert(pty)).
PtyRequestFirst ==
    /\ TakesUp({"pty"})
    /\ IF Handled.channel \notin channels THEN EndConnection
       ELSE /\ pty' = [pty EXCEPT ![Handled.channel] = IF @ = "none" THEN Handled.term ELSE @]
            /\ Answer(view[Handled.channel])
            /\ term' = [term EXCEPT ![Handled.channel] = Handled.term]
            /\ UNCHANGED <<outside, phase, channels, awaiting, taskVars>>

PtyRequest ==
    /\ TakesUp({"pty"})
    /\ IF Handled.channel \notin channels THEN EndConnection
       ELSE /\ pty' = [pty EXCEPT ![Handled.channel] = Handled.term]
            /\ Answer(view[Handled.channel])
            /\ term' = [term EXCEPT ![Handled.channel] = Handled.term]
            /\ UNCHANGED <<outside, phase, channels, awaiting, taskVars>>

\* Granted and forgotten, for a channel that is held or not.
EnvRequest ==
    /\ TakesUp({"env"})
    /\ Answer(view[Handled.channel])
    /\ UNCHANGED <<outside, term, phase, channels, pty, awaiting, taskVars>>

\* A task that finds a shell before it starts the process.  The client hears
\* of success before that.
HandToShell ==
    /\ Answer("running")
    /\ Spawn(Handled.channel, Handled.kind, pty[Handled.channel], "resolve")
    /\ trying' = [trying EXCEPT ![Handled.channel] = Candidates]

\* Mutant: the channel is read instead of removed.
ShellRequestGet ==
    /\ TakesUp({"shell"})
    /\ IF Handled.channel \notin channels THEN EndConnection
       ELSE /\ HandToShell
            /\ UNCHANGED <<outside, term, phase, channels, pty, awaiting>>

ShellRequest ==
    /\ TakesUp({"shell"})
    /\ IF Handled.channel \notin channels THEN EndConnection
       ELSE /\ Remove(Handled.channel)
            /\ HandToShell
            /\ UNCHANGED <<outside, term, phase, awaiting>>

\* A command goes to a task like a shell.  For the docker API the handler
\* keeps the channel while it resolves the container.
ExecRequest ==
    /\ TakesUp({"exec", "dial_stdio"})
    /\ IF Handled.channel \notin channels THEN EndConnection
       ELSE /\ Remove(Handled.channel)
            /\ IF Handled.kind = "exec" THEN HandToShell /\ UNCHANGED awaiting
               ELSE awaiting' = "inspect"
                    /\ UNCHANGED <<queue, answers, view, taskVars>>
            /\ UNCHANGED <<outside, term, phase>>

\* Mutant: the channel is removed before the name is looked at.
SubsystemRequestRemoves ==
    /\ TakesUp({"other_subsystem", "sftp"})
    /\ IF Handled.channel \notin channels THEN EndConnection
       ELSE /\ Remove(Handled.channel)
            /\ IF Handled.kind = "sftp"
               THEN /\ awaiting' = "shell"
                    /\ trying' = [trying EXCEPT ![Handled.channel] = Candidates]
                    /\ UNCHANGED <<queue, answers, view>>
               ELSE Answer(view[Handled.channel]) /\ UNCHANGED <<awaiting, trying>>
            /\ UNCHANGED <<outside, term, phase, tasks>>

\* Another subsystem is refused and the channel stays; for SFTP the handler
\* keeps it while it looks for a shell and a server.
SubsystemRequest ==
    \/ /\ TakesUp({"other_subsystem"})
       /\ Answer(view[Handled.channel])
       /\ UNCHANGED <<outside, term, phase, channels, pty, awaiting, taskVars>>
    \/ /\ TakesUp({"sftp"})
       /\ IF Handled.channel \notin channels THEN EndConnection
          ELSE /\ Remove(Handled.channel)
               /\ awaiting' = "shell"
               /\ trying' = [trying EXCEPT ![Handled.channel] = Candidates]
               /\ UNCHANGED <<outside, view, term, phase, queue, answers, tasks>>

-----------------------------------------------------------------------------
(* A handler that awaits docker goes on with what it is told.              *)

\* The handler gives the channel to a task.
HandOver(kind, stage) ==
    /\ awaiting' = "none"
    /\ Answer("running")
    /\ Spawn(Handled.channel, kind, "none", stage)
    /\ UNCHANGED <<outside, term, phase, channels, pty, trying>>

\* Mutant: the refusal is told twice.
RefuseTwice(seen) ==
    /\ awaiting' = "none"
    /\ queue' = Tail(queue)
    /\ answers' = answers + 2
    /\ view' = [view EXCEPT ![Handled.channel] = seen]
    /\ UNCHANGED <<outside, term, phase, channels, pty, taskVars>>

Refuse(seen) ==
    /\ awaiting' = "none"
    /\ Answer(seen)
    /\ UNCHANGED <<outside, term, phase, channels, pty, taskVars>>

\* Mutant: the handler waits for a container that runs.
LookedUpWaits ==
    /\ awaiting = "look_up"
    /\ container_up
    /\ awaiting' = "connect"
    /\ UNCHANGED <<outside, view, term,
                   phase, queue, answers, channels, pty, taskVars>>

\* running_container_pid: docker may be out of reach at any time, and a
\* container that is not running has no pid.
LookedUp ==
    /\ awaiting = "look_up"
    /\ \/ /\ container_up
          /\ awaiting' = "connect"
          /\ UNCHANGED <<outside, view, term,
                         phase, queue, answers, channels, pty, taskVars>>
       \/ Refuse("refused")

\* connect_in_network_namespace, in a thread.
Connected ==
    /\ awaiting = "connect"
    /\ HandOver("bridge", "both") \/ Refuse("refused")

\* ProxyTarget::resolve: the container need not run, but must exist.
Resolved ==
    /\ awaiting = "inspect"
    /\ HandOver("dial_stdio", "running") \/ EndConnection

\* validate_shell_candidate: what `docker exec <shell> -c "exit 0"` says.
Works(shell) == container_up /\ shell \in setting.shells

\* The next shell is tried for channel c.
Probed(c) ==
    /\ trying[c] # <<>> /\ ~Works(Head(trying[c]))
    /\ trying' = [trying EXCEPT ![c] = Tail(@)]

\* Mutant: the failure is told to the log only.
SftpShellUnanswered ==
    /\ awaiting = "shell"
    /\ LET c == Handled.channel IN
       \/ /\ Probed(c)
          /\ UNCHANGED <<outside, view, term, sessionVars, tasks>>
       \/ /\ trying[c] # <<>> /\ Works(Head(trying[c]))
          /\ awaiting' = "server"
          /\ UNCHANGED <<outside, view, term,
                         phase, queue, answers, channels, pty, taskVars>>
       \/ /\ trying[c] = <<>>
          /\ awaiting' = "none" /\ queue' = Tail(queue)
          /\ UNCHANGED <<outside, view, term, phase, answers, channels, pty, taskVars>>

\* resolve_container_sftp_server, first part.  The channel of a request that
\* fails is in nobody's hands any more.
SftpShell ==
    /\ awaiting = "shell"
    /\ LET c == Handled.channel IN
       \/ /\ Probed(c)
          /\ UNCHANGED <<outside, view, term, sessionVars, tasks>>
       \/ /\ trying[c] # <<>> /\ Works(Head(trying[c]))
          /\ awaiting' = "server"
          /\ UNCHANGED <<outside, view, term,
                         phase, queue, answers, channels, pty, taskVars>>
       \/ trying[c] = <<>> /\ Refuse("failed")

\* Second part: the shell looks for an sftp-server, and finds one or none.
SftpServer ==
    /\ awaiting = "server"
    /\ (container_up /\ HandOver("sftp", "running")) \/ Refuse("failed")

\* A client that is gone is noticed when no handler runs.
SessionEnds ==
    /\ phase # "closed" /\ ~connected /\ awaiting = "none"
    /\ EndConnection

-----------------------------------------------------------------------------
(* The tasks.                                                              *)

Stage(c, i, stage) == tasks' = [tasks EXCEPT ![c][i].stage = stage]

\* Mutant: a task that finds no shell starts over.
TaskShellRetries(c, i) ==
    /\ tasks[c][i].stage = "resolve"
    /\ \/ Probed(c) /\ UNCHANGED tasks
       \/ /\ trying[c] # <<>> /\ Works(Head(trying[c]))
          /\ Stage(c, i, "running") /\ UNCHANGED trying
       \/ trying[c] = <<>> /\ trying' = [trying EXCEPT ![c] = Candidates] /\ UNCHANGED tasks
    /\ UNCHANGED <<outside, view, term, sessionVars>>

\* spawn_container_shell and spawn_container_exec: the first shell that works
\* is started, and a task that finds none ends without a word to the client.
TaskShell(c, i) ==
    /\ tasks[c][i].stage = "resolve"
    /\ \/ Probed(c) /\ UNCHANGED tasks
       \/ /\ trying[c] # <<>> /\ Works(Head(trying[c]))
          /\ Stage(c, i, "running") /\ UNCHANGED trying
       \/ trying[c] = <<>> /\ Stage(c, i, "over") /\ UNCHANGED trying
    /\ UNCHANGED <<outside, view, term, sessionVars>>

\* A process that is attached, or a proxy, ends: by itself, because the client
\* is done, or because the connection is.
TaskEnds(c, i) ==
    /\ tasks[c][i].stage = "running"
    /\ Stage(c, i, "over")
    /\ UNCHANGED <<outside, view, term, sessionVars, trying>>

\* bridge_direct_tcpip copies both ways until both ways have ended.
ClientEnds(c, i) ==
    /\ tasks[c][i].stage \in {"both", "to_upstream"}
    /\ Stage(c, i, IF tasks[c][i].stage = "both" THEN "to_client" ELSE "over")
    /\ UNCHANGED <<outside, view, term, sessionVars, trying>>

UpstreamEnds(c, i) ==
    /\ tasks[c][i].stage \in {"both", "to_client"}
    /\ Stage(c, i, IF tasks[c][i].stage = "both" THEN "to_upstream" ELSE "over")
    /\ UNCHANGED <<outside, view, term, sessionVars, trying>>

\* What the upstream sends has nowhere to go, or the connection is reset.
BridgeFails(c, i) ==
    /\ tasks[c][i].stage \in {"both", "to_client", "to_upstream"}
    /\ Stage(c, i, "over")
    /\ UNCHANGED <<outside, view, term, sessionVars, trying>>

-----------------------------------------------------------------------------
Init ==
    /\ setting \in Setting
    /\ container_up = TRUE
    /\ interrupted = {}
    /\ connected = TRUE
    /\ user = "none"
    /\ view = [c \in Channel |-> "new"]
    /\ term = [c \in Channel |-> "none"]
    /\ requests = 0
    /\ phase = "auth"
    /\ queue = <<>>
    /\ answers = 0
    /\ channels = {}
    /\ pty = [c \in Channel |-> "none"]
    /\ awaiting = "none"
    /\ tasks = [c \in Channel |-> <<>>]
    /\ trying = [c \in Channel |-> <<>>]

Handler ==
    \/ ChannelOpenSession \/ ChannelOpenDirectTcpip
    \/ PtyRequest \/ EnvRequest \/ ShellRequest \/ ExecRequest \/ SubsystemRequest

DockerAnswers == LookedUp \/ Connected \/ Resolved \/ SftpShell \/ SftpServer

Next ==
    \/ ContainerStops \/ ContainerStarts \/ Disconnect
    \/ AuthNone \/ \E k \in Key : AuthPublicKey(k)
    \/ \E r \in Request : Ask(r)
    \/ \E c \in Channel : CloseChannel(c)
    \/ Handler
    \/ DockerAnswers
    \/ SessionEnds
    \/ \E c \in Channel : \E i \in DOMAIN tasks[c] :
           TaskShell(c, i) \/ TaskEnds(c, i) \/ ClientEnds(c, i)
               \/ UpstreamEnds(c, i) \/ BridgeFails(c, i)

TaskStep(c, i) == TaskShell(c, i) \/ (phase = "closed" /\ ClientEnds(c, i))

\* The runtime polls the session and every task that can go on.  Nothing is
\* assumed of docker, of the processes or of the upstreams.
Fairness ==
    /\ WF_vars(Handler) /\ WF_vars(SessionEnds)
    /\ \A c \in Channel : WF_vars(1 \in DOMAIN tasks[c] /\ TaskStep(c, 1))

Spec == Init /\ [][Next]_vars /\ Fairness

-----------------------------------------------------------------------------
(* Properties                                                              *)

TaskType ==
    [kind : Program \cup {"bridge"}, term : Terminal \cup {"none"},
     stage : {"resolve", "running", "both", "to_client", "to_upstream", "over"}]

\* Every variable keeps its type.
TypeOK ==
    /\ setting \in Setting
    /\ container_up \in BOOLEAN /\ interrupted \subseteq Channel /\ connected \in BOOLEAN
    /\ user \in Key \cup {"none"}
    /\ view \in [Channel -> {"new", "opening", "refused", "closed"} \cup Told]
    /\ term \in [Channel -> Terminal \cup {"none"}]
    /\ requests \in 0 .. MaxRequests /\ answers \in 0 .. MaxRequests
    /\ phase \in {"auth", "open", "closed"}
    /\ queue \in Seq(Request)
    /\ channels \subseteq Channel
    /\ pty \in [Channel -> Terminal \cup {"none"}]
    /\ awaiting \in {"none", "look_up", "connect", "inspect", "shell", "server"}
    /\ tasks \in [Channel -> Seq(TaskType)]
    /\ trying \in [Channel -> Seq(Shell)]

InHandler(c) == awaiting # "none" /\ Handled.channel = c

\* A channel is in one pair of hands: held by the connection, in a handler that
\* awaits docker, or given to one task, whatever the client asks for and in
\* whichever order. (channels.remove in every handler that starts something)
HandedOverOnce ==
    \A c \in Channel :
        /\ Len(tasks[c]) <= 1
        /\ c \in channels => tasks[c] = <<>> /\ ~InHandler(c)
        /\ InHandler(c) => tasks[c] = <<>>

\* Every request is answered exactly once, also when its handler failed or
\* awaited docker before. (channel_success, channel_failure and the results of
\* the handlers)
AnsweredOnce == phase = "open" => answers + Len(queue) = requests

\* In whose hands a channel is.
Hands(c) ==
    IF tasks[c] # <<>> THEN IF tasks[c][1].stage = "over" THEN "over" ELSE "task"
    ELSE IF InHandler(c) THEN "handler"
    ELSE IF c \in channels THEN "session"
    ELSE IF view[c] \in {"new", "opening"} THEN "nobody" ELSE "over"

Contract == INSTANCE ChannelContract
                WITH hands <- [c \in Channel |-> Hands(c)],
                     asked <- requests, answered <- answers

\* The session keeps the contract of its channels: each passes from hand to hand
\* in one direction, moved only by the answer to a request of its own, and the
\* requests are answered in their order, each once.
\* (PortHandler, the handlers of which run one after the other)
KeepsContract == Contract!Spec

\* What the client was told is so: a channel it may ask something of is held
\* or in a handler, except after a failed SFTP request, and success means that
\* a task has the channel. (PortHandler)
ToldTheTruth ==
    \A c \in Channel :
        /\ view[c] = "open" /\ phase = "open" => c \in channels \/ InHandler(c)
        /\ view[c] = "running" => tasks[c] # <<>>
        /\ view[c] \in {"new", "opening", "refused", "failed"} => tasks[c] = <<>>

\* The terminal of a shell or a command is the last one its client was granted.
\* (ChannelState::pty)
LastTerminal ==
    \A c \in Channel : \A i \in DOMAIN tasks[c] :
        tasks[c][i].kind \in {"shell", "exec"} => tasks[c][i].term = term[c]

\* Nobody gets in without a key of a configured file, be the file empty.
\* (Authz)
OnlyListedKeys ==
    phase = "open" /\ setting.configured => \E line \in setting.lines : line.key = user

\* The shell that is started is one of the container's, the configured one and
\* no other if there is one; else it is the first of the list that the container
\* has, unless the container was started while the list was tried.  (It may
\* stop at any time: the shells tried meanwhile fail, and a list that is at its
\* end starts nothing.) (resolve_container_shell)
FirstShell ==
    \A c \in Channel : \A i \in DOMAIN tasks[c] :
        tasks[c][i].kind \in {"shell", "exec"} /\ tasks[c][i].stage = "running" =>
            /\ trying[c] # <<>>
            /\ Head(trying[c]) \in setting.shells
            /\ setting.shell \in {"none", Head(trying[c])}
            /\ c \in interrupted
               \/ \A j \in 1 .. Len(Candidates) - Len(trying[c]) :
                      Candidates[j] \notin setting.shells

\* If docker answers, every request is answered or the connection is ended: a
\* handler that awaits docker holds the other channels up, but not for ever.
\* (A client makes at most MaxRequests of them, so in the end none is left.)
\* (the handlers are awaited one after the other)
Served ==
    WF_vars(DockerAnswers) => <>[](answers = requests \/ phase = "closed")

\* No task outlives its connection, if processes notice its end and upstreams
\* close in the end. (the tasks of the handlers)
TasksEnd ==
    (\A c \in Channel :
        WF_vars(1 \in DOMAIN tasks[c] /\ (TaskEnds(c, 1) \/ UpstreamEnds(c, 1))))
    => (phase = "closed" ~>
            \A c \in Channel : \A i \in DOMAIN tasks[c] : tasks[c][i].stage = "over")
=============================================================================
