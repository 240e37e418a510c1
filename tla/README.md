# docker2ssh in TLA+

docker2ssh (`d2s`) is a host daemon that serves docker containers over SSH: a
TOML file maps ports to containers, the daemon opens an SSH server per mapped
port, and a client that connects gets a shell, a command, an SFTP server, a
forwarded TCP connection or the docker API of that one container. This
directory models the program's control in TLA+, checks the models with TLC and
proves theorems about them with TLAPS. All source paths are below `src/`.

## Inventory

| Component | Code | State | Operations |
| --- | --- | --- | --- |
| Listener set and live reload | `src/ssh_server.rs` 96-248, 287-300, 352-420, 1231-1295 | `current_raw`, `current_cfg`, `active` (task handles), the open sockets, the pid file | boot, tick, reload with fallback, stop, shutdown |
| Daemon lifecycle | `src/ssh_server.rs` 51-128, 250-350 | the pid file, the processes and their signal handlers | `serve`, `serve --foreground`, `stop`, crash |
| Configuration store | `src/config.rs`, `src/cli.rs` | the configuration file | `load_or_create`, `config set`, `config rm`, `config list` |
| SSH session | `src/ssh_server.rs` 507-840 | the channels of a connection, their PTY and environment | authentication, channel open, pty/env/shell/exec/subsystem requests |
| Attached process | `src/ssh_server.rs` 990-1229 | the docker process of a channel, its pipes or PTY, the pumping tasks | start, pump, exit status, EOF, close |
| Network namespace forward | `src/ssh_server.rs` 578-614, 826-907 | the namespace of a blocking thread | look up the pid, setns, connect, restore |
| Docker API proxy | `src/proxy.rs`, `src/docker.rs` 105-273 | the resolved container | match, rewrite and forward a request |
| Docker inspection, `show`, `doctor` | `src/docker.rs` 59-103, `src/ssh_server.rs` 1297-1387 | none (docker's) | inspect every mapped container |
| Python wrapper | `python/src/docker2ssh/` | none | find the binary, call it |
| Debug reporting, upgrade, packaging | `src/ssh_server.rs` 422-470, `src/cli.rs` 69-97, `scripts/`, `.github/` | none | print, call pip, build wheels |

### How they interact

`serve` forks a copy of the program that runs `serve --foreground`; both write
the pid file, and `stop` reads it. The configuration file connects the `config`
commands, which write it, with the daemon, which polls it. The daemon starts one
listener task per socket; a listener hands every connection to a session; a
session starts a process, a forward or a proxy per channel, each a task of its
own that talks to the session only through its channel. The proxy and the
session call docker. Nothing is shared in memory between sessions but the
configuration they were started with.

### What is hard, and what makes a component correct

| Component | Hard behaviours | What must hold |
| --- | --- | --- |
| Listener set | a start that fails half way; edits, foreign sockets and a shutdown between any two awaits | sockets and handles agree, a reload is all or nothing with the old set to fall back on, the last good contents win |
| Daemon lifecycle | several processes around one file without a lock; crashes, torn files, reused pids, signals before a handler, processes and files of other users | one daemon, which the pid file names and nobody's clean-up hits |
| Configuration store | a read, change and write of a whole file; files edited by hand | one command changes one entry |
| Attached process | four tasks and two processes over bounded buffers; a client that stalls or goes | everything is delivered, in order, and it ends |
| SSH session | pipelined requests in any order, several channels, handlers that wait for docker or fail, tasks that outlive a request | a channel is handed over once, every request is answered once and truthfully, tasks end with their connection |
| Network namespace forward | threads that are reused; a container that restarts and a pid that is reused between look-up and use; a return that fails | a forward leads into the container that was looked up, no thread is lost silently |
| Docker API proxy | request paths and abbreviated references, a container that is recreated or renamed | only the container of the port is acted on, and it is always recognised |
| `show`, `doctor` | containers that change between two inspections | the list is what runs, and the doctor blames the mappings it cannot get in at and no others |

## The modules

| Module | What it is |
| --- | --- |
| `ListenerReload` | a foreground daemon from its pid file to its end |
| `MCListenerReload` | its instance: two ports, six contents of the file |
| `ListenerReloadProofs` | its theorems |
| `DaemonLifecycle` | `serve`, `serve --foreground`, `stop` and the pid file |
| `DaemonLifecycleProofs` | its theorems |
| `MappingTable` | what `config set` and `config rm` promise |
| `ConfigStore` | how they do it, refining `MappingTable` |
| `MCConfigStore` | its instance: files as an administrator leaves them |
| `ConfigStoreProofs` | its theorems, the refinement among them |
| `AttachedProcess` | a docker process attached to a channel |
| `AttachedProcessProofs` | its theorems |
| `ChannelContract` | whose hands a channel is in, and what may move it |
| `SshSession` | a connection: authentication, channels, requests, tasks, refining `ChannelContract` |
| `MCSshSession` | its instance: five ways a port can be set up |
| `SshSessionProofs` | its theorems |
| `DockerEngine` | containers, names, ids and pids, and how the daemon looks them up |
| `NetnsForward` | forwards in the threads of a pool, over `DockerEngine` |
| `DockerProxy` | docker API channels, over `DockerEngine` |
| `MappingCheck` | `show` and `doctor`, over `DockerEngine` |
| `ContainerAccess` | the three together, while containers change |
| `MCContainerAccess` | its instance: two containers whose names and ids begin alike |
| `ContainerAccessProofs` | its theorems |

A definition commented "Mutant:" is a wrong variant of the definition after it.
It takes part in no behaviour; it shows that the property it is paired with in
`PROJECT.json` can fail.

### ListenerReload

`file` is what the configuration file holds, one of a few contents that stand
for the ways a start can go. `pc` is the await the daemon is in: `boot` (the
first read), `start` (keys are read), `bind` (one mapping at a time), `select`
(the loop), `stop` (old tasks are ended before a restart), `drain` (the same at
the shutdown), `exited`. `phase` says whose call of `start_listener_set` runs:
that of the boot, of a reload, or of its fallback. `active` are the task
handles, `bound` the sockets the process really has open; the code never
compares the two, and most of the properties do.

`EditFile`, `Squat`, `Release`, `ToggleReadable`, `RequestShutdown` and
`ListenerFails` are the world: they may come between any two awaits. A tick
that reads what it read before changes nothing and has no action. A wildcard
host stands for a socket of each family (`build_listeners`); `bind_socket` fails
if another process, or an earlier mapping, has the socket. `StartFailed` closes
every socket at once, because the vector of listeners is dropped.

### DaemonLifecycle

`proc[p]` is what runs under pid `p`: a daemon at one of its steps, an unrelated
process, or nothing. `serve[l]` and `stop[s]` are commands in progress. Every
file operation is a step, with `fs::write` two of them. The daemon of `serve`
and the one of `serve --foreground` run the same code; `byhand` tells them
apart, since a user waits for the second. An empty file is handled as the code
does in each of three places: the launcher and `stop` fail to parse it, the daemon
takes it for pid 0 and gives up. A signal before `RegisterHandler` kills the
process. `PortsTaken` is the only trace of the listeners.

Every process and the pid file have a user. `ProcessIsRunning` is what
`process_is_running` computes, `kill(pid, None).is_ok()`, which is false for a
process its caller may not signal as well as for none; `StopKill` and the
cleaning up of a stale file see the same. `Truncate` and `Remove` fail or do
nothing without permission: a file is written by its owner, removed by the owner
of the directory, and root may do either. Files are created with the mode 644, so
everybody can read them. A file that was removed and created again while a
command has the old one open counts as the same.

Of a `serve` that returned, the dead child is the host's to reap; a child that
dies before its launcher returns is free at once in the model, while the kernel
keeps its pid until then.

### ConfigStore and MappingTable

`file` is what the file parses to. `Blank` is both what `load_or_create` writes
and what the truncated file parses to, because every field has a default. A command
goes through `metadata`, `create`, `docker` (only `set`, which loads the file
once more to find docker), `load`, `truncate` and `write`; a command that fails
returns to `idle`. `Upsert` changes the first mapping of the port or appends and
sorts stably; `Remove` removes all mappings of the port.

`MappingTable` is the promise: a function from ports to entries, and the
requests that are under way. `Call` brings a request, with its port, container and
shell; `Apply` changes the entry of that port as the request says, and takes the
request away; `Fail` only takes it away. The refinement maps the file to the table
of first entries, `pending` to the requests of the commands that have not begun to
write (`Pending`), and the moment a command truncates the file to `Apply`.

### AttachedProcess

Data is counted in chunks. `inbox`, `stdin_buf` and `out_buf[s]` are the chunks
in the channel, in the stdin pipe (or the terminal), and in an output pipe;
`window` is what the client lets the server send. `stdin_task`, `pump[s]` and
`main` are the tasks of `run_attached_process_with_pipes`, or of the variant
with a PTY. The process reads, writes and exits in any order its kind allows:
`"eof"` reads to the end of its input, as a shell or `cat` does, `"command"`
reads one chunk, `"nothing"` none. It is in one blocking call at a time, so a
full pipe holds it up.

`CanStep` spells out when a task or the process can go on, so that
`StallsOnlyForClient` can say that, with pipes, a session short of its end that
cannot waits for a connected client: for input, for its end, or for room in the
window.

With a PTY nothing tells the reader of the master that the process is gone,
because `cmd` still holds the slave: the output task ends only by the timeout.

### SshSession and ChannelContract

`queue` is what the client has asked and the session has not answered; the
session calls one handler at a time, in that order, and `awaiting` is what the
handler of the first request waits for. The handlers are `ChannelOpenSession`,
`ChannelOpenDirectTcpip`, `PtyRequest`, `EnvRequest`, `ShellRequest`,
`ExecRequest` and `SubsystemRequest`; those that ask docker go on in `LookedUp`,
`Connected`, `Resolved`, `SftpShell` and `SftpServer`. `channels` and `pty` are
the map of `PortHandler`, `view` and `term` what the client was told.
`EndConnection` is an `Err` of a handler.

A task has a `stage`: a shell or a command first looks for its shell
(`trying` is the rest of the list), a bridge may have one or both ways open.
`Works` asks docker with the container of that moment, which may stop and start
again in the middle of the list; `interrupted` remembers the channels for which a
shell was looked for when it started. `AttachedProcess` says what happens in stage `running`;
here a process may end at any time. The file of keys is a set of lines, and a
line may have a comment, because the code compares keys as text.

`ChannelContract` is what a connection promises of its channels: a channel is
nobody's, the session's, in the hands of a handler that awaits something, a
task's, or over, and passes through these in one direction; requests are answered
in their order, each once; and only the answer to a request moves the channel of
that request, to where its kind allows (`MayLeaveIn`). Of keys, terminals, shells
and docker it knows nothing. The refinement maps `channels`, `awaiting` and
`tasks` to `Hands(c)`, and every question to docker to a stutter.

### DockerEngine, NetnsForward, DockerProxy, MappingCheck, ContainerAccess

`DockerEngine` is external but for the look-ups: containers with a name
and an id, the processes behind pids, and an engine that may be out of reach.
`Finds` resolves a reference as docker does, by id, name, or a beginning of
an id that fits one container. Every change of it is one of `changes`.

`NetnsForward`: `found[f]` is the result of the look-up, `ns[t]` the network
namespace of a thread of the blocking pool, `stream[f]` the namespace the
connection was made in. Between any two steps the container may go and its pid
be given to another process; `taken` counts how often, so that a property can
say "unless the pid was reused". The namespace to return to is that of
`/proc/self`, which is the main thread's, so a thread that was left behind
returns to the host's with its next forward.

`DockerProxy`: a path is a record of what `sanitize_path_for_container` looks
at; a reference is a sequence, since `container_ref_matches` compares
beginnings. The global prefixes are one kind, `"engine"`: such a path is passed on
as it is, and its reference is the container that it, its query or its body names,
if any. `acted` is what the engine did for the last request. `HandleRequest` and `BackendRequest` are two steps with any change
of the engine in between. `MappingCheck` inspects one mapping per step, then
pings: `PingConnect`, `Authenticate` with a key file that may be unreadable, or
without one, `Exec`, for which the daemon resolves the container once more, and
`Ping`. `port[m]` is what the doctor meets at the port of a mapping: nothing, a
daemon that refuses it, or one that lets it in; `failed` are the mappings it has
blamed. `moves` counts the changes of names, ports and the engine's being there,
which is all of `changes` but containers and processes that come and go.

`ContainerAccess` puts them side by side. A behaviour has any number of them
at the same time up to `MaxCalls`.

## Runs

| Run | Instance | Shows |
| --- | --- | --- |
| `reload` | 6 contents, 2 ports, at most one foreign socket (one squattable per port) | that sockets, handles and configuration agree, that a failed reload falls back, and that the loop settles, catches up and shuts down |
| `reload_retry` | 2 contents | violation of `ChangeTakesEffect` |
| `lifecycle` | 3 pids, 2 config paths, one `serve` and one `stop`, the latter by root or the user, crashes, failing starts, foreign processes of the user and of a stranger; one command at a time | one daemon, tracked by its file, never orphaned by a clean-up, that ends when signalled |
| `serve_alone` | 1 pid, 1 `serve` | violation of `ServeStarts` |
| `serve_twice` | 2 pids, 2 `serve` | violation of `Tracked` |
| `stop_denied` | 2 pids, root and another user serve one config path, one command at a time | violation of `StopReaches` |
| `config_store` | 3 ports, 2 containers and an unknown one, 4 initial files; one command at a time | the refinement of `MappingTable`: a command does to the entry of its port what it was asked, and nothing else; and that an ordered file stays so |
| `config_race` | 2 commands | violation of `OthersKept` |
| `attached` | both modes, all programs, up to 2 chunks of input and of each output, buffers of 1 | order and completeness of what is delivered, that nobody but the client is waited for, and that it ends |
| `session` | 2 channels, 4 requests of any kind, 2 of them on their way, 5 set-ups of a port, 2 terminals, one key, a client that closes channels or vanishes, a container that stops and starts; 1.7 million states | the refinement of `ChannelContract`; what clients are told, terminals and shells are right in every order of requests, a waiting handler does not wait for ever, tasks end with the connection |
| `container_access` | 2 containers and a third to come, 2 pids, 2 threads, 2 forwards, 1 docker channel with every abbreviation of every name and id and global paths that name another container, `show` or `doctor` with ports that are deaf or refuse; 2 calls at a time, 2 changes; 1.1 million states | forwards and requests under `/containers/` reach the container that was meant, threads are not lost silently, the list is right, and the doctor blames the right mappings |
| `pty_eof` | a PTY, a program that reads to its end | violation of `PtyEofEnds` |

### Bounds

`Raw` of `reload` has one content for each way a start can go: it succeeds with
one socket per mapping or two, needs a key, binds a mapping twice so that the
second fails after the first, has a host that cannot be parsed, has no mapping,
is no configuration. Two ports make a set with a prefix. One foreign socket at a
time is enough to fail a start and its fallback at different moments, as
`Release` and `Squat` can move it.

Three pids are a daemon, the next one and a reused one. Two config paths share
a pid file. Three users are the one who serves, root, and a stranger who gets a
pid; the properties of `lifecycle` are about one user who serves
(`OneServeUser`), and `stop_denied` shows what two do.

Two entries out of order, or two entries of one port, are the shortest lists on
which the sort and its stability matter. Shells, containers and settings are
only compared.

The five ports of `session` are one with a key and two of the default shells; one
that lets everybody in, with a configured shell that works; one whose configured
shell the container lacks; and two that nobody can enter, for want of a key and
for a comment behind it. Two terminals tell the last one granted from the first.

Two channels are needed for one to suffer from the other, and four requests
open both and send each a request, or open one, ask for two terminals and hand
it over. Two requests on their way are one in a handler that waits and one
behind it. A third would only wait longer.

Two forwards meet on a thread that one has left in a namespace; two changes are
a container that goes and another process that gets its pid, or a new
container under the old name. The ids `1ac`, `1bc` and `2bc` share a first
character, so that an abbreviation fits one or two of them, and the second name
begins with the first. A short id has two characters, for twelve of sixty-four.

Buffers of one chunk and two chunks of everything make every writer block once
and leave one chunk behind; a longer stream repeats these states. No unbounded
counter is left.

### Fairness

* `ListenerReload`: weak fairness of the daemon's steps, since the runtime
  polls a ready task. Strong fairness of `SelectShutdown`: `tokio::select!`
  picks at random among ready branches, so a pending shutdown is not passed over
  for ever by reloads. Nothing of the world is fair.
* `DaemonLifecycle`: weak fairness of each process and each command, since the
  kernel schedules them. What users start, crashes
  and foreign processes are not fair.
* `AttachedProcess`: weak fairness of each task and of the process. The client
  is not fair; `PipesFinish` and `PtyEofEnds` assume in their statement that it
  keeps opening the window. `ProgramKilled` is not fair, so no property lives on
  somebody killing the process.
* `SshSession`: weak fairness of the handlers, of the end of a session whose
  client is gone, and of tasks that can go on without docker, since the
  runtime polls them. Docker, processes and upstreams are not fair: `Served`
  assumes in its statement that docker answers, and `TasksEnd` that processes
  and upstreams end. A look-up has no timeout in the code.
* `ContainerAccess`: weak fairness of every forward's steps, because a thread
  of the pool runs and `connect_timeout` ends each attempt after 5 seconds. The
  engine, proxies and checks are not fair.
* `ConfigStore` has only safety properties and no fairness.

### Disagreements

* `reload_retry`: the README says listeners restart automatically when mappings
  change. A change whose start failed for a passing reason is recorded as seen;
  once the reason is gone nothing tries it again. `RollbackKeepsService` and
  `ServesLastConfig` are what does hold.
* `serve_alone`: `serve` truncates the pid file while its child reads it; the
  child takes the empty file for a running daemon of pid 0 and gives up, and
  `serve` reports a daemon that is not there. One command suffices.
* `serve_twice`: two `serve` commands can each write the pid of their own child
  last, whereas the other child survives the race for the ports.
* `stop_denied`: `kill(pid, None)` fails for a live process of another user. With
  root's daemon running, the other user's `serve` removes its pid file as stale and
  leaves its own, and root's `stop` ends the wrong process.
* `config_race`: a command that loads the file another one has truncated saves
  a configuration without the other mappings and settings.
* `pty_eof`: with a PTY the client's EOF only ends the stdin task, and no
  end-of-file character is written to the terminal. The test that attaches
  `cat` expects the session to end.

Met while modelling, with no run of their own:

* `Authz` compares keys as `to_openssh` writes them. A line of
  `authorized_keys` that has a comment, as OpenSSH's `ssh-keygen` writes it, is
  kept with the comment, and a client's key has none: the key is not accepted
  (`Allows`; the fifth port of `MCSshSession`, which nobody can enter). The
  `doctor` then reports the mapping as unreachable, since it is refused as well
  (`port[m] = "refuses"` of `MappingCheck`).
* The pid file is one per directory, not one per config path: two daemons with
  their files in one directory exclude each other, and `stop` for one path ends
  the other's daemon, though the README and the help of `stop` say "the daemon
  started from the same config path". It needs no interleaving, so no run has it.
* The paths of the global prefixes are passed on as they are, and some act on
  containers: `/networks/<n>/connect`, `/build?networkmode=container:x`. The README
  promises only that `/containers/` is restricted, and so does `ActsOnTarget`.
* A container that is started while the list of shells is tried can be entered
  with a shell behind one that would work by now. `FirstShell` says exactly when:
  only if the container started in between, which `interrupted` records.
* `container_ref_matches` takes a reference that begins with the container's
  name for the container. With `my-app` mapped, a request for `my-app2` is not
  refused but carried out on `my-app`. `ActsOnTarget` shows that `my-app2` itself
  is out of reach.
* `show` fails as a whole when a mapped container no longer exists, where the
  README only says that it prints the running ones. `DoctorIsRight` has this as
  the one reason besides an engine out of reach.

## Proofs

TLAPS proves the following for every value of the constants that satisfies the
named assumptions of the modules; no theorem assumes a bound.

**ListenerReload** (`TypeCorrect`, `SocketsAccountedFor`, `NeverAMixture`,
`PidFileGoesLast`, `FallbackWorks`, `NoChangeMissed`,
`EditsAloneKeepItBusy`). The first four follow from `Accounting`,
which adds to the properties what a start has done so far: it counts from the
first mapping, never beyond the last, and no handle is held outside the loop.
`FallbackWorks` is the theorem behind a safe reload. That the fallback succeeds
is not a fact about a state but about how it was reached: the configuration in
service was started once, so its host parses and its ports differ
(`Startable`), a restart reads the same inputs and binds sockets that the daemon
closed itself. `Fallback` records this: `DistinctPorts` grows mapping by mapping
while a start goes on, until it makes the configuration `Startable` when the
start succeeds. It is inductive only under `CurrentUndisturbed`, as the property is
conditional on it. `NoChangeMissed` says why it is safe to skip a file whose bytes
were seen before: if nothing is in its way, the daemon serves what it read last
whenever that can be started (`LastRead`: a start that was given up was of
contents that cannot be). `EditsAloneKeepItBusy` counts down: the reloads the
file calls for, the stages before the loop (a start and one fallback), and the
rounds of a stage, in this order of weight.

**DaemonLifecycle** (`TypeCorrect`; and, if commands are run one at a time and
one user runs the daemons (`OneAtATime`, `OneServeUser`),
`OnlyOneDaemon`, `DaemonIsTracked`, `LiveFileStays`, `StopNeverMisses`;
`SignalledGoesDown` without these conditions). None of the first three is
inductive: they depend on what commands that are half way have read. The
invariant calls a daemon a *guest* as long as it was started by hand and has not
passed its check, and an *owner* after that; a forked daemon is an owner from
its birth, because its launcher has checked for it. There is at most one owner,
and whoever is about to act on the file (a guest, a launcher, a `stop`) has read
the owner's pid in it, if there is one (`FileNames`, `GuestKnows`, `LauncherKnows`,
`StopperKnows`). `OneCommand` turns the assumption `OneAtATime` into a statement
about states. `UsersNamed` says that every daemon and every command has one of the users it may
have, so that under `OneServeUser` whoever looks for the owner may signal it and
sees that it runs; a reused pid may be anybody's. Both conditions are needed:
`serve_twice` violates `Tracked` without the one, `stop_denied` `StopReaches`
without the other. Crashes, failing starts and reused pids need no assumption.
`StopNeverMisses` uses the same invariant from the user's side: a `stop` that
returns while a daemon listens has just signalled that daemon, because the file it
read names it. `SignalledGoesDown` counts the steps of a daemon whose handler has
the signal.

**AttachedProcess** (`TypeCorrect`, `NothingReportedEarly`, `InputComesWhole`,
`FiniteWork`, `OnlyTheClientIsWaitedFor`).
`InputCounted` and `OutputCounted` are laws of conservation: a chunk is in the
channel, in a task's hands, in a buffer or delivered. They say that nothing is lost
while the process runs (input) or while a task has not failed (output);
`MainInPlace` says which tasks have ended when the main task is where it is.
`FiniteWork` weighs what is left to be done (`Remaining`): a chunk weighs less in
every buffer it passes, each step of a task or of the process leaves less, and the
client adds to it only by typing. `OnlyTheClientIsWaitedFor` is the absence of a
circle of waits among the tasks, the process and the pipes, for pipes and windows
of any size. Together they are the argument for `PipesFinish` and
`DisconnectReaps`, without fairness.

**ConfigStore** (`TypeCorrect`; and, if commands run one at a time and none is
killed in its write, `CommandsKeepTheirPromise` and `OrderIsKept`).
`CommandsKeepTheirPromise` is the refinement of `MappingTable`, for lists of any
length, in any order and with any duplicates. Its core is about lists:
`SortByPort` and `Remove` put mappings in places by counting those before them;
counting is injective on a finite set (`Counting`, `Ranks`), so that every place
is taken (`Places`, by the pigeonhole principle), and the entry in force of a
port survives any move that keeps the mappings of the port in their order
(`SameEntry`). `TableInv` says what the file is while the only command is half
way: the file it loaded is the file it truncates, and what it will write is that
file changed as its request says. With one command, a request is pending as long as
the command has not begun to write (`PendingFacts`). `config_race` violates
`OthersKept` where commands overlap. `MCConfigStore` has TLC compare
`Remove` with `SelectSeq` on short lists.

**SshSession** (`TypeCorrect`, `OneOwner`, `OneAnswer`, `ImplementsContract`,
`ClientsAreNotDeceived`, `TerminalArrives`, `KeysOnly`, `ShellInOrder`,
`WorkIsBounded`). They follow from one invariant, `IInv`. What the properties lack for induction is
the queue: `Queued` says that a request in it belongs to a channel the client
was told is open, or is the opening of that channel, of which there is one;
`Before`, that nothing was asked before the connection is open; `Awaits`, which
request a waiting handler has in hand; `Terminals`, that the terminal of a held
channel is the last one granted. `ShellInOrder` has an invariant of its
own (`Tried`): what is left to try is an end of the list, and what was passed
over is not in the container, as a setting does not change, unless the container was
down then; in that case it was down until it started, and the channel is in
`interrupted` since (`TriedRestart`).
`ImplementsContract` is the refinement: the step of every handler is mapped to
the contract's `Keep`, `Return` or `End`, that of a task to its end or a stutter, and `HandedOverOnce` makes `Hands` well
defined. `WorkIsBounded` counts the questions a handler may still ask docker and
the steps of a task; it needs that the two never touch the same channel's list of
shells, which is `HandedOverOnce` again.

**ContainerAccess** (`TypeCorrect`, `ForwardsLeadHome`, `NoSilentStray`,
`ProxyStaysInside`, `ProxyKnowsItsContainer`, `ListingIsComplete`,
`DoctorBlamesFaults`, `ForwardsFinish`). The invariant is a conjunction of one part per
module, each preserved by its own steps and by those of the engine.
`ForwardsLeadHome` needs `Fresh`: a pid that was given to nobody since the
look-up is the container's or free. `ProxyStaysInside` needs that a path under `/containers/` on
its way already names the resolved id, and that ids do not begin one another
(`IdAssumption`), so that the engine finds that container or none. Of a global
path it says nothing.
`DoctorBlamesFaults` needs that what is still to be pinged is the end of the list,
that those before it were blamed if and only if they are faulty (`FaultyOf`), and
that what was inspected can still be found unless something was moved.

`ForwardsFinish` says that a forward short of its outcome can take a step or
waits for a thread, and every thread is then busy with a forward that can; and
that each step leaves fewer.

Only model-checked: the liveness properties, since fairness and `ENABLED` are
out of the prover's reach. What each rests on is proved: that steps remain
finitely many, and where it is not plain, that one can be taken.

| Model-checked | Its proved part |
| --- | --- |
| `Settles`, `ShutdownCompletes` | `EditsAloneKeepItBusy` |
| `ServesLastConfig` | `NoChangeMissed` |
| `SignalledEnds` | `SignalledGoesDown` |
| `PipesFinish` | `FiniteWork`, `OnlyTheClientIsWaitedFor` |
| `PtyTornDown`, `DisconnectReaps` | `FiniteWork` |
| `Served`, `TasksEnd` | `WorkIsBounded` |
| `ForwardEnds` | `ForwardsFinish` |

What a proof takes for granted beyond the modules' own `ASSUME`s is in the
theorem: `OneAtATime` where commands must not overlap, `OneServeUser`, and `~KilledInWrite` for
the configuration store. What is not proved: that `CanStep` of `AttachedProcess`
and of `ContainerAccess` is `ENABLED` of the steps it stands for. TLC agrees with
both on the instances of the runs; no run has this as a property.

## Not modelled

* The sessions of a listener that is stopped: what becomes of accepted
  connections is up to russh, and no modelled component depends on it.
* russh itself: a session loop that always goes on, also when a channel's queue
  is full, and window adjustments that are always processed, are taken for
  granted in `AttachedProcess`.
* A process that cannot be started, window sizes and terminal modes; requests
  for which `PortHandler` has no handler, such as a new window size or a signal.
* The names of environment variables and the contents of commands: `env` is
  granted and forgotten, and of a command only matters whether it asks for
  the docker API.
* Name resolution in a forward, but for how many addresses it yields; the
  variant of `connect_in_network_namespace` that is no Linux, which only fails.
* Headers and upgraded connections of the docker API, of bodies and query strings
  all but the container they name, and which of the allowed global prefixes a path
  has.
* The hang-up that a process on a PTY gets when the daemon drops its
  descriptors: `ProgramKilled` includes it, without fairness.
* A launcher that is interrupted half way (a torn pid file is reached by a
  crashing daemon in the same run), and a `serve` that cannot fork.
* `save` failing half way for lack of space, and a `config` command killed in
  its write: `KilledInWrite` models the second and is off in the runs, because
  the loss of the file is plain.
* Losses that are evident from the code, which no text of the repository speaks
  of: a torn pid file stops every later start until a user removes it; `stop`
  signals whatever process has the pid by then; a channel that is closed without
  a request stays in `channels`; two daemons that start together each write a
  host key; a key taken out of `authorized_keys` is accepted until the next
  reload. The first three happen in the runs, the other two in none.
* Authorization's cryptography, the host key's generation, the debug reporter,
  `upgrade`, the Python wrapper, packaging: `PROJECT.json` says why.

## Plan

1. Done: `ListenerReload`, `DaemonLifecycle`, `ConfigStore` over
   `MappingTable`, `AttachedProcess`, their runs and proofs.
2. Done: `SshSession`; `NetnsForward`, `DockerProxy` and `MappingCheck` over
   `DockerEngine`, composed in `ContainerAccess`; their runs and proofs; the
   refinement of `MappingTable` as a theorem.
3. Done: `ChannelContract` and its refinement; the finite work behind the
   liveness properties.
4. Left to prove: that `DaemonLifecycle`, for commands run one at a time,
   implements a lock on its directory; that `AttachedProcess` implements a pair
   of lossless pipes.
5. Left to model: `SshSession` composed with `AttachedProcess`, so that the end of a
   connection and a process that stalls meet in one model; sessions that go on
   while a reload stops their listener; the loss of a configuration to a
   command killed in its write.
