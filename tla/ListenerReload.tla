--------------------------- MODULE ListenerReload ---------------------------
(***************************************************************************)
(* The foreground daemon of docker2ssh (src/src/ssh_server.rs, from        *)
(* run_foreground_until_shutdown to ActiveListeners::stop) from the moment *)
(* it has written its pid file until its process is gone.  It serves the   *)
(* mappings of a configuration file, looks at the file on every tick of a  *)
(* timer, and when its bytes changed it stops every listener, starts the   *)
(* listeners of the new configuration, and if that fails starts those of   *)
(* the previous configuration again.                                       *)
(*                                                                         *)
(* Every await of the code is a step boundary, so the file, the sockets of *)
(* other processes and the files a start reads may change in between.      *)
(***************************************************************************)
EXTENDS Naturals, Sequences, FiniteSets

CONSTANTS
    Raw,            \* contents the configuration file can have
    Missing,        \* the configuration file does not exist
    Invalid,        \* result of parsing contents that are no configuration
    Parse,          \* Parse[r]: the ConfigFile of contents r, or Invalid
    Port,           \* ports of mappings
    Container,      \* containers of mappings
    MaxForeign,     \* bound: sockets other processes hold at a time
    Squattable      \* bound: sockets other processes may take

-----------------------------------------------------------------------------
(* Configurations, and the listeners one stands for.                       *)

Family == {"v4", "v6"}
Socket == Family \X Port
Mapping == [port : Port, container : Container]

\* Hosts by what build_listeners makes of them: both wildcards open one socket
\* per family, an address opens one, anything else is an error.
ListenHost == {"wildcard", "v4", "v6", "unparsable"}

ConfigFile == [listen_host : ListenHost,
               mappings : Seq(Mapping),
               authorized_keys : BOOLEAN]

ASSUME RawAssumption == Missing \notin Raw
ASSUME ParseAssumption ==
    /\ DOMAIN Parse = Raw
    /\ \A r \in Raw : Parse[r] # Invalid => Parse[r] \in ConfigFile
    /\ Invalid \notin ConfigFile
ASSUME ForeignAssumption == MaxForeign \in Nat /\ Squattable \subseteq Socket

\* A listener keeps the mapping and the authorization it was started with.
Listener == [socket : Socket, container : Container, keyed : BOOLEAN]

Families(host) == CASE host = "wildcard" -> Family
                    [] host = "v4" -> {"v4"}
                    [] host = "v6" -> {"v6"}
                    [] OTHER -> {}

\* build_listeners for the i-th mapping of cfg
ListenersAt(cfg, i) ==
    {[socket |-> <<f, cfg.mappings[i].port>>,
      container |-> cfg.mappings[i].container,
      keyed |-> cfg.authorized_keys] : f \in Families(cfg.listen_host)}

\* the listeners of the first n mappings of cfg
Opened(cfg, n) == UNION {ListenersAt(cfg, i) : i \in 1 .. n}

Listeners(cfg) == Opened(cfg, Len(cfg.mappings))

SocketsOf(listeners) == {l.socket : l \in listeners}

\* the files start_listener_set reads before it opens a socket
Inputs(cfg) == {"host_key"} \cup
               (IF cfg.authorized_keys THEN {"authorized_keys"} ELSE {})

\* A configuration that can be started when nothing else is in its way.
Startable(cfg) ==
    \/ cfg.mappings = <<>>
    \/ /\ cfg.listen_host # "unparsable"
       /\ \A i, j \in 1 .. Len(cfg.mappings) :
             cfg.mappings[i].port = cfg.mappings[j].port => i = j

-----------------------------------------------------------------------------
VARIABLES
    \* the world around the daemon
    file,            \* contents of the configuration file, or Missing
    foreign,         \* sockets other processes listen on
    unreadable,      \* key files that cannot be read just now
    shutdown,        \* the shutdown future is ready
    \* the daemon
    pid_file,        \* the pid file exists
    pc,              \* where the daemon awaits
    phase,           \* which call of start_listener_set runs or runs next
    current_raw,     \* contents the daemon last looked at
    current_cfg,     \* the configuration it serves
    raw,             \* contents a reload has read
    starting,        \* argument of start_listener_set
    next,            \* its mapping to bind next
    active,          \* listeners whose task handles the daemon holds
    previous_active, \* listeners ActiveListeners::stop still has to stop
    bound            \* listening sockets the daemon's process has open

worldVars == <<file, foreign, unreadable, shutdown>>
vars == <<file, foreign, unreadable, shutdown, pid_file, pc, phase, current_raw,
          current_cfg, raw, starting, next, active, previous_active, bound>>

NoConfig == [listen_host |-> "unparsable", mappings |-> <<>>,
             authorized_keys |-> FALSE]

\* cfg can be started in the world as it is now.
Servable(cfg) ==
    /\ Startable(cfg)
    /\ Inputs(cfg) \cap unreadable = {}
    /\ SocketsOf(Listeners(cfg)) \cap foreign = {}

-----------------------------------------------------------------------------
(* The world.                                                              *)

\* An editor, a `config set` or a removal: any contents may follow any other,
\* also the empty one a write leaves between its truncation and its data.
EditFile(contents) ==
    /\ file' = contents
    /\ UNCHANGED <<foreign, unreadable, shutdown, pid_file, pc, phase, current_raw,
                   current_cfg, raw, starting, next, active, previous_active, bound>>

Squat(socket) ==
    /\ Cardinality(foreign) < MaxForeign
    /\ socket \notin foreign \cup SocketsOf(bound)
    /\ foreign' = foreign \cup {socket}
    /\ UNCHANGED <<file, unreadable, shutdown, pid_file, pc, phase, current_raw,
                   current_cfg, raw, starting, next, active, previous_active, bound>>

Release(socket) ==
    /\ foreign' = foreign \ {socket}
    /\ UNCHANGED <<file, unreadable, shutdown, pid_file, pc, phase, current_raw,
                   current_cfg, raw, starting, next, active, previous_active, bound>>

ToggleReadable(input) ==
    /\ unreadable' = IF input \in unreadable THEN unreadable \ {input}
                                             ELSE unreadable \cup {input}
    /\ UNCHANGED <<file, foreign, shutdown, pid_file, pc, phase, current_raw,
                   current_cfg, raw, starting, next, active, previous_active, bound>>

RequestShutdown ==
    /\ ~shutdown
    /\ shutdown' = TRUE
    /\ UNCHANGED <<file, foreign, unreadable, pid_file, pc, phase, current_raw,
                   current_cfg, raw, starting, next, active, previous_active, bound>>

\* run_on_socket returns an error: the task ends and its socket is closed,
\* but its handle stays where it is and nobody looks at it.
ListenerFails(listener) ==
    /\ listener \in bound
    /\ pc \in {"select", "stop", "drain"}
    /\ bound' = bound \ {listener}
    /\ UNCHANGED <<file, foreign, unreadable, shutdown, pid_file, pc, phase, current_raw,
                   current_cfg, raw, starting, next, active, previous_active>>

-----------------------------------------------------------------------------
(* start_listener_set                                                      *)

\* Mutant: mappings counted from zero.
StartingFromZero(cfg) ==
    /\ pc' = "start"
    /\ starting' = cfg
    /\ next' = 0

Starting(cfg) ==
    /\ pc' = "start"
    /\ starting' = cfg
    /\ next' = 1

\* Mutant: the configuration in service is not recorded.
StartOkForgetsConfig(listeners) ==
    /\ active' = listeners
    /\ bound' = listeners
    /\ current_raw' = IF phase = "boot" THEN current_raw ELSE raw
    /\ pc' = "select"
    /\ UNCHANGED <<phase, starting, next, previous_active, current_cfg>>

\* Mutant: a fallback does not record the contents that failed.
StartOkForgetsFailure(listeners) ==
    /\ active' = listeners
    /\ bound' = listeners
    /\ current_cfg' = starting
    /\ current_raw' = IF phase = "new" THEN raw ELSE current_raw
    /\ pc' = "select"
    /\ UNCHANGED <<phase, starting, next, previous_active>>

\* Mutant: the file is read again when the start is done.
StartOkReadsAgain(listeners) ==
    /\ active' = listeners
    /\ bound' = listeners
    /\ current_cfg' = starting
    /\ current_raw' = file
    /\ pc' = "select"
    /\ UNCHANGED <<phase, starting, next, previous_active>>

\* The call returned its listeners.
StartOk(listeners) ==
    /\ active' = listeners
    /\ bound' = listeners
    /\ current_cfg' = starting
    /\ current_raw' = IF phase = "boot" THEN current_raw ELSE raw
    /\ pc' = "select"
    /\ UNCHANGED <<phase, starting, next, previous_active>>

\* Mutant: the sockets of the mappings before the failing one stay open.
StartFailedLeaksSockets ==
    /\ \/ phase = "boot" /\ pc' = "exited" /\ UNCHANGED <<phase, current_raw, starting, next>>
       \/ phase = "new" /\ phase' = "restore" /\ Starting(current_cfg) /\ UNCHANGED current_raw
       \/ /\ phase = "restore"
          /\ pc' = "select"
          /\ current_raw' = raw
          /\ UNCHANGED <<phase, starting, next>>
    /\ UNCHANGED <<current_cfg, active, previous_active, bound>>

\* The call returned an error, which closes every socket it had opened: the
\* process ends at boot, a reload falls back on the previous configuration,
\* and a fallback that fails too leaves the daemon without listeners.
StartFailed ==
    /\ bound' = {}
    /\ \/ /\ phase = "boot"
          /\ pc' = "exited"
          /\ UNCHANGED <<phase, current_raw, starting, next>>
       \/ /\ phase = "new"
          /\ phase' = "restore"
          /\ Starting(current_cfg)
          /\ UNCHANGED current_raw
       \/ /\ phase = "restore"
          /\ pc' = "select"
          /\ current_raw' = raw
          /\ UNCHANGED <<phase, starting, next>>
    /\ UNCHANGED <<current_cfg, active, previous_active>>

\* It reads the host key and the authorized keys; a configuration without
\* mappings is done then.
LoadKeys ==
    /\ pc = "start"
    /\ IF Inputs(starting) \cap unreadable # {}
       THEN StartFailed
       ELSE IF starting.mappings = <<>>
       THEN StartOk({})
       ELSE /\ pc' = "bind"
            /\ UNCHANGED <<phase, current_raw, current_cfg, starting, next,
                           active, previous_active, bound>>
    /\ UNCHANGED <<worldVars, pid_file, raw>>

\* build_listeners for one mapping.  A socket another process or an earlier
\* mapping listens on cannot be bound.
CanBind ==
    /\ starting.listen_host # "unparsable"
    /\ SocketsOf(ListenersAt(starting, next)) \cap (foreign \cup SocketsOf(bound)) = {}

BindNext ==
    /\ pc = "bind"
    /\ next <= Len(starting.mappings)
    /\ IF CanBind
       THEN /\ bound' = bound \cup ListenersAt(starting, next)
            /\ next' = next + 1
            /\ UNCHANGED <<pc, phase, current_raw, current_cfg, starting,
                           active, previous_active>>
       ELSE StartFailed
    /\ UNCHANGED <<worldVars, pid_file, raw>>

SpawnTasks ==
    /\ pc = "bind"
    /\ next > Len(starting.mappings)
    /\ StartOk(bound)
    /\ UNCHANGED <<worldVars, pid_file, raw>>

-----------------------------------------------------------------------------
(* run_foreground_until_shutdown and reload_if_config_changed              *)

\* The first read of the file.  An error leaves the pid file behind.
Boot ==
    /\ pc = "boot"
    /\ IF file = Missing
       THEN pc' = "exited" /\ UNCHANGED <<current_raw, current_cfg, starting, next>>
       ELSE /\ current_raw' = file
            /\ IF Parse[file] = Invalid
               THEN pc' = "exited" /\ UNCHANGED <<current_cfg, starting, next>>
               ELSE current_cfg' = Parse[file] /\ Starting(Parse[file])
    /\ UNCHANGED <<worldVars, pid_file, phase, raw, active, previous_active, bound>>

\* A tick whose read fails, or finds the bytes it saw last, changes nothing.
ReloadInvalid ==
    /\ pc = "select"
    /\ file \notin {Missing, current_raw}
    /\ Parse[file] = Invalid
    /\ current_raw' = file
    /\ UNCHANGED <<worldVars, pid_file, pc, phase, current_cfg, raw, starting, next,
                   active, previous_active, bound>>

ReloadChanged ==
    /\ pc = "select"
    /\ file \notin {Missing, current_raw}
    /\ Parse[file] # Invalid
    /\ raw' = file
    /\ starting' = Parse[file]
    /\ previous_active' = active
    /\ active' = {}
    /\ pc' = "stop"
    /\ UNCHANGED <<worldVars, pid_file, phase, current_raw, current_cfg, next, bound>>

\* Mutant: a task is aborted but its end is not awaited.
StopNextWithoutAwait(listener) ==
    /\ pc \in {"stop", "drain"}
    /\ listener \in previous_active
    /\ previous_active' = previous_active \ {listener}
    /\ UNCHANGED <<worldVars, pid_file, pc, phase, current_raw, current_cfg, raw,
                   starting, next, active, bound>>

\* Mutant: waits for the end of a task that ended before for ever.
StopNextMissesEnd(listener) ==
    /\ pc \in {"stop", "drain"}
    /\ listener \in previous_active \cap bound
    /\ previous_active' = previous_active \ {listener}
    /\ bound' = bound \ {listener}
    /\ UNCHANGED <<worldVars, pid_file, pc, phase, current_raw, current_cfg, raw,
                   starting, next, active>>

\* ActiveListeners::stop aborts one task and awaits its end, which closes the
\* socket if the task had not failed before.
StopNext(listener) ==
    /\ pc \in {"stop", "drain"}
    /\ listener \in previous_active
    /\ previous_active' = previous_active \ {listener}
    /\ bound' = bound \ {listener}
    /\ UNCHANGED <<worldVars, pid_file, pc, phase, current_raw, current_cfg, raw,
                   starting, next, active>>

StartNew ==
    /\ pc = "stop"
    /\ previous_active = {}
    /\ phase' = "new"
    /\ Starting(starting)
    /\ UNCHANGED <<worldVars, pid_file, current_raw, current_cfg, raw, active,
                   previous_active, bound>>

SelectShutdown ==
    /\ pc = "select"
    /\ shutdown
    /\ pc' = "drain"
    /\ previous_active' = active
    /\ active' = {}
    /\ UNCHANGED <<worldVars, pid_file, phase, current_raw, current_cfg, raw, starting,
                   next, bound>>

\* Mutant: the pid file goes before the listeners.
RemovePidFileFirst ==
    /\ pc = "drain"
    /\ pid_file' = FALSE
    /\ pc' = IF previous_active = {} THEN "exited" ELSE pc
    /\ UNCHANGED <<worldVars, phase, current_raw, current_cfg, raw, starting, next,
                   active, previous_active, bound>>

RemovePidFile ==
    /\ pc = "drain"
    /\ previous_active = {}
    /\ pid_file' = FALSE
    /\ pc' = "exited"
    /\ UNCHANGED <<worldVars, phase, current_raw, current_cfg, raw, starting, next,
                   active, previous_active, bound>>

-----------------------------------------------------------------------------
Init ==
    /\ file \in Raw \cup {Missing}
    /\ foreign = {}
    /\ unreadable = {}
    /\ shutdown = FALSE
    /\ pid_file = TRUE
    /\ pc = "boot"
    /\ phase = "boot"
    /\ current_raw = Missing
    /\ current_cfg = NoConfig
    /\ raw = Missing
    /\ starting = NoConfig
    /\ next = 1
    /\ active = {}
    /\ previous_active = {}
    /\ bound = {}

World ==
    \/ \E contents \in Raw \cup {Missing} : EditFile(contents)
    \/ \E socket \in Squattable : Squat(socket)
    \/ \E socket \in foreign : Release(socket)
    \/ \E input \in {"host_key", "authorized_keys"} : ToggleReadable(input)
    \/ RequestShutdown
    \/ \E listener \in bound : ListenerFails(listener)

Daemon ==
    \/ Boot
    \/ LoadKeys
    \/ BindNext
    \/ SpawnTasks
    \/ ReloadInvalid
    \/ ReloadChanged
    \/ \E listener \in previous_active : StopNext(listener)
    \/ StartNew
    \/ SelectShutdown
    \/ RemovePidFile

Next == World \/ Daemon

\* The runtime polls a daemon that is ready, and select polls its ready
\* branches in random order, so a shutdown that is ready whenever the loop
\* comes back is not passed over for ever.
Fairness == WF_vars(Daemon) /\ SF_vars(SelectShutdown)

Spec == Init /\ [][Next]_vars /\ Fairness

-----------------------------------------------------------------------------
(* Properties                                                              *)

PC == {"boot", "start", "bind", "select", "stop", "drain", "exited"}

\* Every variable keeps its type.
TypeOK ==
    /\ file \in Raw \cup {Missing}
    /\ foreign \subseteq Socket
    /\ unreadable \subseteq {"host_key", "authorized_keys"}
    /\ shutdown \in BOOLEAN
    /\ pid_file \in BOOLEAN
    /\ pc \in PC
    /\ phase \in {"boot", "new", "restore"}
    /\ current_raw \in Raw \cup {Missing}
    /\ current_cfg \in ConfigFile
    /\ raw \in Raw \cup {Missing}
    /\ starting \in ConfigFile
    /\ next \in Nat \ {0}
    /\ active \subseteq Listener
    /\ previous_active \subseteq Listener
    /\ bound \subseteq Listener

\* The process has exactly the sockets open that this point of the code
\* accounts for: nothing of the old set is left when a start begins, a failed
\* start gives everything back, and a listener runs only while a handle that
\* can stop it is held.  (start_listener_set, ActiveListeners::stop)
OwnsOnlyItsSet ==
    /\ pc \in {"boot", "start", "exited"} => bound = {}
    /\ pc = "bind" => bound = Opened(starting, next - 1)
    /\ pc = "select" => bound \subseteq active
    /\ pc \in {"stop", "drain"} => bound \subseteq previous_active

\* Whenever the loop waits, it holds the listeners of the configuration it
\* believes it serves, with their containers and authorization, or none:
\* never a part, a mixture, or the set of a configuration that was given up.
\* (reload_if_config_changed)
WholeSet == pc = "select" => active \in {{}, Listeners(current_cfg)}

\* Once its pid file is removed the daemon has no listener open, so whoever
\* finds no pid file can start a daemon on the same ports.
\* (run_foreground_until_shutdown, the last three lines)
PidFileOutlivesListeners == ~pid_file => bound = {} /\ pc = "exited"

\* Nobody takes from the daemon what the configuration it serves needs.
CurrentUndisturbed ==
    /\ SocketsOf(Listeners(current_cfg)) \cap foreign = {}
    /\ Inputs(current_cfg) \cap unreadable = {}

\* A reload that fails costs no listener: as long as nobody takes the sockets
\* and keys of the configuration in service, whatever is written into the file
\* leaves the daemon with all listeners of the one it serves.
\* (reload_if_config_changed, the restore branch)
RollbackKeepsService ==
    []CurrentUndisturbed => [](pc = "select" => active = Listeners(current_cfg))

\* A file that stays as it is makes the daemon restart its listeners a finite
\* number of times: a configuration that cannot be started is not tried on
\* every tick.  (reload_if_config_changed sets current_raw on every path)
Settles ==
    <>[][UNCHANGED file]_vars => <>[](pc \in {"select", "exited"})

\* The file holds a configuration.
FileParses == file # Missing /\ Parse[file] # Invalid

FileStartable == FileParses /\ Startable(Parse[file])

ServesFile == pc = "select" /\ FileParses /\ active = Listeners(Parse[file])

\* With no other process and no unreadable file in the way, the last contents
\* of the file that can be started are in service in the end, however many
\* edits came while earlier ones were being started, unless the daemon ended.
\* (reload_if_config_changed compares the bytes it read, not a later read)
ServesLastConfig ==
    /\ [](foreign = {} /\ unreadable = {})
    /\ <>[][UNCHANGED file]_vars
    => <>[](pc = "exited" \/ (pc = "select" /\ (FileStartable => ServesFile)))

\* A shutdown asked of a daemon in its loop ends the process and its pid file,
\* also while the file keeps changing and listeners fail.
\* (run_foreground_until_shutdown, the select loop and what follows it)
ShutdownCompletes == (pc = "select" /\ shutdown) ~> (pc = "exited" /\ ~pid_file)

\* What the README says of the daemon, that it "restarts listeners
\* automatically when mappings change": a change that stays in the file, and
\* that nothing stands in the way of any more, is in service in the end.
ChangeTakesEffect ==
    /\ <>[][UNCHANGED worldVars]_vars
    /\ <>[](~shutdown /\ FileParses /\ Servable(Parse[file]))
    => <>[](pc = "exited" \/ ServesFile)
=============================================================================
