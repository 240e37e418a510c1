---------------------------- MODULE ConfigStore ----------------------------
(***************************************************************************)
(* The configuration file and the commands that change it: the calls of    *)
(* ConfigStore (src/src/config.rs) that `config set` and `config rm` make  *)
(* (Cli::run, src/src/cli.rs).  A command reads the file, changes what it  *)
(* read and writes all of it back, without a lock.  fs::write truncates    *)
(* the file before it writes it, and an empty file is a configuration too: *)
(* every field has a default.                                              *)
(***************************************************************************)
EXTENDS Naturals, Sequences, FiniteSets

CONSTANTS
    Port,           \* ports, as numbers
    RequestPort,    \* ports commands name
    Container,      \* names of containers that exist
    Unknown,        \* names docker does not know
    Shell,          \* values of --shell
    NoShell,        \* no shell is configured
    Keep,           \* neither --shell nor --clear-shell was given
    NoEntry,        \* the port is not mapped
    Custom,         \* settings an administrator has written
    Missing,        \* the file does not exist
    Invalid,        \* the file is no configuration
    InitialFile,    \* what the file may hold at first
    Command,        \* commands that can run at the same time
    OneAtATime,     \* a command is started only when the last one returned
    KilledInWrite   \* a command can be killed while it writes

Default == "default"
Settings == {Default} \cup Custom
MappingSpec == [port : Port, container : Container, shell : Shell \cup {NoShell}]
ConfigFile == [settings : Settings, mappings : Seq(MappingSpec)]

ASSUME PortAssumption == Port \subseteq Nat /\ RequestPort \subseteq Port
ASSUME NameAssumption ==
    /\ Keep \notin Shell \cup {NoShell}
    /\ NoShell \notin Shell
    /\ Missing # Invalid
    /\ NoEntry \notin [container : Container, shell : Shell \cup {NoShell}]
ASSUME FileAssumption ==
    /\ Missing \notin ConfigFile /\ Invalid \notin ConfigFile
    /\ \A f \in InitialFile : f \in {Missing, Invalid} \/ f \in ConfigFile

\* The file load_or_create writes, and what an empty file parses to.
Blank == [settings |-> Default, mappings |-> <<>>]

VARIABLES
    file,   \* what the file parses to, Missing or Invalid
    cmd     \* the commands that run

vars == <<file, cmd>>

-----------------------------------------------------------------------------
(* upsert_mapping and remove_mapping, on the list they load.               *)

Matches(ms, port) == {i \in 1 .. Len(ms) : ms[i].port = port}

\* find: the first mapping of the port
First(ms, port) == CHOOSE i \in Matches(ms, port) :
                       \A j \in Matches(ms, port) : i <= j

\* The place the i-th mapping gets: sort_by_key is stable.
Rank(ms, i) ==
    Cardinality({j \in 1 .. Len(ms) : \/ ms[j].port < ms[i].port
                                      \/ ms[j].port = ms[i].port /\ j <= i})

\* The mappings at these places, in the order of their ranks.
Place(places, rank, k) == CHOOSE i \in places : rank[i] = k

Arranged(ms, places, rank) ==
    [k \in 1 .. Cardinality(places) |-> ms[Place(places, rank, k)]]

SortByPort(ms) ==
    Arranged(ms, 1 .. Len(ms), [i \in 1 .. Len(ms) |-> Rank(ms, i)])

\* Mutant: a new mapping goes to the end.
UpsertAtEnd(ms, port, container, shell) ==
    IF Matches(ms, port) # {}
    THEN [ms EXCEPT ![First(ms, port)].container = container,
                    ![First(ms, port)].shell = IF shell = Keep THEN @ ELSE shell]
    ELSE Append(ms, [port |-> port,
                     container |-> container,
                     shell |-> IF shell = Keep THEN NoShell ELSE shell])

\* Mutant: an absent option is stored as it is.
UpsertKeepsFlag(ms, port, container, shell) ==
    IF Matches(ms, port) # {}
    THEN [ms EXCEPT ![First(ms, port)].container = container,
                    ![First(ms, port)].shell = shell]
    ELSE SortByPort(Append(ms, [port |-> port, container |-> container, shell |-> shell]))

\* Mutant: an existing mapping is looked for by its container.
UpsertByContainer(ms, port, container, shell) ==
    LET same == {i \in 1 .. Len(ms) : ms[i].container = container}
    IN  IF same # {}
        THEN [ms EXCEPT ![CHOOSE i \in same : \A j \in same : i <= j].shell =
                  IF shell = Keep THEN @ ELSE shell]
        ELSE SortByPort(Append(ms, [port |-> port, container |-> container,
                                    shell |-> IF shell = Keep THEN NoShell ELSE shell]))

Upsert(ms, port, container, shell) ==
    IF Matches(ms, port) # {}
    THEN [ms EXCEPT ![First(ms, port)].container = container,
                    ![First(ms, port)].shell = IF shell = Keep THEN @ ELSE shell]
    ELSE SortByPort(Append(ms, [port |-> port,
                                container |-> container,
                                shell |-> IF shell = Keep THEN NoShell ELSE shell]))

\* retain: the mappings of other ports, in the order they are in.
Kept(ms, port) == {i \in 1 .. Len(ms) : ms[i].port # port}

InTurn(places) == [i \in places |-> Cardinality({j \in places : j <= i})]

Remove(ms, port) == Arranged(ms, Kept(ms, port), InTurn(Kept(ms, port)))

-----------------------------------------------------------------------------
(* The commands.                                                           *)

\* A command that does not run.
None == [at |-> "idle"]

Idle == \A c \in Command : cmd[c] = None

Start(c, request) ==
    /\ OneAtATime => Idle
    /\ cmd[c] = None
    /\ cmd' = [cmd EXCEPT ![c] = [at |-> "metadata", request |-> request,
                                  cfg |-> Blank]]
    /\ UNCHANGED file

\* (`op` is last, where TLC keeps it: its workers share the request of an action.)
ConfigSet(c, port, container, shell) ==
    Start(c, [port |-> port, container |-> container, shell |-> shell, op |-> "set"])

ConfigRm(c, port) == Start(c, [port |-> port, op |-> "rm"])

Goto(c, where) == cmd' = [cmd EXCEPT ![c].at = where]
Return(c) == cmd' = [cmd EXCEPT ![c] = None]

\* load_or_create: whether there is a file.  Only `set` loads it to find docker.
AfterMetadata(c) == IF cmd[c].request.op = "set" THEN "docker" ELSE "load"

Metadata(c) ==
    /\ cmd[c].at = "metadata"
    /\ Goto(c, IF file = Missing THEN "create" ELSE AfterMetadata(c))
    /\ UNCHANGED file

\* load_or_create: fs::write of a blank configuration, which reads the same
\* when it is truncated as when it is written.
Create(c) ==
    /\ cmd[c].at = "create"
    /\ file' = Blank
    /\ Goto(c, "created")

CreateWrite(c) ==
    /\ cmd[c].at = "created"
    /\ file' = Blank
    /\ Goto(c, AfterMetadata(c))

\* `set` loads the file and asks docker whether the container exists.
InspectContainer(c) ==
    /\ cmd[c].at = "docker"
    /\ IF file \notin {Missing, Invalid} /\ cmd[c].request.container \notin Unknown
       THEN Goto(c, "load")
       ELSE Return(c)
    /\ UNCHANGED file

Changed(cfg, request) ==
    [cfg EXCEPT !.mappings =
        IF request.op = "set"
        THEN Upsert(@, request.port, request.container, request.shell)
        ELSE Remove(@, request.port)]

\* upsert_mapping and remove_mapping load the file (again) and change the list.
Load(c) ==
    /\ cmd[c].at = "load"
    /\ IF file \in {Missing, Invalid}
       THEN Return(c)
       ELSE cmd' = [cmd EXCEPT ![c].at = "truncate",
                               ![c].cfg = Changed(file, cmd[c].request)]
    /\ UNCHANGED file

\* save: fs::write opens the file and truncates it ...
SaveTruncate(c) ==
    /\ cmd[c].at = "truncate"
    /\ file' = Blank
    /\ Goto(c, "write")

\* ... and writes the whole configuration.
SaveWrite(c) ==
    /\ cmd[c].at = "write"
    /\ file' = cmd[c].cfg
    /\ Return(c)

\* Ctrl-C or a signal ends the command; what it has written stays.
Killed(c) ==
    /\ cmd[c] # None
    /\ cmd[c].at = "write" => KilledInWrite
    /\ Return(c)
    /\ UNCHANGED file

-----------------------------------------------------------------------------
Init ==
    /\ file \in InitialFile
    /\ cmd = [c \in Command |-> None]

CommandStep(c) ==
    \/ Metadata(c)
    \/ Create(c)
    \/ CreateWrite(c)
    \/ InspectContainer(c)
    \/ Load(c)
    \/ SaveTruncate(c)
    \/ SaveWrite(c)
    \/ Killed(c)

Next ==
    \E c \in Command :
        \/ \E p \in RequestPort, n \in Container \cup Unknown, sh \in Shell \cup {NoShell, Keep} :
              ConfigSet(c, p, n, sh)
        \/ \E p \in RequestPort : ConfigRm(c, p)
        \/ CommandStep(c)

Spec == Init /\ [][Next]_vars

-----------------------------------------------------------------------------
(* The file as a table.                                                    *)

\* What the file says, or will say when the command that has truncated it has
\* written it.
Contents ==
    LET writing == {c \in Command : cmd[c].at = "write"}
    IN  IF writing # {} THEN cmd[CHOOSE c \in writing : TRUE].cfg
        ELSE IF file \in {Missing, Invalid} THEN Blank
        ELSE file

\* The requests of commands that have not begun to write.
Pending == {cmd[c].request : c \in {d \in Command : cmd[d].at \notin {"idle", "write"}}}

\* The entry in force for a port is its first one: the one `set` changes.
EntryOf(ms, port) ==
    IF Matches(ms, port) = {} THEN NoEntry
    ELSE [container |-> ms[First(ms, port)].container,
          shell |-> ms[First(ms, port)].shell]

Table == INSTANCE MappingTable
         WITH table <- [p \in Port |-> EntryOf(Contents.mappings, p)],
              settings <- Contents.settings,
              pending <- Pending

-----------------------------------------------------------------------------
(* Properties                                                              *)

\* Every variable keeps its type.
TypeOK ==
    /\ file \in {Missing, Invalid} \/ file \in ConfigFile
    /\ \A c \in Command :
          cmd[c] = None \/ cmd[c].cfg \in ConfigFile

\* Commands that run one at a time change the entry of the port they were given,
\* to the container and shell they were given, once and nothing else, whatever
\* order and duplicates somebody edited into the file; a command that fails or
\* is killed before it writes changes nothing.
\* (upsert_mapping, remove_mapping)
ImplementsTable == Table!Spec

\* A file nobody edited by hand never maps a port twice and stays in order, so
\* the daemon can start what the commands wrote.
\* (upsert_mapping, against the bind of start_listener_set)
WellFormed(ms) == \A i, j \in 1 .. Len(ms) : i < j => ms[i].port < ms[j].port

StaysWellFormed ==
    [][/\ file \in ConfigFile /\ WellFormed(Contents.mappings)
       => WellFormed(Contents'.mappings)]_vars

\* What the command line's help says of `config set` and `config rm`, that they
\* "add or update a mapping" and "remove a mapping by port": ports that no
\* command names keep the entries of the initial file.
OthersKept ==
    Idle => \E f \in InitialFile : \A p \in Port \ RequestPort :
               EntryOf(Contents.mappings, p) = EntryOf(f.mappings, p)
=============================================================================
