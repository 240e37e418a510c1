---------------------------- MODULE DockerEngine ----------------------------
(***************************************************************************)
(* The docker engine and the kernel's process table, as far as the daemon  *)
(* depends on them, and the daemon's look-up of a container                *)
(* (DockerBackend in src/src/docker.rs).                                   *)
(*                                                                         *)
(* A name or an id is a sequence of characters, because a container is     *)
(* also found by the beginning of its id.  The processes of a container    *)
(* share its network namespace; a process is what its pid stands for, and  *)
(* a pid is given to another process when the first one is gone.           *)
(***************************************************************************)
EXTENDS Naturals, Sequences, SequencesExt

CONSTANTS
    Name,         \* names of containers
    Id,           \* ids of containers; each is given once
    Pid,          \* pids
    FirstNames,   \* the containers at the beginning: a function of Name
    FirstProc,    \* the processes at the beginning: a function of Pid
    MaxChanges    \* bound: changes of the engine and the processes

NoId == <<>>            \* no container
Host == <<"host">>      \* a process outside containers, and the host's namespace
Free == <<"free">>      \* no process

\* Ids are told from names and, having one length, do not begin one another.
ASSUME IdAssumption ==
    /\ Id \subseteq Seq(STRING) /\ Name \subseteq Seq(STRING)
    /\ {NoId, Host, Free} \cap Id = {} /\ ({NoId} \cup Id) \cap Name = {}
    /\ \A i, j \in Id : IsPrefix(i, j) => i = j
ASSUME FirstAssumption ==
    /\ FirstNames \in [Name -> Id \cup {NoId}]
    /\ \A m, n \in Name : FirstNames[m] = FirstNames[n] /\ m # n => FirstNames[m] = NoId
    /\ FirstProc \in [Pid -> Id \cup {Host, Free}]
ASSUME ChangeAssumption == MaxChanges \in Nat

VARIABLES
    names,      \* names[n]: the container called n
    used,       \* ids given so far
    proc,       \* proc[p]: whose process p is
    taken,      \* taken[p]: how many processes were given pid p
    reachable,  \* the engine answers
    changes,    \* changes so far
    moves       \* those of names, of the engine and of what listens on ports

engineVars == <<names, used, proc, taken, reachable, changes, moves>>

Exists(i) == \E n \in Name : names[n] = i
Running(i) == \E p \in Pid : proc[p] = i

-----------------------------------------------------------------------------
Count == changes < MaxChanges /\ changes' = changes + 1

\* A container or a process comes or goes.
Change == Count /\ UNCHANGED moves

\* Something is called otherwise, or cannot be reached as before.
Move == Count /\ moves' = moves + 1

Start(who, p) ==
    /\ proc[p] = Free
    /\ proc' = [proc EXCEPT ![p] = who]
    /\ taken' = [taken EXCEPT ![p] = @ + 1]

StartContainer(i, p) ==
    /\ Change
    /\ Exists(i) /\ ~Running(i) /\ Start(i, p)
    /\ UNCHANGED <<names, used, reachable>>

HostProcess(p) ==
    /\ Change
    /\ Start(Host, p)
    /\ UNCHANGED <<names, used, reachable>>

Ended(i) == [p \in Pid |-> IF proc[p] = i THEN Free ELSE proc[p]]

StopContainer(i) ==
    /\ Change
    /\ Running(i)
    /\ proc' = Ended(i)
    /\ UNCHANGED <<names, used, taken, reachable>>

RemoveContainer(n) ==
    /\ Move
    /\ names[n] # NoId
    /\ proc' = Ended(names[n])
    /\ names' = [names EXCEPT ![n] = NoId]
    /\ UNCHANGED <<used, taken, reachable>>

CreateContainer(n, i) ==
    /\ Move
    /\ names[n] = NoId /\ i \notin used
    /\ names' = [names EXCEPT ![n] = i]
    /\ used' = used \cup {i}
    /\ UNCHANGED <<proc, taken, reachable>>

RenameContainer(m, n) ==
    /\ Move
    /\ names[m] # NoId /\ names[n] = NoId
    /\ names' = [names EXCEPT ![m] = NoId, ![n] = names[m]]
    /\ UNCHANGED <<used, proc, taken, reachable>>

\* The engine is stopped, or started again; containers go on without it.
ToggleEngine ==
    /\ Move
    /\ reachable' = ~reachable
    /\ UNCHANGED <<names, used, proc, taken>>

EngineInit ==
    /\ names = FirstNames
    /\ used = {FirstNames[n] : n \in Name} \ {NoId}
    /\ proc = FirstProc
    /\ taken = [p \in Pid |-> 0]
    /\ reachable = TRUE
    /\ changes = 0
    /\ moves = 0

EngineNext ==
    \/ \E i \in Id, p \in Pid : StartContainer(i, p)
    \/ \E p \in Pid : HostProcess(p)
    \/ \E i \in Id : StopContainer(i)
    \/ \E n \in Name : RemoveContainer(n)
    \/ \E n \in Name, i \in Id : CreateContainer(n, i)
    \/ \E m, n \in Name : RenameContainer(m, n)
    \/ ToggleEngine

EngineTypeOK ==
    /\ names \in [Name -> Id \cup {NoId}]
    /\ used \subseteq Id
    /\ proc \in [Pid -> Id \cup {Host, Free}]
    /\ taken \in [Pid -> 0 .. MaxChanges]
    /\ reachable \in BOOLEAN
    /\ changes \in 0 .. MaxChanges
    /\ moves \in 0 .. changes

-----------------------------------------------------------------------------
(* Look-ups.                                                               *)

\* The container the engine takes ref for: the one with this id, the one of
\* this name, or the only one whose id begins so.
Beginning(ref) == {i \in Id : Exists(i) /\ ref # <<>> /\ IsPrefix(ref, i)}

Finds(ref) ==
    IF ref \in Id /\ Exists(ref) THEN ref
    ELSE IF ref \in Name /\ names[ref] # NoId THEN names[ref]
    ELSE IF \E i \in Id : Beginning(ref) = {i} THEN CHOOSE i \in Id : Beginning(ref) = {i}
    ELSE NoId

\* inspect_container succeeds with container i; it fails without the engine
\* and without the container.
InspectContainer(ref, i) == reachable /\ i = Finds(ref) /\ i # NoId

InspectFails(ref) == \A i \in Id : ~InspectContainer(ref, i)

\* running_container_pid succeeds with pid p of container i.
RunningContainerPid(ref, i, p) == InspectContainer(ref, i) /\ proc[p] = i
=============================================================================
