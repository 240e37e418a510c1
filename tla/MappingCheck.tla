---------------------------- MODULE MappingCheck ----------------------------
(***************************************************************************)
(* `d2s show` and `d2s doctor` (active_mappings in src/src/docker.rs and   *)
(* module doctor in src/src/ssh_server.rs): the containers of all mappings *)
(* are inspected one after the other, and the doctor then asks the docker  *)
(* API of every one that runs through its port, as a client of the daemon. *)
(***************************************************************************)
EXTENDS DockerEngine

CONSTANT Mappings    \* the containers of the mappings, in their order
ASSUME MappingAssumption == Mappings \in Seq(Seq(STRING))

VARIABLES
    port,      \* port[m]: what a connection to the port of mapping m comes to
    check,     \* what the command does next, or its outcome
    doctor,    \* it is `doctor`
    identity,  \* the key file it was given can be read, or it was given none
    index,     \* the mapping in hand
    active,    \* the active mappings found, or still to be pinged
    listed,    \* the active mappings when all were inspected
    failed,    \* mappings the doctor has found fault with
    started,   \* changes when the command started
    begun      \* moves when it started

commandVars == <<check, doctor, identity, index, active, listed, failed, started, begun>>
checkVars == <<port, commandVars>>

-----------------------------------------------------------------------------
(* The daemon: nothing listens on a port, or it refuses what the doctor    *)
(* shows it, its key or none (Authz::allows).                              *)

PortState == {"deaf", "refuses", "admits"}

PortChanges ==
    /\ Move
    /\ \E m \in DOMAIN Mappings :
           \E s \in PortState \ {port[m]} : port' = [port EXCEPT ![m] = s]
    /\ UNCHANGED <<names, used, proc, taken, reachable, commandVars>>

-----------------------------------------------------------------------------
(* The commands.                                                           *)

Begin ==
    /\ check = "idle"
    /\ check' = "inspect"
    /\ doctor' \in BOOLEAN
    /\ identity' \in {"usable", "unreadable"}
    /\ started' = changes /\ begun' = moves
    /\ index' = 1
    /\ UNCHANGED <<port, active, listed, failed>>

\* Mutant: containers that do not run are listed.
AppendAll(n, i) == active' = Append(active, n)

AppendActive(n, i) == IF Running(i) THEN active' = Append(active, n) ELSE UNCHANGED active

\* What the command keeps once it has begun.
given == <<port, doctor, identity, started, begun>>

\* active_mappings: one container that cannot be inspected fails the command.
InspectNext ==
    /\ check = "inspect" /\ index <= Len(Mappings)
    /\ \/ \E i \in Id :
             /\ InspectContainer(Mappings[index], i)
             /\ AppendActive(index, i)
             /\ index' = index + 1
             /\ UNCHANGED check
       \/ /\ InspectFails(Mappings[index])
          /\ check' = "error"
          /\ UNCHANGED <<active, index>>
    /\ UNCHANGED <<given, listed, failed>>

\* The list is printed, or checked.
Listed ==
    /\ check = "inspect" /\ index > Len(Mappings)
    /\ listed' = active
    /\ check' = IF doctor /\ active # <<>> THEN "connect" ELSE "ok"
    /\ UNCHANGED <<given, index, active, failed>>

PingDone(ok) ==
    /\ failed' = IF ok THEN failed ELSE failed \cup {Head(active)}
    /\ active' = Tail(active)
    /\ check' = IF Tail(active) # <<>> THEN "connect"
                ELSE IF failed' # {} THEN "unreachable" ELSE "ok"

\* A step of ping_mapping, which goes on or fails.
PingStep(at, ok, next) ==
    /\ check = at
    /\ IF ok THEN check' = next /\ UNCHANGED <<failed, active>> ELSE PingDone(FALSE)
    /\ UNCHANGED <<given, index, listed>>

PingConnect == PingStep("connect", port[Head(active)] # "deaf", "authenticate")

\* The key file is read after the connection is made.
Authenticate ==
    PingStep("authenticate", identity = "usable" /\ port[Head(active)] = "admits", "exec")

\* Mutant: one that has stopped since is no good.
ExecRunning == PingStep("exec", Running(Finds(Mappings[Head(active)])), "ping")

\* The session resolves the container for the docker channel, or ends; it does
\* not matter whether the container runs.
Exec == PingStep("exec", ~InspectFails(Mappings[Head(active)]), "ping")

\* The engine answers /_ping, or the proxy answers that it does not.
Ping ==
    /\ check = "ping"
    /\ PingDone(reachable)
    /\ UNCHANGED <<given, index, listed>>

-----------------------------------------------------------------------------
CheckInit ==
    /\ port = [m \in DOMAIN Mappings |-> "admits"]
    /\ check = "idle" /\ doctor = FALSE /\ identity = "usable" /\ index = 1
    /\ active = <<>> /\ listed = <<>> /\ failed = {} /\ started = 0 /\ begun = 0

CheckStep == InspectNext \/ Listed \/ PingConnect \/ Authenticate \/ Exec \/ Ping

Pinging == {"connect", "authenticate", "exec", "ping"}
Over == {"ok", "unreachable", "error"}

CheckTypeOK ==
    /\ port \in [DOMAIN Mappings -> PortState]
    /\ check \in {"idle", "inspect"} \cup Pinging \cup Over
    /\ doctor \in BOOLEAN /\ identity \in {"usable", "unreadable"}
    /\ index \in 1 .. Len(Mappings) + 1
    /\ active \in Seq(1 .. Len(Mappings)) /\ listed \in Seq(1 .. Len(Mappings))
    /\ failed \subseteq 1 .. Len(Mappings)
    /\ started \in 0 .. MaxChanges /\ begun \in 0 .. MaxChanges

-----------------------------------------------------------------------------
(* Properties                                                              *)

\* The list has the first n mappings whose containers run, in their order.
HasRunning(list, n) ==
    /\ Range(list) = {m \in 1 .. n : Running(Finds(Mappings[m]))}
    /\ \A k, l \in 1 .. Len(list) : k < l => list[k] < list[l]

\* What is listed is what runs, in the order of the mappings, if nothing has
\* changed while the containers were inspected. (active_mappings)
ListsRunning ==
    check \in Over \ {"error"} /\ changes = started => HasRunning(listed, Len(Mappings))

\* The doctor cannot get in at the port of a mapping.
Faulty(m) == identity = "unreadable" \/ port[m] # "admits"

\* The doctor finds fault with the listed mappings it cannot get in at, and with
\* no other, also when containers stop between their inspection and their ping;
\* and a listing fails only without the engine or because a container does not
\* exist.  This is so if the engine, the daemon and the names stay as they were
\* when the command began. (doctor::run, ping_mapping, active_mappings)
DoctorIsRight ==
    moves = begun =>
        /\ doctor /\ check \in {"ok", "unreachable"} =>
               /\ failed = {m \in Range(listed) : Faulty(m)}
               /\ check = "unreachable" <=> failed # {}
        /\ check = "error" =>
               ~reachable \/ \E n \in 1 .. Len(Mappings) : Finds(Mappings[n]) = NoId
=============================================================================
