---------------------------- MODULE MappingTable ----------------------------
(***************************************************************************)
(* What `config set` and `config rm` promise: a table of mappings in which *)
(* a command, between its call and its return, changes the entry of the    *)
(* port it was given, as it was told to, once and at once, or fails and    *)
(* changes nothing.                                                        *)
(***************************************************************************)
CONSTANTS Port, Container, Unknown, Shell, NoShell, Keep, NoEntry

VARIABLES
    table,     \* table[p]: the entry of port p, or NoEntry
    settings,  \* the listen host, key files and socket of the file
    pending    \* requests that are neither carried out nor refused

vars == <<table, settings, pending>>

Entry == [container : Container, shell : Shell \cup {NoShell}]

Request ==
    [op : {"set"}, port : Port, container : Container \cup Unknown,
     shell : Shell \cup {NoShell, Keep}]
    \cup [op : {"rm"}, port : Port]

\* The entry of a port after `config set`: without --shell and --clear-shell
\* the shell stays as it was.
Updated(entry, container, shell) ==
    [container |-> container,
     shell |-> IF shell # Keep THEN shell
               ELSE IF entry = NoEntry THEN NoShell ELSE entry.shell]

Call(r) ==
    /\ pending' = pending \cup {r}
    /\ UNCHANGED <<table, settings>>

Apply(r) ==
    /\ r \in pending
    /\ r.op = "set" => r.container \in Container
    /\ table' = [table EXCEPT ![r.port] =
                    IF r.op = "set" THEN Updated(@, r.container, r.shell) ELSE NoEntry]
    /\ pending' = pending \ {r}
    /\ UNCHANGED settings

Fail(r) ==
    /\ r \in pending
    /\ pending' = pending \ {r}
    /\ UNCHANGED <<table, settings>>

Init ==
    /\ table \in [Port -> Entry \cup {NoEntry}]
    /\ pending = {}

Next == \E r \in Request : Call(r) \/ Apply(r) \/ Fail(r)

Spec == Init /\ [][Next]_vars
=============================================================================
