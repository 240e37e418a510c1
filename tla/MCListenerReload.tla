-------------------------- MODULE MCListenerReload --------------------------
(* A small instance of ListenerReload: two ports, two containers, and one  *)
(* content of the file for each way a start can go.                        *)
EXTENDS ListenerReload

CONSTANTS missing, invalid

MCPort == {1, 2}
MCContainer == {"a", "b"}

To(port, container) == [port |-> port, container |-> container]
Config(host, mappings, keyed) ==
    [listen_host |-> host, mappings |-> mappings, authorized_keys |-> keyed]

\* one: both families of one port.  moved: the port goes to another container,
\* a second port comes, and keys are required.  twice: a port mapped twice,
\* which cannot be started.  badhost: a host that is no address.  blank: no
\* mapping, also what a torn write leaves.  junk: no configuration.
Contents ==
    [one     |-> Config("wildcard", <<To(1, "a")>>, FALSE),
     moved   |-> Config("v4", <<To(1, "b"), To(2, "b")>>, TRUE),
     twice   |-> Config("v6", <<To(1, "a"), To(1, "b")>>, FALSE),
     badhost |-> Config("unparsable", <<To(1, "a")>>, FALSE),
     blank   |-> Config("wildcard", <<>>, FALSE),
     junk    |-> invalid]

CONSTANT Files     \* the contents of this instance

MCParse == [r \in Files |-> Contents[r]]
MCSquattable == {<<"v6", 1>>, <<"v4", 2>>}
=============================================================================
