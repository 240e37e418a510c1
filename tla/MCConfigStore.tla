--------------------------- MODULE MCConfigStore ---------------------------
(* Instances of ConfigStore: files as an administrator may have left them. *)
EXTENDS ConfigStore

CONSTANTS a, b, noShell, missing, invalid, sh

To(port, container, shell) == [port |-> port, container |-> container, shell |-> shell]

\* Two mappings out of order, and a port mapped twice.
Edited == [settings |-> "custom",
           mappings |-> <<To(2, b, sh), To(1, a, noShell)>>]
Twice  == [settings |-> "custom",
           mappings |-> <<To(2, a, noShell), To(2, b, sh)>>]
Tidy   == [settings |-> "custom",
           mappings |-> <<To(3, a, sh)>>]

AnyFile == {missing, invalid, Edited, Twice}
TidyFile == {Tidy}

\* On lists of up to three mappings Remove is what it looks like.
Lists == UNION {[1 .. n -> [port : {1, 2}, container : {a, b}, shell : {sh}]] : n \in 0 .. 3}
ASSUME RemoveAssumption ==
    \A ms \in Lists, p \in {1, 2} : Remove(ms, p) = SelectSeq(ms, LAMBDA m : m.port # p)
=============================================================================
