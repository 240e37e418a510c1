---------------------------- MODULE MCSshSession ----------------------------
(* An instance of SshSession with one key.                                  *)
EXTENDS SshSession

CONSTANT k1

MCKey == {k1}
MCShell == {"/bin/bash", "/bin/sh", "sh", "/bin/zsh"}

Port(configured, lines, shells, shell) ==
    [configured |-> configured, lines |-> lines, shells |-> shells, shell |-> shell]
Plain(k) == [key |-> k, comment |-> FALSE]
Commented(k) == [key |-> k, comment |-> TRUE]

\* A key, the first and the third of the default shells; no authorized_keys, and
\* a configured shell which the container has, among others; an authorized_keys
\* without keys, and one whose key has a comment.
MCSetting == {Port(TRUE, {Plain(k1)}, {"/bin/bash", "sh"}, "none"),
              Port(FALSE, {}, {"/bin/bash", "/bin/zsh"}, "/bin/zsh"),
              Port(TRUE, {Plain(k1)}, {"/bin/bash"}, "/bin/zsh"),
              Port(TRUE, {}, {"/bin/zsh"}, "/bin/zsh"),
              Port(TRUE, {Commented(k1)}, {"sh"}, "none")}
=============================================================================
