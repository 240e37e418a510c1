---------------------------- MODULE NetnsForward ----------------------------
(***************************************************************************)
(* TCP forwards into a container (connect_direct_tcpip_target and          *)
(* connect_in_network_namespace in src/src/ssh_server.rs).  The look-up of *)
(* the container's pid is awaited; the rest runs in a thread of the        *)
(* runtime's blocking pool, which enters the namespace of that pid,        *)
(* connects, and returns.                                                  *)
(*                                                                         *)
(* The namespace to return to is read from /proc/self, which is that of    *)
(* the process and not of the thread: always the host's.                   *)
(***************************************************************************)
EXTENDS DockerEngine

CONSTANTS
    Forward,      \* forwards
    Thread,       \* threads of the blocking pool
    ForwardTo,    \* what mappings call their containers
    MaxAddresses  \* bound: addresses a host name resolves to

ASSUME AddressAssumption == MaxAddresses \in Nat

NoForward == "none"
ASSUME ForwardAssumption == NoForward \notin Forward

VARIABLES
    step,    \* step[f]: what forward f does next, or its outcome
    found,   \* found[f]: container and pid looked up, and the latter's count
    target,  \* target[f]: the namespace opened
    left,    \* left[f]: addresses still to be tried
    stream,  \* stream[f]: the namespace its connection leads into
    job,     \* job[t]: the forward thread t works for
    ns       \* ns[t]: the namespace thread t is in

forwardVars == <<step, found, target, left, stream, job, ns>>

NothingFound == [id |-> NoId, pid |-> 0, taken |-> 0]
Namespace == Id \cup {Host}
NoNamespace == Free

-----------------------------------------------------------------------------
LookUp(f, ref) ==
    /\ step[f] = "none"
    /\ \/ \E i \in Id, p \in Pid :
             /\ RunningContainerPid(ref, i, p)
             /\ found' = [found EXCEPT ![f] = [id |-> i, pid |-> p, taken |-> taken[p]]]
             /\ step' = [step EXCEPT ![f] = "queued"]
       \/ /\ \A i \in Id, p \in Pid : ~RunningContainerPid(ref, i, p)
          /\ step' = [step EXCEPT ![f] = "failed"]
          /\ UNCHANGED found
    /\ UNCHANGED <<target, left, stream, job, ns>>

\* An idle thread takes the forward up.
Run(f, t) ==
    /\ step[f] = "queued" /\ job[t] = NoForward
    /\ job' = [job EXCEPT ![t] = f]
    /\ step' = [step EXCEPT ![f] = "open"]
    /\ UNCHANGED <<found, target, left, stream, ns>>

\* The function returns in thread t.
Return(f, t, outcome) ==
    /\ step' = [step EXCEPT ![f] = outcome]
    /\ job' = [job EXCEPT ![t] = NoForward]

\* The namespace of whatever process has the pid by now.
OpenTarget(f, t) ==
    /\ step[f] = "open" /\ job[t] = f
    /\ IF proc[found[f].pid] = Free
       THEN Return(f, t, "failed") /\ UNCHANGED target
       ELSE /\ target' = [target EXCEPT ![f] = proc[found[f].pid]]
            /\ step' = [step EXCEPT ![f] = "enter"]
            /\ UNCHANGED job
    /\ UNCHANGED <<found, left, stream, ns>>

\* Mutant: a failure to enter the namespace is ignored.
EnterIgnored(f, t) ==
    /\ step[f] = "enter" /\ job[t] = f
    /\ ns' \in {ns, [ns EXCEPT ![t] = target[f]]}
    /\ left' \in {[left EXCEPT ![f] = n] : n \in 0 .. MaxAddresses}
    /\ step' = [step EXCEPT ![f] = "connect"]
    /\ UNCHANGED <<found, target, stream, job>>

Enter(f, t) ==
    /\ step[f] = "enter" /\ job[t] = f
    /\ \/ /\ ns' = [ns EXCEPT ![t] = target[f]]
          /\ left' \in {[left EXCEPT ![f] = n] : n \in 0 .. MaxAddresses}
          /\ step' = [step EXCEPT ![f] = "connect"]
          /\ UNCHANGED job
       \/ Return(f, t, "failed") /\ UNCHANGED <<ns, left>>
    /\ UNCHANGED <<found, target, stream>>

\* Mutant: an attempt too many.
ConnectOnceMore(f, t) ==
    /\ step[f] = "connect" /\ job[t] = f
    /\ \/ /\ stream' = [stream EXCEPT ![f] = ns[t]]
          /\ step' = [step EXCEPT ![f] = "restore"]
          /\ left' = [left EXCEPT ![f] = 0]
       \/ /\ left' = [left EXCEPT ![f] = @ - 1]
          /\ step' = [step EXCEPT ![f] = IF left[f] = 0 THEN "restore" ELSE @]
          /\ UNCHANGED stream
    /\ UNCHANGED <<found, target, job, ns>>

\* Mutant: without an address that answers there is no result.
ConnectOnly(f, t) ==
    /\ step[f] = "connect" /\ job[t] = f
    /\ left[f] > 0
    /\ stream' = [stream EXCEPT ![f] = ns[t]]
    /\ step' = [step EXCEPT ![f] = "restore"]
    /\ left' = [left EXCEPT ![f] = 0]
    /\ UNCHANGED <<found, target, job, ns>>

\* connect_blocking tries the addresses one after the other, 5 seconds each.
Connect(f, t) ==
    /\ step[f] = "connect" /\ job[t] = f
    /\ \/ /\ left[f] > 0
          /\ stream' = [stream EXCEPT ![f] = ns[t]]
          /\ step' = [step EXCEPT ![f] = "restore"]
          /\ left' = [left EXCEPT ![f] = 0]
       \/ /\ left[f] > 0
          /\ left' = [left EXCEPT ![f] = @ - 1]
          /\ UNCHANGED <<stream, step>>
       \/ /\ left[f] = 0
          /\ step' = [step EXCEPT ![f] = "restore"]
          /\ UNCHANGED <<stream, left>>
    /\ UNCHANGED <<found, target, job, ns>>

\* Mutant: a connection made counts, wherever the thread is.
RestoreIgnored(f, t) ==
    /\ step[f] = "restore" /\ job[t] = f
    /\ ns' \in {ns, [ns EXCEPT ![t] = Host]}
    /\ Return(f, t, IF stream[f] = NoNamespace THEN "failed" ELSE "established")
    /\ UNCHANGED <<found, target, left, stream>>

\* The forward succeeds if both the connection and the return did; a connection
\* made before a failed return is dropped.
Restore(f, t) ==
    /\ step[f] = "restore" /\ job[t] = f
    /\ \/ /\ ns' = [ns EXCEPT ![t] = Host]
          /\ Return(f, t, IF stream[f] = NoNamespace THEN "failed" ELSE "established")
          /\ UNCHANGED stream
       \/ /\ Return(f, t, "failed")
          /\ stream' = [stream EXCEPT ![f] = NoNamespace]
          /\ UNCHANGED ns
    /\ UNCHANGED <<found, target, left>>

-----------------------------------------------------------------------------
ForwardInit ==
    /\ step = [f \in Forward |-> "none"]
    /\ found = [f \in Forward |-> NothingFound]
    /\ target = [f \in Forward |-> NoNamespace]
    /\ left = [f \in Forward |-> 0]
    /\ stream = [f \in Forward |-> NoNamespace]
    /\ job = [t \in Thread |-> NoForward]
    /\ ns = [t \in Thread |-> Host]

ThreadStep(f, t) ==
    \/ Run(f, t) \/ OpenTarget(f, t) \/ Enter(f, t) \/ Connect(f, t) \/ Restore(f, t)

ForwardTypeOK ==
    /\ step \in [Forward -> {"none", "queued", "open", "enter", "connect", "restore",
                             "established", "failed"}]
    /\ found \in [Forward -> [id : Id \cup {NoId}, pid : Pid \cup {0},
                              taken : 0 .. MaxChanges]]
    /\ target \in [Forward -> Namespace \cup {NoNamespace}]
    /\ left \in [Forward -> 0 .. MaxAddresses]
    /\ stream \in [Forward -> Namespace \cup {NoNamespace}]
    /\ job \in [Thread -> Forward \cup {NoForward}]
    /\ ns \in [Thread -> Namespace]

-----------------------------------------------------------------------------
(* Properties                                                              *)

\* A forward that is established leads into the container that was looked up,
\* unless the pid was given to another process in the meantime.
\* (connect_in_network_namespace)
RightNetwork ==
    \A f \in Forward :
        step[f] = "established" /\ taken[found[f].pid] = found[f].taken
            => stream[f] = found[f].id

\* A thread that waits in another namespace than the host's was left there by a
\* forward that has failed: none is left there unnoticed. (the second setns)
StraysAreReported ==
    \A t \in Thread : job[t] = NoForward /\ ns[t] # Host =>
        \E f \in Forward : step[f] = "failed" /\ target[f] = ns[t]

\* Every forward is established or fails. (no wait without an end)
ForwardEnds ==
    \A f \in Forward : step[f] # "none" ~> step[f] \in {"established", "failed"}
=============================================================================
