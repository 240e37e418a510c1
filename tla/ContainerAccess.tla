-------------------------- MODULE ContainerAccess --------------------------
(***************************************************************************)
(* What sessions and commands do with the containers of the mappings while *)
(* the engine changes them: forwards, proxies and checks at the same time. *)
(* They share nothing but the engine and, the forwards, a pool of threads. *)
(***************************************************************************)
EXTENDS NetnsForward, DockerProxy, MappingCheck, FiniteSets

CONSTANT MaxCalls    \* bound: forwards, proxies and checks in one behaviour
ASSUME CallAssumption == MaxCalls \in Nat

vars == <<engineVars, forwardVars, proxyVars, checkVars>>

Calls ==
    Cardinality({f \in Forward : step[f] # "none"})
    + Cardinality({p \in Proxy : resolved[p] # Unresolved})
    + (IF check = "idle" THEN 0 ELSE 1)

Init == EngineInit /\ ForwardInit /\ ProxyInit /\ CheckInit

EngineStep == EngineNext /\ UNCHANGED <<forwardVars, proxyVars, checkVars>>

\* Another connection, or another command.
NewForward(f) ==
    /\ Calls < MaxCalls
    /\ \E ref \in ForwardTo : LookUp(f, ref)
    /\ UNCHANGED <<engineVars, proxyVars, checkVars>>

NewProxy(p) ==
    /\ Calls < MaxCalls
    /\ \E ref \in ProxyTo : Resolve(p, ref)
    /\ UNCHANGED <<engineVars, forwardVars, checkVars>>

DaemonStep == PortChanges /\ UNCHANGED <<forwardVars, proxyVars>>

NewCheck ==
    /\ Calls < MaxCalls
    /\ Begin
    /\ UNCHANGED <<engineVars, forwardVars, proxyVars>>

ForwardStep(f) ==
    /\ \E t \in Thread : ThreadStep(f, t)
    /\ UNCHANGED <<engineVars, proxyVars, checkVars>>

ProxyGoesOn(p) ==
    /\ ProxyStep(p)
    /\ UNCHANGED <<engineVars, forwardVars, checkVars>>

CheckGoesOn ==
    /\ CheckStep
    /\ UNCHANGED <<engineVars, forwardVars, proxyVars>>

Next ==
    \/ EngineStep \/ DaemonStep
    \/ \E f \in Forward : NewForward(f) \/ ForwardStep(f)
    \/ \E p \in Proxy : NewProxy(p) \/ ProxyGoesOn(p)
    \/ NewCheck \/ CheckGoesOn

\* The pool runs its threads, no call of which waits without an end.
Fairness == \A f \in Forward : WF_vars(ForwardStep(f))

Spec == Init /\ [][Next]_vars /\ Fairness

-----------------------------------------------------------------------------
(* Properties                                                              *)

\* Every variable keeps its type.
TypeOK == EngineTypeOK /\ ForwardTypeOK /\ ProxyTypeOK /\ CheckTypeOK
=============================================================================
