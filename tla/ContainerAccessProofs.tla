----------------------- MODULE ContainerAccessProofs -----------------------
(***************************************************************************)
(* Theorems about ContainerAccess, for every set of containers, pids,      *)
(* forwards, threads and proxies, every request and every bound.           *)
(*                                                                         *)
(* The invariant has a part for each module.  What forwards and proxies    *)
(* remember of the engine may be out of date: the invariant says by how    *)
(* much, and `taken`, the number of processes a pid was given to, says     *)
(* when a pid that was looked up means another process.                    *)
(***************************************************************************)
EXTENDS ContainerAccess, TLAPS

-----------------------------------------------------------------------------
(* The invariant.                                                          *)

EngineInv ==
    /\ names \in [Name -> Id \cup {NoId}]
    /\ used \subseteq Id
    /\ proc \in [Pid -> Id \cup {Host, Free}]
    /\ taken \in [Pid -> Nat]
    /\ reachable \in BOOLEAN
    /\ changes \in 0 .. MaxChanges
    /\ moves \in 0 .. changes
    /\ \A p \in Pid : taken[p] <= changes
    /\ \A n \in Name : names[n] \in used \cup {NoId}
    /\ \A m, n \in Name : names[m] = names[n] /\ m # n => names[m] = NoId

\* A forward that has begun found a process of its container; as long as the pid
\* was given to no other process, it is that one's or nobody's.
Fresh(f) == taken[found[f].pid] = found[f].taken

Entering == {"enter", "connect", "restore", "established"}

ForwardFacts(f) ==
    /\ step[f] \notin {"none", "failed"} =>
           /\ found[f].id \in Id /\ found[f].pid \in Pid
           /\ found[f].taken <= taken[found[f].pid]
    /\ step[f] \in {"queued", "open"} /\ Fresh(f) => proc[found[f].pid] \in {found[f].id, Free}
    /\ step[f] \in Entering =>
           /\ target[f] \in Namespace
           /\ Fresh(f) => target[f] = found[f].id
    /\ step[f] \in {"none", "queued", "open", "enter"} => stream[f] = NoNamespace
    /\ step[f] \in {"connect", "restore", "established"} => stream[f] \in {target[f], NoNamespace}
    /\ step[f] = "established" => stream[f] # NoNamespace

\* A thread is in the namespace of the forward it works for, or where a failed
\* one has left it.
ThreadFacts(t) ==
    /\ job[t] # NoForward =>
           /\ step[job[t]] \in {"open", "enter", "connect", "restore"}
           /\ step[job[t]] \in {"connect", "restore"} => ns[t] = target[job[t]]
    /\ ns[t] # Host =>
           \/ job[t] # NoForward /\ step[job[t]] \in {"connect", "restore"}
           \/ \E f \in Forward : step[f] = "failed" /\ target[f] = ns[t]

ForwardInv ==
    /\ ForwardTypeOK
    /\ \A f \in Forward : ForwardFacts(f)
    /\ \A t \in Thread : ThreadFacts(t)
    /\ \A t, u \in Thread : job[t] # NoForward /\ job[t] = job[u] => t = u

\* A channel has the id, and a request under /containers/ on its way names it.
OfContainers == {"list", "container"}

ProxyFacts(p) ==
    /\ IF resolved[p].id = NoId
       THEN state[p] = "closed" /\ acted[p] = {}
       ELSE resolved[p].name \in Name /\ resolved[p].name \in resolved[p].refs
    /\ state[p] = "waiting" /\ passed[p].kind \in OfContainers => passed[p].ref = resolved[p].id
    /\ \A act \in acted[p] : act.kind \in OfContainers => act.id = resolved[p].id

ProxyInv == ProxyTypeOK /\ \A p \in Proxy : ProxyFacts(p)

\* The doctor has a list: what is still to be pinged is its end.
HasList == doctor /\ check \in Pinging \cup {"ok", "unreachable"}

\* The faulty ones among the first n of the list.
FaultyOf(n) == {listed[k] : k \in {j \in 1 .. n : Faulty(listed[j])}}

\* What a check has found still holds if nothing has been moved.
CheckFacts ==
    /\ started <= changes /\ begun <= moves
    /\ check \in Pinging => active # <<>> /\ doctor
    /\ check = "idle" => active = <<>> /\ index = 1
    /\ check \in {"idle", "inspect"} => failed = {}
    /\ \A k \in 1 .. Len(active) : active[k] < index
    /\ HasList =>
           /\ Len(active) <= Len(listed)
           /\ \A k \in 1 .. Len(active) : active[k] = listed[Len(listed) - Len(active) + k]
           /\ check \in Pinging \/ active = <<>>
    /\ check \in {"ok", "unreachable"} => (check = "unreachable" <=> failed # {})
    /\ moves = begun =>
           /\ index > 1 => reachable
           /\ \A n \in 1 .. Len(Mappings) : n < index => Finds(Mappings[n]) # NoId
           /\ HasList => failed = FaultyOf(Len(listed) - Len(active))
           /\ check \in {"exec", "ping"} => ~Faulty(Head(active))
           /\ check = "error" =>
                  ~reachable \/ \E n \in 1 .. Len(Mappings) : Finds(Mappings[n]) = NoId

CheckInv == CheckTypeOK /\ CheckFacts

IInv == EngineInv /\ ForwardInv /\ ProxyInv /\ CheckInv

-----------------------------------------------------------------------------
(* Names, ids and look-ups.                                                *)

LEMMA NoneOfThem ==
    /\ NoId \notin Id /\ Host \notin Id /\ Free \notin Id /\ NoId \notin Name
    /\ NoId # Host /\ NoId # Free /\ Host # Free
  BY IdAssumption DEF NoId, Host, Free

LEMMA PrefixOfItself ==
    ASSUME NEW S, NEW s \in Seq(S)
    PROVE  IsPrefix(s, s)
  BY DEF IsPrefix

\* A look-up finds a container that exists, or none.
LEMMA FindsOneThatExists ==
    ASSUME EngineInv, NEW ref
    PROVE  /\ Finds(ref) \in Id \cup {NoId}
           /\ Finds(ref) # NoId => Exists(Finds(ref))
<1>1. CASE ref \in Id /\ Exists(ref)
  BY <1>1 DEF Finds
<1>2. CASE ~(ref \in Id /\ Exists(ref)) /\ ref \in Name /\ names[ref] # NoId
  <2>1. Finds(ref) = names[ref]
    BY <1>2 DEF Finds
  <2>2. QED  BY <1>2, <2>1 DEF EngineInv, Exists
<1>3. CASE /\ ~(ref \in Id /\ Exists(ref)) /\ ~(ref \in Name /\ names[ref] # NoId)
           /\ \E i \in Id : Beginning(ref) = {i}
  <2>1. PICK i \in Id : Beginning(ref) = {i}
    BY <1>3
  <2>2. Finds(ref) = CHOOSE j \in Id : Beginning(ref) = {j}
    BY <1>3 DEF Finds
  <2>3. Finds(ref) \in Id /\ Beginning(ref) = {Finds(ref)}
    BY <2>1, <2>2
  <2>4. QED  BY <2>3 DEF Beginning
<1>4. CASE /\ ~(ref \in Id /\ Exists(ref)) /\ ~(ref \in Name /\ names[ref] # NoId)
           /\ ~\E i \in Id : Beginning(ref) = {i}
  BY <1>4 DEF Finds
<1>5. QED  BY <1>1, <1>2, <1>3, <1>4

\* An id in full finds its own container or none, and no reference finds none.
LEMMA FindsById ==
    ASSUME EngineInv, NEW i \in Id \cup {NoId}
    PROVE  Finds(i) \in {i, NoId}
<1>1. i \notin Name
  BY IdAssumption
<1>2. CASE i \in Id /\ Exists(i)
  BY <1>2 DEF Finds
<1>3. CASE ~(i \in Id /\ Exists(i))
  <2>1. Beginning(i) = {}
    BY <1>3, IdAssumption, NoneOfThem DEF Beginning, NoId
  <2>2. QED  BY <1>1, <1>3, <2>1 DEF Finds
<1>4. QED  BY <1>2, <1>3

LEMMA InspectionFails ==
    ASSUME EngineInv, NEW ref, InspectFails(ref), reachable
    PROVE  Finds(ref) = NoId
  BY FindsOneThatExists DEF InspectFails, InspectContainer

-----------------------------------------------------------------------------
(* The engine.                                                             *)

LEMMA EngineStart == EngineInit => EngineInv
<1> SUFFICES ASSUME EngineInit
             PROVE  EngineInv
  OBVIOUS
<1>1. names \in [Name -> Id \cup {NoId}] /\ proc \in [Pid -> Id \cup {Host, Free}]
  BY FirstAssumption DEF EngineInit
<1>2. /\ used \subseteq Id
      /\ \A n \in Name : names[n] \in used \cup {NoId}
  BY <1>1 DEF EngineInit
<1>3. \A m, n \in Name : names[m] = names[n] /\ m # n => names[m] = NoId
  BY FirstAssumption DEF EngineInit
<1>4. QED  BY <1>1, <1>2, <1>3, ChangeAssumption DEF EngineInit, EngineInv

\* What a step of the engine is for those who do not see it.
EngineMoved ==
    /\ changes' = changes + 1
    /\ moves' \in {moves, moves + 1}
    /\ moves' = moves => UNCHANGED <<names, reachable>>
    /\ \A p \in Pid : /\ taken[p] <= taken'[p]
                      /\ taken'[p] = taken[p] => proc'[p] \in {proc[p], Free}

LEMMA EndedFacts ==
    ASSUME EngineInv, NEW i, proc' = Ended(i), taken' = taken
    PROVE  /\ proc' \in [Pid -> Id \cup {Host, Free}]
           /\ \A p \in Pid : taken[p] <= taken'[p] /\ proc'[p] \in {proc[p], Free}
<1>1. \A p \in Pid : proc'[p] = IF proc[p] = i THEN Free ELSE proc[p]
  BY DEF Ended
<1>2. proc' \in [Pid -> Id \cup {Host, Free}]
  BY <1>1 DEF EngineInv, Ended
<1>3. \A p \in Pid : taken[p] \in Nat
  BY DEF EngineInv
<1>4. QED  BY <1>1, <1>2, <1>3

LEMMA StartFacts ==
    ASSUME EngineInv, NEW who \in Id \cup {Host}, NEW p \in Pid, Start(who, p),
           changes' = changes + 1
    PROVE  /\ proc' \in [Pid -> Id \cup {Host, Free}] /\ taken' \in [Pid -> Nat]
           /\ \A q \in Pid : /\ taken[q] <= taken'[q] /\ taken'[q] <= changes'
                             /\ taken'[q] = taken[q] => proc'[q] = proc[q]
  BY DEF EngineInv, Start

LEMMA EngineSteps ==
    ASSUME EngineInv, EngineNext
    PROVE  EngineInv' /\ EngineMoved
<1>1. /\ changes \in Nat /\ changes' = changes + 1 /\ changes' \in 0 .. MaxChanges
      /\ moves' \in {moves, moves + 1} /\ moves \in 0 .. changes /\ moves' \in 0 .. changes'
      /\ \A p \in Pid : taken[p] \in Nat /\ taken[p] <= changes
  <2>1. Change \/ Move
    BY DEF EngineNext, StartContainer, HostProcess, StopContainer, RemoveContainer,
       CreateContainer, RenameContainer, ToggleEngine
  <2>2. QED  BY <2>1, ChangeAssumption DEF Change, Move, Count, EngineInv
\* A step that leaves the names as they are.
<1>2. ASSUME UNCHANGED <<names, used>>, reachable' \in BOOLEAN,
             UNCHANGED reachable \/ moves' # moves,
             proc' \in [Pid -> Id \cup {Host, Free}], taken' \in [Pid -> Nat],
             \A p \in Pid : /\ taken[p] <= taken'[p] /\ taken'[p] <= changes'
                            /\ taken'[p] = taken[p] => proc'[p] \in {proc[p], Free}
      PROVE  EngineInv' /\ EngineMoved
  <2>1. EngineMoved
    BY <1>1, <1>2 DEF EngineMoved
  <2>2. /\ names' = names /\ used' = used
        /\ \A p \in Pid : taken'[p] <= changes'
    BY <1>2
  <2>3. QED  BY <1>1, <1>2, <2>1, <2>2 DEF EngineInv
\* A step that leaves the processes as they are.
<1>3. ASSUME names' \in [Name -> Id \cup {NoId}], used' \subseteq Id,
             \A n \in Name : names'[n] \in used' \cup {NoId},
             \A m, n \in Name : names'[m] = names'[n] /\ m # n => names'[m] = NoId,
             UNCHANGED <<taken, reachable>>, UNCHANGED names \/ moves' # moves,
             proc' \in [Pid -> Id \cup {Host, Free}],
             \A p \in Pid : proc'[p] \in {proc[p], Free}
      PROVE  EngineInv' /\ EngineMoved
  BY <1>1, <1>3 DEF EngineInv, EngineMoved
<1>4. ASSUME NEW i \in Id, NEW p \in Pid, StartContainer(i, p)
      PROVE  EngineInv' /\ EngineMoved
  <2>1. Start(i, p) /\ UNCHANGED <<names, used, reachable>>
    BY <1>4 DEF StartContainer
  <2>2. QED  BY <1>1, <1>2, <2>1, StartFacts DEF EngineInv
<1>5. ASSUME NEW p \in Pid, HostProcess(p)
      PROVE  EngineInv' /\ EngineMoved
  <2>1. Start(Host, p) /\ UNCHANGED <<names, used, reachable>>
    BY <1>5 DEF HostProcess
  <2>2. QED  BY <1>1, <1>2, <2>1, StartFacts DEF EngineInv
<1>6. ASSUME NEW i \in Id, StopContainer(i)
      PROVE  EngineInv' /\ EngineMoved
  <2>1. proc' = Ended(i) /\ UNCHANGED <<names, used, taken, reachable>>
    BY <1>6 DEF StopContainer
  <2>2. QED  BY <1>3, <2>1, EndedFacts DEF EngineInv
<1>7. ASSUME NEW n \in Name, RemoveContainer(n)
      PROVE  EngineInv' /\ EngineMoved
  <2>1. /\ proc' = Ended(names[n]) /\ names' = [names EXCEPT ![n] = NoId]
        /\ UNCHANGED <<used, taken, reachable>> /\ moves' = moves + 1
    BY <1>7 DEF RemoveContainer, Move
  <2>2. /\ names' \in [Name -> Id \cup {NoId}]
        /\ \A m \in Name : names'[m] \in {names[m], NoId}
    BY <2>1 DEF EngineInv
  <2>3. QED  BY <1>3, <2>1, <2>2, EndedFacts DEF EngineInv
<1>8. ASSUME NEW n \in Name, NEW i \in Id, CreateContainer(n, i)
      PROVE  EngineInv' /\ EngineMoved
  <2>1. /\ names' = [names EXCEPT ![n] = i] /\ used' = used \cup {i} /\ i \notin used
        /\ UNCHANGED <<proc, taken, reachable>> /\ moves' = moves + 1
    BY <1>8 DEF CreateContainer, Move
  <2>2. \A m \in Name : names[m] # i
    BY <2>1, NoneOfThem DEF EngineInv
  <2>3. QED  BY <1>3, <2>1, <2>2 DEF EngineInv
<1>9. ASSUME NEW m \in Name, NEW n \in Name, RenameContainer(m, n)
      PROVE  EngineInv' /\ EngineMoved
  <2>1. /\ names' = [names EXCEPT ![m] = NoId, ![n] = names[m]]
        /\ names[m] # NoId /\ names[n] = NoId
        /\ UNCHANGED <<used, proc, taken, reachable>> /\ moves' = moves + 1
    BY <1>9 DEF RenameContainer, Move
  <2>2. /\ names' \in [Name -> Id \cup {NoId}] /\ names'[n] = names[m] /\ names'[m] = NoId
        /\ \A o \in Name : o \notin {m, n} => names'[o] = names[o]
    BY <2>1 DEF EngineInv
  <2>3. QED  BY <1>3, <2>1, <2>2 DEF EngineInv
<1>10. CASE ToggleEngine
  <2>1. moves' # moves
    BY <1>1, <1>10 DEF ToggleEngine, Move
  <2>2. QED  BY <1>1, <1>2, <1>10, <2>1 DEF ToggleEngine, EngineInv
<1>11. QED
  BY <1>4, <1>5, <1>6, <1>7, <1>8, <1>9, <1>10 DEF EngineNext

\* What a check has found outlives a change that moves nothing.
LEMMA Disturbed ==
    ASSUME EngineInv, CheckInv, UNCHANGED commandVars,
           changes' = changes + 1, moves' \in {moves, moves + 1},
           moves' = moves => UNCHANGED <<names, reachable, port>>,
           port' \in [DOMAIN Mappings -> PortState]
    PROVE  CheckInv'
<1>1. UNCHANGED <<check, doctor, identity, index, active, listed, failed, started, begun>>
  BY DEF commandVars
<1>2. /\ started <= changes /\ begun <= moves
      /\ changes \in Nat /\ moves \in Nat /\ started \in Nat /\ begun \in Nat
  BY ChangeAssumption DEF CheckInv, CheckTypeOK, CheckFacts, EngineInv
<1>3. CheckTypeOK'
  BY <1>1 DEF CheckInv, CheckTypeOK
<1>4. CASE moves' = moves
  <2>1. \A ref : Finds(ref)' = Finds(ref)
    BY <1>4 DEF Finds, Exists, Beginning
  <2>2. \A m : Faulty(m)' = Faulty(m)
    BY <1>1, <1>4 DEF Faulty
  <2>3. \A n : FaultyOf(n)' = FaultyOf(n)
    BY <1>1, <2>2 DEF FaultyOf
  <2>4. QED  BY <1>1, <1>2, <1>3, <1>4, <2>1, <2>2, <2>3 DEF CheckInv, CheckFacts, HasList
<1>5. CASE moves' # moves
  <2>1. moves' # begun' /\ begun' <= moves' /\ started' <= changes'
    BY <1>1, <1>2, <1>5
  <2>2. QED  BY <1>1, <1>3, <2>1 DEF CheckInv, CheckFacts, HasList
<1>6. QED  BY <1>4, <1>5

\* Nothing the others remember goes wrong with a step of the engine.
LEMMA EngineStepInvariant ==
    ASSUME IInv, EngineStep
    PROVE  IInv'
<1>1. EngineInv' /\ EngineMoved
  BY EngineSteps DEF IInv, EngineStep
<1>2. UNCHANGED <<step, found, target, left, stream, job, ns>>
  BY DEF EngineStep, forwardVars
<1>3. ForwardInv'
  <2>1. ForwardTypeOK'
    BY <1>2 DEF IInv, ForwardInv, ForwardTypeOK
  <2>2. ASSUME NEW f \in Forward
        PROVE  ForwardFacts(f)'
    <3>1. ForwardFacts(f)
      BY DEF IInv, ForwardInv
    <3>2. CASE step[f] \notin {"none", "failed"}
      <4>1. /\ found[f].pid \in Pid /\ found[f].taken <= taken[found[f].pid]
            /\ found[f].taken \in Nat
        BY <3>1, <3>2, ChangeAssumption DEF ForwardFacts, IInv, ForwardInv, ForwardTypeOK
      <4>2. /\ taken[found[f].pid] \in Nat /\ taken'[found[f].pid] \in Nat
            /\ taken[found[f].pid] <= taken'[found[f].pid]
            /\ taken'[found[f].pid] = taken[found[f].pid] =>
                   proc'[found[f].pid] \in {proc[found[f].pid], Free}
        BY <1>1, <4>1 DEF EngineMoved, EngineInv, IInv
      <4>3. Fresh(f)' => Fresh(f) /\ taken'[found[f].pid] = taken[found[f].pid]
        BY <1>2, <4>1, <4>2 DEF Fresh
      <4>4. QED  BY <1>2, <3>1, <3>2, <4>1, <4>2, <4>3 DEF ForwardFacts, Entering
    <3>3. CASE step[f] \in {"none", "failed"}
      BY <1>2, <3>1, <3>3 DEF ForwardFacts, Entering
    <3>4. QED  BY <3>2, <3>3
  <2>3. /\ \A t \in Thread : ThreadFacts(t)'
        /\ (\A t, u \in Thread : job[t] # NoForward /\ job[t] = job[u] => t = u)'
    BY <1>2 DEF IInv, ForwardInv, ThreadFacts
  <2>4. QED  BY <2>1, <2>2, <2>3 DEF ForwardInv
<1>4. ProxyInv'
  BY DEF IInv, ProxyInv, ProxyTypeOK, ProxyFacts, EngineStep, proxyVars
<1>5. CheckInv'
  <2>1. UNCHANGED commandVars /\ UNCHANGED port
    BY DEF EngineStep, checkVars
  <2>2. QED  BY <1>1, <2>1, Disturbed DEF EngineMoved, IInv, CheckInv, CheckTypeOK
<1>6. QED  BY <1>1, <1>3, <1>4, <1>5 DEF IInv

-----------------------------------------------------------------------------
(* The forwards.                                                           *)

LEMMA ForwardStart == EngineInv /\ ForwardInit => ForwardInv
<1> SUFFICES ASSUME EngineInv, ForwardInit
             PROVE  ForwardInv
  OBVIOUS
<1>1. ForwardTypeOK
  BY ChangeAssumption, AddressAssumption DEF ForwardInit, ForwardTypeOK, NothingFound, Namespace
<1>2. ASSUME NEW f \in Forward
      PROVE  ForwardFacts(f)
  BY DEF ForwardInit, ForwardFacts, Entering
<1>3. /\ \A t \in Thread : ThreadFacts(t)
      /\ \A t, u \in Thread : job[t] # NoForward /\ job[t] = job[u] => t = u
  BY DEF ForwardInit, ThreadFacts
<1>4. QED  BY <1>1, <1>2, <1>3 DEF ForwardInv

\* A forward at work moves on: what is to be shown of it and its thread.
LEMMA ForwardMoved ==
    ASSUME ForwardInv, NEW f \in Forward, NEW t \in Thread,
           UNCHANGED <<engineVars, found>>, ForwardTypeOK',
           step[f] # "failed",
           \A g \in Forward : g # f =>
               step'[g] = step[g] /\ target'[g] = target[g] /\ stream'[g] = stream[g],
           \A u \in Thread : u # t => job'[u] = job[u] /\ ns'[u] = ns[u],
           \A u \in Thread : job[u] = f => u = t,
           job[t] \in {f, NoForward}, job'[t] \in {f, NoForward},
           ForwardFacts(f)', ThreadFacts(t)'
    PROVE  ForwardInv'
<1>1. NoForward \notin Forward
  BY ForwardAssumption
<1>2. ASSUME NEW g \in Forward
      PROVE  ForwardFacts(g)'
  <2>1. CASE g = f
    BY <2>1
  <2>2. CASE g # f
    BY <2>2 DEF ForwardInv, ForwardFacts, Fresh, Entering, engineVars
  <2>3. QED  BY <2>1, <2>2
<1>3. ASSUME NEW u \in Thread
      PROVE  ThreadFacts(u)'
  <2>1. CASE u = t
    BY <2>1
  <2>2. CASE u # t
    <3>1. ThreadFacts(u) /\ job[u] # f /\ job[u] \in Forward \cup {NoForward}
      BY <2>2 DEF ForwardInv, ForwardTypeOK
    <3>2. \A g \in Forward : step[g] = "failed" => g # f
      OBVIOUS
    <3>3. QED  BY <2>2, <3>1, <3>2 DEF ThreadFacts
  <2>3. QED  BY <2>1, <2>2
<1>4. ASSUME NEW u \in Thread, NEW v \in Thread, job'[u] # NoForward, job'[u] = job'[v]
      PROVE  u = v
  BY <1>4 DEF ForwardInv
<1>5. QED  BY <1>2, <1>3, <1>4 DEF ForwardInv

LEMMA LookUpStep ==
    ASSUME EngineInv, ForwardInv, NEW f \in Forward, NEW ref, LookUp(f, ref),
           UNCHANGED engineVars
    PROVE  ForwardInv'
<1>1. /\ step[f] = "none" /\ UNCHANGED <<target, left, stream, job, ns>>
      /\ \A t \in Thread : job[t] # f
  BY ForwardAssumption DEF LookUp, ForwardInv, ThreadFacts
<1>2. ASSUME NEW g \in Forward, g # f, step'[g] = step[g], found'[g] = found[g]
      PROVE  ForwardFacts(g)'
  BY <1>1, <1>2 DEF ForwardInv, ForwardFacts, Fresh, Entering, engineVars
<1>3. ASSUME NEW t \in Thread, \A g \in Forward : g # f => step'[g] = step[g]
      PROVE  ThreadFacts(t)'
  BY <1>1, <1>3 DEF ForwardInv, ThreadFacts, ForwardTypeOK
<1>4. CASE \A i \in Id, p \in Pid : ~RunningContainerPid(ref, i, p)
  <2>1. step' = [step EXCEPT ![f] = "failed"] /\ found' = found
    BY <1>4 DEF LookUp
  <2>2. ForwardTypeOK'
    BY <1>1, <2>1 DEF ForwardInv, ForwardTypeOK
  <2>3. ForwardFacts(f)'
    BY <1>1, <2>1 DEF ForwardFacts, Entering, ForwardInv, ForwardTypeOK
  <2>4. QED  BY <1>1, <1>2, <1>3, <2>1, <2>2, <2>3 DEF ForwardInv, ForwardTypeOK
<1>5. CASE \E i \in Id, p \in Pid : RunningContainerPid(ref, i, p)
  <2>1. PICK i \in Id, p \in Pid :
            /\ proc[p] = i
            /\ found' = [found EXCEPT ![f] = [id |-> i, pid |-> p, taken |-> taken[p]]]
            /\ step' = [step EXCEPT ![f] = "queued"]
    BY <1>5 DEF LookUp, RunningContainerPid
  <2>2. taken[p] \in 0 .. MaxChanges
    BY ChangeAssumption DEF EngineInv
  <2>3. ForwardTypeOK'
    BY <1>1, <2>1, <2>2 DEF ForwardInv, ForwardTypeOK
  <2>4. /\ found'[f] = [id |-> i, pid |-> p, taken |-> taken[p]] /\ step'[f] = "queued"
        /\ stream'[f] = NoNamespace
    BY <1>1, <2>1 DEF ForwardInv, ForwardTypeOK, ForwardFacts
  <2>5. ForwardFacts(f)'
    BY <2>1, <2>2, <2>4 DEF ForwardFacts, Fresh, Entering, engineVars
  <2>6. QED  BY <1>1, <1>2, <1>3, <2>1, <2>3, <2>5 DEF ForwardInv, ForwardTypeOK
<1>6. QED  BY <1>4, <1>5

LEMMA ThreadStepInvariant ==
    ASSUME EngineInv, ForwardInv, NEW f \in Forward, NEW t \in Thread, ThreadStep(f, t),
           UNCHANGED engineVars
    PROVE  ForwardInv'
<1>1. /\ ForwardTypeOK /\ ForwardFacts(f) /\ ThreadFacts(t) /\ NoForward # f
      /\ step[f] \in {"queued", "open", "enter", "connect", "restore"} /\ found' = found
      /\ f \in DOMAIN step /\ f \in DOMAIN target /\ f \in DOMAIN stream
      /\ t \in DOMAIN job /\ t \in DOMAIN ns
  BY ForwardAssumption DEF ForwardInv, ForwardTypeOK, ThreadStep, Run, OpenTarget, Enter, Connect, Restore
<1>2. /\ job[t] \in {f, NoForward}
      /\ \A u \in Thread : job[u] = f => u = t
  BY <1>1 DEF ThreadStep, Run, OpenTarget, Enter, Connect, Restore, ForwardInv, ThreadFacts
<1>3. /\ found[f].id \in Id /\ found[f].pid \in Pid /\ found[f].taken <= taken[found[f].pid]
      /\ Fresh(f)' <=> Fresh(f)
      /\ proc' = proc /\ taken' = taken
  BY <1>1 DEF ForwardFacts, Fresh, engineVars
<1>4. CASE Run(f, t)
  <2>1. /\ step' = [step EXCEPT ![f] = "open"] /\ job' = [job EXCEPT ![t] = f] /\ job[t] = NoForward
        /\ UNCHANGED <<found, target, left, stream, ns>> /\ step[f] = "queued"
    BY <1>4 DEF Run
  <2>2. ForwardTypeOK'
    BY <1>1, <2>1 DEF ForwardTypeOK
  <2>3. ForwardFacts(f)'
    BY <1>1, <1>3, <2>1 DEF ForwardFacts, Entering
  <2>4. ThreadFacts(t)'
    BY <1>1, <2>1 DEF ThreadFacts
  <2>5. QED  BY <1>1, <1>2, <2>1, <2>2, <2>3, <2>4, ForwardMoved
\* It fails where it is.
<1>5. ASSUME Return(f, t, "failed"), UNCHANGED <<target, left, stream, ns>>,
             job[t] = f, step[f] \in {"open", "enter"}
      PROVE  ForwardInv'
  <2>1. step' = [step EXCEPT ![f] = "failed"] /\ job' = [job EXCEPT ![t] = NoForward]
    BY <1>5 DEF Return
  <2>2. ForwardTypeOK'
    BY <1>1, <1>5, <2>1 DEF ForwardTypeOK
  <2>3. ForwardFacts(f)'
    BY <1>1, <1>3, <1>5, <2>1 DEF ForwardFacts, Entering
  <2>4. ThreadFacts(t)'
    BY <1>1, <1>5, <2>1 DEF ThreadFacts
  <2>5. QED  BY <1>1, <1>2, <1>5, <2>1, <2>2, <2>3, <2>4, ForwardMoved
<1>6. CASE OpenTarget(f, t)
  <2>1. CASE proc[found[f].pid] = Free
    BY <1>5, <1>6, <2>1 DEF OpenTarget
  <2>2. CASE proc[found[f].pid] # Free
    <3>1. /\ target' = [target EXCEPT ![f] = proc[found[f].pid]]
          /\ step' = [step EXCEPT ![f] = "enter"] /\ UNCHANGED <<job, found, left, stream, ns>>
          /\ step[f] = "open" /\ job[t] = f
      BY <1>6, <2>2 DEF OpenTarget
    <3>2. proc[found[f].pid] \in Namespace
      BY <1>3, <2>2 DEF EngineInv, Namespace
    <3>3. ForwardTypeOK'
      BY <1>1, <3>1, <3>2 DEF ForwardTypeOK
    <3>4. ForwardFacts(f)'
      BY <1>1, <1>3, <2>2, <3>1, <3>2 DEF ForwardFacts, Entering, ForwardTypeOK
    <3>5. ThreadFacts(t)'
      BY <1>1, <3>1 DEF ThreadFacts
    <3>6. QED  BY <1>1, <1>2, <3>1, <3>3, <3>4, <3>5, ForwardMoved
  <2>3. QED  BY <2>1, <2>2
<1>7. CASE Enter(f, t)
  <2>1. CASE Return(f, t, "failed") /\ UNCHANGED <<ns, left>>
    BY <1>5, <1>7, <2>1 DEF Enter
  <2>2. CASE ~(Return(f, t, "failed") /\ UNCHANGED <<ns, left>>)
    <3>1. /\ ns' = [ns EXCEPT ![t] = target[f]] /\ step' = [step EXCEPT ![f] = "connect"]
          /\ UNCHANGED <<job, found, target, stream>> /\ step[f] = "enter" /\ job[t] = f
          /\ left' \in [Forward -> 0 .. MaxAddresses]
      BY <1>1, <1>7, <2>2 DEF Enter, ForwardTypeOK
    <3>2. target[f] \in Namespace /\ (Fresh(f) => target[f] = found[f].id)
      BY <1>1, <3>1 DEF ForwardFacts, Entering
    <3>3. ForwardTypeOK'
      BY <1>1, <3>1, <3>2 DEF ForwardTypeOK
    <3>4. ForwardFacts(f)'
      BY <1>1, <1>3, <3>1, <3>2 DEF ForwardFacts, Entering
    <3>5. ThreadFacts(t)'
      BY <1>1, <3>1 DEF ThreadFacts
    <3>6. QED  BY <1>1, <1>2, <3>1, <3>3, <3>4, <3>5, ForwardMoved
  <2>3. QED  BY <2>1, <2>2
<1>8. CASE Connect(f, t)
  <2>1. /\ step[f] = "connect" /\ job[t] = f /\ UNCHANGED <<found, target, job, ns>>
        /\ ns[t] = target[f] /\ target[f] \in Namespace
    BY <1>1, <1>8 DEF Connect, ThreadFacts, ForwardFacts, Entering
  <2>2. /\ step' = step \/ step' = [step EXCEPT ![f] = "restore"]
        /\ stream' = stream \/ stream' = [stream EXCEPT ![f] = target[f]]
        /\ left' \in [Forward -> 0 .. MaxAddresses]
    BY <1>1, <1>8, <2>1, AddressAssumption DEF Connect, ForwardTypeOK
  <2>3. ForwardTypeOK'
    BY <1>1, <2>1, <2>2 DEF ForwardTypeOK
  <2>4. ForwardFacts(f)'
    BY <1>1, <1>3, <2>1, <2>2 DEF ForwardFacts, Entering
  <2>5. ThreadFacts(t)'
    BY <1>1, <2>1, <2>2 DEF ThreadFacts
  <2>6. \A g \in Forward : g # f =>
            step'[g] = step[g] /\ target'[g] = target[g] /\ stream'[g] = stream[g]
    BY <1>1, <2>1, <2>2 DEF ForwardTypeOK
  <2>7. \A u \in Thread : u # t => job'[u] = job[u] /\ ns'[u] = ns[u]
    BY <2>1
  <2>8. QED  BY <1>1, <1>2, <2>1, <2>3, <2>4, <2>5, <2>6, <2>7, ForwardMoved
<1>9. CASE Restore(f, t)
  <2>1. /\ step[f] = "restore" /\ job[t] = f /\ UNCHANGED <<found, target, left>>
        /\ ns[t] = target[f] /\ target[f] \in Namespace /\ stream[f] \in {target[f], NoNamespace}
        /\ job' = [job EXCEPT ![t] = NoForward]
    BY <1>1, <1>9 DEF Restore, Return, ThreadFacts, ForwardFacts, Entering
  <2>2. CASE /\ ns' = [ns EXCEPT ![t] = Host] /\ stream' = stream
             /\ step' = [step EXCEPT ![f] = IF stream[f] = NoNamespace THEN "failed" ELSE "established"]
    <3>1. ForwardTypeOK'
      BY <1>1, <2>1, <2>2 DEF ForwardTypeOK, Namespace
    <3>2. ForwardFacts(f)'
      BY <1>1, <1>3, <2>1, <2>2 DEF ForwardFacts, Entering
    <3>3. ThreadFacts(t)'
      BY <1>1, <2>1, <2>2 DEF ThreadFacts
    <3>4. QED  BY <1>1, <1>2, <2>1, <2>2, <3>1, <3>2, <3>3, ForwardMoved
  <2>3. CASE /\ ns' = ns /\ stream' = [stream EXCEPT ![f] = NoNamespace]
             /\ step' = [step EXCEPT ![f] = "failed"]
    <3>1. ForwardTypeOK'
      BY <1>1, <2>1, <2>3 DEF ForwardTypeOK
    <3>2. ForwardFacts(f)'
      BY <1>1, <1>3, <2>1, <2>3 DEF ForwardFacts, Entering
    <3>3. ThreadFacts(t)'
      BY <1>1, <2>1, <2>3 DEF ThreadFacts
    <3>4. QED  BY <1>1, <1>2, <2>1, <2>3, <3>1, <3>2, <3>3, ForwardMoved
  <2>4. QED  BY <1>9, <2>2, <2>3 DEF Restore, Return
<1>10. QED
  BY <1>4, <1>6, <1>7, <1>8, <1>9 DEF ThreadStep

-----------------------------------------------------------------------------
(* The proxies.                                                            *)

LEMMA ProxyStart == ProxyInit => ProxyInv
<1> SUFFICES ASSUME ProxyInit
             PROVE  ProxyInv
  OBVIOUS
<1>1. NoPath \in Path
  BY DEF NoPath, Path, Kind, NoId
<1>2. Unresolved \in [id : Id \cup {NoId}, name : Name \cup {NoId}, refs : SUBSET Seq(STRING)]
  BY DEF Unresolved
<1>3. ProxyTypeOK
  BY <1>1, <1>2 DEF ProxyInit, ProxyTypeOK
<1>4. QED  BY <1>3 DEF ProxyInit, ProxyInv, ProxyFacts, Unresolved

\* A path under /containers/ that passes is rewritten to the container of the
\* channel.
LEMMA RewrittenFacts ==
    ASSUME NEW q \in Query, NEW t, t.id \in Id, Passes(StripVersionPrefix(q), t)
    PROVE  /\ Rewritten(StripVersionPrefix(q), t) \in Path
           /\ Rewritten(StripVersionPrefix(q), t).kind \in OfContainers =>
                  Rewritten(StripVersionPrefix(q), t).ref = t.id
<1> DEFINE n == StripVersionPrefix(q)
<1>1. q \in Path /\ t.id \in Seq(STRING)
  BY QueryAssumption, IdAssumption
<1>2. n \in Path
  BY <1>1 DEF StripVersionPrefix, Path
<1>3. CASE n.kind = "list"
  <2>1. Rewritten(n, t) = [n EXCEPT !.ref = t.id, !.query = FALSE]
    BY <1>3 DEF Rewritten
  <2>2. QED  BY <1>1, <1>2, <2>1 DEF Path
<1>4. CASE n.kind = "container"
  <2>1. Rewritten(n, t) = [n EXCEPT !.ref = t.id]
    BY <1>4 DEF Rewritten
  <2>2. QED  BY <1>1, <1>2, <2>1 DEF Path
<1>5. CASE n.kind \notin OfContainers
  <2>1. Rewritten(n, t) = n
    BY <1>5 DEF Rewritten, OfContainers
  <2>2. QED  BY <1>2, <1>5, <2>1
<1>6. QED  BY <1>3, <1>4, <1>5 DEF OfContainers

\* What is resolved has a name and an id, which the proxy knows.
LEMMA ResolvedFacts ==
    ASSUME EngineInv, NEW ref \in ProxyTo, NEW i \in Id, InspectContainer(ref, i)
    PROVE  /\ NameOf(i) \in Name /\ names[NameOf(i)] = i
           /\ {ref, i, ShortId(i), NameOf(i)} \subseteq Seq(STRING)
<1>1. Exists(i)
  BY FindsOneThatExists DEF InspectContainer
<1>2. NameOf(i) \in Name /\ names[NameOf(i)] = i
  BY <1>1 DEF Exists, NameOf
<1>3. i \in Seq(STRING) /\ NameOf(i) \in Seq(STRING) /\ ref \in Seq(STRING)
  BY <1>2, IdAssumption, ProxyToAssumption
<1>4. ShortId(i) \in Seq(STRING)
  BY <1>3, LengthAssumption DEF ShortId
<1>5. QED  BY <1>2, <1>3, <1>4

\* A step of one proxy keeps the invariant if it does for that one.
LEMMA ProxyMoved ==
    ASSUME ProxyInv, NEW p \in Proxy, ProxyTypeOK', ProxyFacts(p)',
           \A o \in Proxy : o # p =>
               /\ state'[o] = state[o] /\ resolved'[o] = resolved[o]
               /\ passed'[o] = passed[o] /\ acted'[o] = acted[o]
    PROVE  ProxyInv'
<1>1. ASSUME NEW o \in Proxy, o # p
      PROVE  ProxyFacts(o)'
  BY <1>1 DEF ProxyInv, ProxyFacts
<1>2. QED  BY <1>1 DEF ProxyInv

LEMMA ResolveStep ==
    ASSUME EngineInv, ProxyInv, NEW p \in Proxy, NEW ref \in ProxyTo, Resolve(p, ref)
    PROVE  ProxyInv'
<1>1. PICK i \in Id :
          /\ InspectContainer(ref, i)
          /\ resolved' = [resolved EXCEPT ![p] =
                [id |-> i, name |-> NameOf(i), refs |-> {ref, i, ShortId(i), NameOf(i)}]]
  BY DEF Resolve
<1>2. /\ state' = [state EXCEPT ![p] = "ready"] /\ UNCHANGED <<passed, status, acted>>
      /\ resolved[p] = Unresolved
  BY DEF Resolve
<1>3. NameOf(i) \in Name /\ {ref, i, ShortId(i), NameOf(i)} \subseteq Seq(STRING)
  BY <1>1, ResolvedFacts
<1>4. [id |-> i, name |-> NameOf(i), refs |-> {ref, i, ShortId(i), NameOf(i)}]
          \in [id : Id \cup {NoId}, name : Name \cup {NoId}, refs : SUBSET Seq(STRING)]
  BY <1>3
<1>5. ProxyTypeOK'
  BY <1>1, <1>2, <1>4 DEF ProxyInv, ProxyTypeOK
<1>6. /\ resolved'[p].id = i /\ resolved'[p].name = NameOf(i) /\ NameOf(i) \in resolved'[p].refs
      /\ state'[p] = "ready" /\ acted'[p] = {}
  BY <1>1, <1>2 DEF ProxyInv, ProxyTypeOK, ProxyFacts, Unresolved
<1>7. ProxyFacts(p)'
  BY <1>3, <1>6, NoneOfThem DEF ProxyFacts
<1>8. QED  BY <1>1, <1>2, <1>5, <1>7, ProxyMoved DEF ProxyInv, ProxyTypeOK

LEMMA ProxyStepInvariant ==
    ASSUME EngineInv, ProxyInv, NEW p \in Proxy, ProxyStep(p)
    PROVE  ProxyInv'
<1>1. ProxyTypeOK /\ ProxyFacts(p) /\ resolved[p].id \in Id \cup {NoId}
  BY DEF ProxyInv, ProxyTypeOK
<1>2. ASSUME NEW q \in Query, HandleRequest(p, q)
      PROVE  ProxyInv'
  <2>1. state[p] = "ready" /\ UNCHANGED <<resolved, acted>> /\ resolved[p].id \in Id
    BY <1>1, <1>2 DEF HandleRequest, ProxyFacts
  <2>2. CASE Passes(StripVersionPrefix(q), resolved[p])
    <3>1. /\ passed' = [passed EXCEPT ![p] = Rewritten(StripVersionPrefix(q), resolved[p])]
          /\ state' = [state EXCEPT ![p] = "waiting"] /\ status' = status
      BY <1>2, <2>2 DEF HandleRequest
    <3>2. /\ Rewritten(StripVersionPrefix(q), resolved[p]) \in Path
          /\ Rewritten(StripVersionPrefix(q), resolved[p]).kind \in OfContainers =>
                 Rewritten(StripVersionPrefix(q), resolved[p]).ref = resolved[p].id
      BY <2>1, <2>2, RewrittenFacts
    <3>3. ProxyTypeOK'
      BY <1>1, <2>1, <3>1, <3>2 DEF ProxyTypeOK
    <3>4. passed'[p].kind \in OfContainers => passed'[p].ref = resolved[p].id
      BY <1>1, <3>1, <3>2 DEF ProxyTypeOK
    <3>5. ProxyFacts(p)'
      BY <1>1, <2>1, <3>4, NoneOfThem DEF ProxyFacts
    <3>6. QED  BY <2>1, <3>1, <3>3, <3>5, ProxyMoved DEF ProxyInv, ProxyTypeOK
  <2>3. CASE ~Passes(StripVersionPrefix(q), resolved[p])
    <3>1. status' = [status EXCEPT ![p] = "forbidden"] /\ UNCHANGED <<passed, state>>
      BY <1>2, <2>3 DEF HandleRequest
    <3>2. QED  BY <2>1, <3>1 DEF ProxyInv, ProxyTypeOK, ProxyFacts
  <2>4. QED  BY <2>2, <2>3
<1>3. CASE BackendRequest(p)
  <2>1. /\ state[p] = "waiting" /\ resolved[p].id # NoId
        /\ passed[p].kind \in OfContainers => passed[p].ref = resolved[p].id
        /\ passed[p].kind \in Kind
    BY <1>1, <1>3 DEF BackendRequest, ProxyFacts, ProxyTypeOK, Path
  <2>2. /\ Finds(passed[p].ref) \in Id \cup {NoId}
        /\ Finds(resolved[p].id) \in {NoId, resolved[p].id}
    BY <1>1, FindsById, FindsOneThatExists
  <2>3. /\ state' = [state EXCEPT ![p] = "ready"] /\ UNCHANGED <<resolved, passed>>
        /\ status' \in [Proxy -> {"none", "forbidden", "of_engine", "bad_gateway"}]
    BY <1>1, <1>3 DEF BackendRequest, Respond, ProxyTypeOK
  <2>4. /\ Acts(p) \in SUBSET [kind : Kind, id : Id]
        /\ \A act \in Acts(p) : act.kind \in OfContainers => act.id = resolved[p].id
    BY <2>1, <2>2 DEF Acts
  <2>5. /\ acted' \in [Proxy -> SUBSET [kind : Kind, id : Id]]
        /\ \A act \in acted'[p] : act.kind \in OfContainers => act.id = resolved[p].id
        /\ \A o \in Proxy : o # p => acted'[o] = acted[o]
    <3>1. acted' = acted \/ acted' = [acted EXCEPT ![p] = Acts(p)]
      BY <1>3 DEF BackendRequest
    <3>2. QED  BY <1>1, <2>4, <3>1 DEF ProxyTypeOK, ProxyFacts
  <2>6. ProxyTypeOK'
    BY <1>1, <2>3, <2>5 DEF ProxyTypeOK
  <2>7. ProxyFacts(p)'
    BY <1>1, <2>1, <2>3, <2>5 DEF ProxyFacts, ProxyTypeOK
  <2>8. QED  BY <2>3, <2>5, <2>6, <2>7, ProxyMoved DEF ProxyInv, ProxyTypeOK
<1>4. CASE Close(p)
  BY <1>4 DEF Close, ProxyInv, ProxyTypeOK, ProxyFacts
<1>5. QED  BY <1>2, <1>3, <1>4 DEF ProxyStep

-----------------------------------------------------------------------------
(* The checks.                                                             *)

LEMMA CheckStart == EngineInv /\ CheckInit => CheckInv
<1> SUFFICES ASSUME EngineInv, CheckInit
             PROVE  CheckInv
  OBVIOUS
<1>1. /\ Len(Mappings) \in Nat /\ 1 \in 1 .. Len(Mappings) + 1
      /\ active \in Seq(1 .. Len(Mappings)) /\ Len(active) = 0
      /\ listed \in Seq(1 .. Len(Mappings))
  BY MappingAssumption DEF CheckInit
<1>2. CheckTypeOK
  <2>1. /\ doctor \in BOOLEAN /\ identity \in {"usable", "unreadable"}
        /\ failed \subseteq 1 .. Len(Mappings) /\ port \in [DOMAIN Mappings -> PortState]
    BY DEF CheckInit, PortState
  <2>2. /\ index \in 1 .. Len(Mappings) + 1
        /\ started \in 0 .. MaxChanges /\ begun \in 0 .. MaxChanges
    BY <1>1, ChangeAssumption DEF CheckInit
  <2>3. QED  BY <1>1, <2>1, <2>2 DEF CheckInit, CheckTypeOK
<1>3. CheckFacts
  BY <1>1, ChangeAssumption DEF CheckInit, CheckFacts, HasList, Pinging, EngineInv
<1>4. QED  BY <1>2, <1>3 DEF CheckInv

LEMMA SequenceFacts ==
    ASSUME NEW S, NEW s \in Seq(S)
    PROVE  /\ Len(s) \in Nat
           /\ \A k \in 1 .. Len(s) : s[k] \in S
           /\ s # <<>> => /\ Tail(s) \in Seq(S) /\ Head(s) = s[1] /\ 1 \in 1 .. Len(s)
                          /\ \A k \in 1 .. Len(Tail(s)) : k + 1 \in 1 .. Len(s) /\ Tail(s)[k] = s[k + 1]
           /\ \A x \in S : /\ Append(s, x) \in Seq(S)
                           /\ \A k \in 1 .. Len(Append(s, x)) :
                                  Append(s, x)[k] = x \/ (k \in 1 .. Len(s) /\ Append(s, x)[k] = s[k])
  OBVIOUS

LEMMA InspectNextStep ==
    ASSUME EngineInv, CheckInv, InspectNext, UNCHANGED engineVars
    PROVE  CheckInv'
<1>1. /\ check = "inspect" /\ index <= Len(Mappings) /\ index \in 1 .. Len(Mappings)
      /\ Len(Mappings) \in Nat /\ active \in Seq(1 .. Len(Mappings)) /\ Len(active) \in Nat
      /\ UNCHANGED <<port, doctor, identity, listed, failed, started, begun>>
      /\ UNCHANGED <<changes, moves, reachable>>
      /\ \A ref : Finds(ref)' = Finds(ref)
  BY MappingAssumption DEF InspectNext, given, CheckInv, CheckTypeOK, engineVars, Finds, Exists, Beginning
<1>2. CASE \E i \in Id : /\ InspectContainer(Mappings[index], i)
                         /\ AppendActive(index, i) /\ index' = index + 1 /\ UNCHANGED check
  <2>1. /\ active' = active \/ active' = Append(active, index)
        /\ index' = index + 1 /\ check' = check /\ reachable /\ Finds(Mappings[index]) # NoId
    BY <1>2 DEF AppendActive, InspectContainer
  <2>2. /\ active' \in Seq(1 .. Len(Mappings)) /\ index' \in 1 .. Len(Mappings) + 1
        /\ \A k \in 1 .. Len(active') : active'[k] = index \/ (k \in 1 .. Len(active) /\ active'[k] = active[k])
    <3>1. CASE active' = active
      BY <1>1, <2>1, <3>1
    <3>2. CASE active' = Append(active, index)
      BY <1>1, <2>1, <3>2, SequenceFacts
    <3>3. QED  BY <2>1, <3>1, <3>2
  <2>3. CheckTypeOK'
    BY <1>1, <2>1, <2>2 DEF CheckInv, CheckTypeOK
  <2>4. \A k \in 1 .. Len(active') : active'[k] < index'
    <3>1. \A k \in 1 .. Len(active) : active[k] \in 1 .. Len(Mappings) /\ active[k] < index
      BY <1>1, SequenceFacts DEF CheckInv, CheckFacts
    <3>2. QED  BY <1>1, <2>1, <2>2, <3>1
  <2>5. \A n \in 1 .. Len(Mappings) : n < index' => n < index \/ n = index
    BY <1>1, <2>1
  <2>6. CheckFacts'
    BY <1>1, <2>1, <2>4, <2>5 DEF CheckInv, CheckFacts, HasList, Pinging
  <2>7. QED  BY <2>3, <2>6 DEF CheckInv
<1>3. CASE InspectFails(Mappings[index]) /\ check' = "error" /\ UNCHANGED <<active, index>>
  <2>1. ~reachable \/ Finds(Mappings[index]) = NoId
    BY <1>3, InspectionFails
  <2>2. CheckTypeOK'
    BY <1>1, <1>3 DEF CheckInv, CheckTypeOK, Over
  <2>3. CheckFacts'
    BY <1>1, <1>3, <2>1 DEF CheckInv, CheckFacts, HasList, Pinging
  <2>4. QED  BY <2>2, <2>3 DEF CheckInv
<1>4. QED  BY <1>2, <1>3 DEF InspectNext

\* A ping that is done has blamed a faulty mapping and no other, unless
\* something was moved.
LEMMA PingDoneStep ==
    ASSUME EngineInv, CheckInv, check \in Pinging, NEW ok \in BOOLEAN, PingDone(ok),
           moves = begun => (ok <=> ~Faulty(Head(active))),
           UNCHANGED <<engineVars, given, index, listed>>
    PROVE  CheckInv'
<1> DEFINE p == Len(listed) - Len(active)
<1>1. /\ active \in Seq(1 .. Len(Mappings)) /\ active # <<>> /\ active' = Tail(active)
      /\ listed \in Seq(1 .. Len(Mappings)) /\ Len(listed) \in Nat /\ Len(active) \in Nat \ {0}
      /\ doctor /\ HasList
      /\ UNCHANGED <<port, doctor, identity, index, listed, started, begun>>
      /\ UNCHANGED <<changes, moves, reachable>>
      /\ \A ref : Finds(ref)' = Finds(ref)
  BY DEF PingDone, CheckInv, CheckTypeOK, CheckFacts, HasList, given, engineVars, Finds, Exists, Beginning
<1>2. /\ active' \in Seq(1 .. Len(Mappings)) /\ Len(active') = Len(active) - 1
      /\ \A k \in 1 .. Len(active') : k + 1 \in 1 .. Len(active) /\ active'[k] = active[k + 1]
      /\ Head(active) = active[1] /\ Head(active) \in 1 .. Len(Mappings)
  BY <1>1, SequenceFacts
<1>3. /\ p \in 0 .. Len(listed) /\ p + 1 \in 1 .. Len(listed) /\ p' = p + 1
      /\ Head(active) = listed[p + 1]
      /\ \A k \in 1 .. Len(active') : active'[k] < index /\ active'[k] = listed[p + 1 + k]
  <2>1. /\ Len(active) <= Len(listed)
        /\ \A k \in 1 .. Len(active) : active[k] = listed[p + k] /\ active[k] < index
    BY <1>1 DEF CheckInv, CheckFacts
  <2>2. \A k \in 1 .. Len(active') : p + (k + 1) = p + 1 + k
    BY <1>1, <1>2
  <2>3. QED  BY <1>1, <1>2, <2>1, <2>2
<1>4. /\ failed' = IF ok THEN failed ELSE failed \cup {Head(active)}
      /\ failed' \subseteq 1 .. Len(Mappings)
      /\ check' = IF active' # <<>> THEN "connect" ELSE IF failed' # {} THEN "unreachable" ELSE "ok"
  BY <1>2 DEF PingDone, CheckInv, CheckTypeOK
<1>5. ASSUME moves = begun PROVE failed' = FaultyOf(p + 1)
  <2>1. failed = FaultyOf(p) /\ (ok <=> ~Faulty(listed[p + 1]))
    BY <1>1, <1>3, <1>5 DEF CheckInv, CheckFacts
  <2>2. 1 .. p + 1 = (1 .. p) \cup {p + 1}
    BY <1>3
  <2>3. FaultyOf(p + 1) = IF ok THEN FaultyOf(p) ELSE FaultyOf(p) \cup {listed[p + 1]}
    BY <2>1, <2>2 DEF FaultyOf
  <2>4. QED  BY <1>3, <1>4, <2>1, <2>3
<1>6. CheckTypeOK'
  BY <1>1, <1>2, <1>4 DEF CheckInv, CheckTypeOK, Pinging, Over
<1>7. \A m : Faulty(m)' = Faulty(m)
  BY <1>1 DEF Faulty
<1>8. Len(active') <= Len(listed') /\ Len(listed') - Len(active') = p + 1
  BY <1>1, <1>2, <1>3
<1>9. (FaultyOf(Len(listed) - Len(active)))' = FaultyOf(p + 1)
  <2>1. \A n : {listed'[k] : k \in {j \in 1 .. n : Faulty(listed[j])'}} = FaultyOf(n)
    BY <1>1, <1>7 DEF FaultyOf, Faulty
  <2>2. QED  BY <1>8, <2>1 DEF FaultyOf
<1>10. /\ check' \in {"connect", "unreachable", "ok"} /\ (check' = "connect" <=> active' # <<>>)
       /\ check' # "connect" => (check' = "unreachable" <=> failed' # {})
  BY <1>4
<1>11. CheckFacts'
  BY <1>1, <1>3, <1>5, <1>8, <1>9, <1>10 DEF CheckInv, CheckFacts, HasList, Pinging
<1>12. QED  BY <1>6, <1>11 DEF CheckInv

\* What is pinged was found before.
LEMMA PingedWasFound ==
    ASSUME CheckInv, check \in Pinging, moves = begun
    PROVE  reachable /\ Finds(Mappings[Head(active)]) # NoId
<1>1. /\ active # <<>> /\ active \in Seq(1 .. Len(Mappings)) /\ index \in 1 .. Len(Mappings) + 1
      /\ Len(Mappings) \in Nat
  BY MappingAssumption DEF CheckInv, CheckTypeOK, CheckFacts
<1>2. Head(active) \in 1 .. Len(Mappings) /\ Head(active) < index
  BY <1>1, SequenceFacts DEF CheckInv, CheckFacts
<1>3. index > 1
  BY <1>1, <1>2
<1>4. QED  BY <1>2, <1>3 DEF CheckInv, CheckFacts

\* A step of a ping keeps the invariant if it fails at a faulty mapping only, and
\* does not get past it to the exec request.
LEMMA PingStepInvariant ==
    ASSUME EngineInv, CheckInv, NEW at \in Pinging, NEW ok \in BOOLEAN, NEW next \in Pinging,
           PingStep(at, ok, next), UNCHANGED engineVars,
           moves = begun /\ ~ok => Faulty(Head(active)),
           moves = begun /\ ok /\ next \in {"exec", "ping"} => ~Faulty(Head(active))
    PROVE  CheckInv'
<1>1. check = at /\ UNCHANGED <<given, index, listed>>
  BY DEF PingStep
<1>2. CASE ok
  <2>1. /\ check' = next /\ active # <<>> /\ doctor
        /\ UNCHANGED <<port, doctor, identity, index, active, listed, failed, started, begun>>
        /\ UNCHANGED <<changes, moves, reachable>>
    BY <1>1, <1>2 DEF PingStep, given, engineVars, CheckInv, CheckFacts
  <2>2. /\ \A ref : Finds(ref)' = Finds(ref)
        /\ \A m : Faulty(m)' = Faulty(m)
    BY <2>1 DEF engineVars, Finds, Exists, Beginning, Faulty
  <2>3. \A n : FaultyOf(n)' = FaultyOf(n)
    BY <2>1, <2>2 DEF FaultyOf
  <2>4. CheckTypeOK'
    BY <2>1 DEF CheckInv, CheckTypeOK
  <2>5. CheckFacts'
    BY <1>1, <1>2, <2>1, <2>2, <2>3 DEF CheckInv, CheckFacts, HasList, Pinging
  <2>6. QED  BY <2>4, <2>5 DEF CheckInv
<1>3. CASE ~ok
  <2>1. PingDone(FALSE)
    BY <1>3 DEF PingStep
  <2>2. QED  BY <1>1, <1>3, <2>1, PingDoneStep
<1>4. QED  BY <1>2, <1>3

LEMMA CheckStepInvariant ==
    ASSUME EngineInv, CheckInv, Begin \/ CheckStep, UNCHANGED engineVars
    PROVE  CheckInv'
<1>1. /\ UNCHANGED <<changes, moves, reachable>> /\ Len(Mappings) \in Nat
      /\ \A ref : Finds(ref)' = Finds(ref)
  BY MappingAssumption DEF engineVars, Finds, Exists, Beginning
<1>2. CASE Begin
  <2>1. /\ check' = "inspect" /\ doctor' \in BOOLEAN /\ identity' \in {"usable", "unreadable"}
        /\ index' = 1 /\ started' = changes /\ begun' = moves
        /\ UNCHANGED <<port, active, listed, failed>> /\ active = <<>> /\ failed = {}
    BY <1>2 DEF Begin, CheckInv, CheckFacts
  <2>2. changes \in 0 .. MaxChanges /\ moves \in 0 .. MaxChanges
    BY ChangeAssumption DEF EngineInv
  <2>3. CheckTypeOK'
    BY <1>1, <2>1, <2>2 DEF CheckInv, CheckTypeOK
  <2>4. CheckFacts'
    BY <1>1, <2>1, <2>2 DEF CheckInv, CheckFacts, HasList, Pinging
  <2>5. QED  BY <2>3, <2>4 DEF CheckInv
<1>3. CASE InspectNext
  BY <1>3, InspectNextStep
<1>4. CASE Listed
  <2>1. /\ check = "inspect" /\ check' = IF doctor /\ active # <<>> THEN "connect" ELSE "ok"
        /\ listed' = active /\ failed = {}
        /\ UNCHANGED <<port, doctor, identity, index, active, failed, started, begun>>
    BY <1>4 DEF Listed, given, CheckInv, CheckFacts
  <2>2. CheckTypeOK'
    BY <1>1, <2>1 DEF CheckInv, CheckTypeOK, Pinging, Over
  <2>3. /\ Len(active) \in Nat /\ Len(active) - Len(active) = 0
        /\ \A k \in 1 .. Len(active) : Len(active) - Len(active) + k = k
    BY DEF CheckInv, CheckTypeOK
  <2>4. (FaultyOf(Len(listed) - Len(active)))' = {}
    BY <2>1, <2>3 DEF FaultyOf
  <2>5. CheckFacts'
    BY <1>1, <2>1, <2>3, <2>4 DEF CheckInv, CheckFacts, HasList, Pinging
  <2>6. QED  BY <2>2, <2>5 DEF CheckInv
<1>5. CASE PingConnect
  <2>1. PingStep("connect", port[Head(active)] # "deaf", "authenticate")
    BY <1>5 DEF PingConnect
  <2>2. ~(port[Head(active)] # "deaf") => Faulty(Head(active))
    BY DEF Faulty
  <2>3. QED  BY <2>1, <2>2, PingStepInvariant DEF Pinging
<1>6. CASE Authenticate
  <2>1. PingStep("authenticate", identity = "usable" /\ port[Head(active)] = "admits", "exec")
    BY <1>6 DEF Authenticate
  <2>2. (identity = "usable" /\ port[Head(active)] = "admits") <=> ~Faulty(Head(active))
    BY DEF Faulty, CheckInv, CheckTypeOK
  <2>3. QED  BY <2>1, <2>2, PingStepInvariant DEF Pinging
<1>7. CASE Exec
  <2>1. /\ PingStep("exec", ~InspectFails(Mappings[Head(active)]), "ping") /\ check = "exec"
    BY <1>7 DEF Exec, PingStep
  <2>2. moves = begun => ~Faulty(Head(active)) /\ ~InspectFails(Mappings[Head(active)])
    BY <2>1, InspectionFails, PingedWasFound DEF CheckInv, CheckFacts, Pinging
  <2>3. InspectFails(Mappings[Head(active)]) \in BOOLEAN
    BY DEF InspectFails
  <2>4. QED  BY <2>1, <2>2, <2>3, PingStepInvariant DEF Pinging
<1>8. CASE Ping
  <2>1. /\ check = "ping" /\ reachable \in BOOLEAN
        /\ PingDone(reachable) /\ UNCHANGED <<given, index, listed>>
    BY <1>8 DEF Ping, EngineInv
  <2>2. moves = begun => reachable /\ ~Faulty(Head(active))
    BY <2>1, PingedWasFound DEF CheckInv, CheckFacts, Pinging
  <2>3. QED  BY <2>1, <2>2, PingDoneStep DEF Pinging
<1>9. QED
  BY <1>2, <1>3, <1>4, <1>5, <1>6, <1>7, <1>8 DEF CheckStep

-----------------------------------------------------------------------------
(* The listing.                                                            *)

\* The mappings inspected so far, or all of them.
ListFacts ==
    changes = started =>
        /\ check = "inspect" => HasRunning(active, index - 1)
        /\ check \in Pinging \cup {"ok", "unreachable"} =>
               HasRunning(listed, Len(Mappings))

\* Another mapping is inspected and appended or left out.
LEMMA ListGrows ==
    ASSUME NEW list \in Seq(1 .. Len(Mappings)), NEW n \in 1 .. Len(Mappings), NEW next,
           HasRunning(list, n - 1), \A k \in 1 .. Len(list) : list[k] < n,
           next = IF Running(Finds(Mappings[n])) THEN Append(list, n) ELSE list
    PROVE  HasRunning(next, n)
<1>1. Len(Mappings) \in Nat /\ Len(list) \in Nat /\ n \in Nat
  BY MappingAssumption
<1>2. 1 .. n = (1 .. (n - 1)) \cup {n}
  BY <1>1
<1>3. CASE ~Running(Finds(Mappings[n]))
  BY <1>2, <1>3 DEF HasRunning
<1>4. CASE Running(Finds(Mappings[n]))
  <2>1. /\ next = Append(list, n) /\ Len(next) = Len(list) + 1
        /\ DOMAIN next = 1 .. Len(list) + 1 /\ DOMAIN list = 1 .. Len(list)
        /\ next[Len(list) + 1] = n
        /\ \A k \in 1 .. Len(list) : next[k] = list[k]
    BY <1>1, <1>4
  <2>2. Range(next) = Range(list) \cup {n}
    <3>1. 1 .. Len(list) + 1 = (1 .. Len(list)) \cup {Len(list) + 1}
      BY <1>1
    <3> QED  BY <2>1, <3>1 DEF Range
  <2>3. \A k, l \in 1 .. Len(next) : k < l => next[k] < next[l]
    <3> SUFFICES ASSUME NEW k \in 1 .. Len(list) + 1, NEW l \in 1 .. Len(list) + 1, k < l
                 PROVE  next[k] < next[l]
      BY <2>1
    <3>1. k \in 1 .. Len(list) /\ (l \in 1 .. Len(list) \/ l = Len(list) + 1)
      BY <1>1
    <3> QED  BY <2>1, <3>1 DEF HasRunning
  <2>4. Range(list) = {m \in 1 .. (n - 1) : Running(Finds(Mappings[m]))}
    BY DEF HasRunning
  <2>5. Range(next) = {m \in 1 .. n : Running(Finds(Mappings[m]))}
    BY <1>2, <1>4, <2>2, <2>4
  <2> QED  BY <2>3, <2>5 DEF HasRunning
<1> QED
  BY <1>3, <1>4

\* Nothing has changed since the command started, before or after the step.
LEMMA ListSame ==
    ASSUME EngineInv, CheckInv, ListFacts, UNCHANGED commandVars,
           UNCHANGED engineVars \/ changes' = changes + 1
    PROVE  ListFacts'
<1>1. UNCHANGED <<check, index, active, listed, started>>
  BY DEF commandVars
<1>2. CASE UNCHANGED engineVars
  <2>1. changes' = changes /\ \A ref : Finds(ref)' = Finds(ref) /\ Running(ref)' = Running(ref)
    BY <1>2 DEF engineVars, Finds, Exists, Beginning, Running
  <2> QED  BY <1>1, <2>1 DEF ListFacts, HasRunning
<1>3. CASE changes' = changes + 1
  <2>1. changes \in Nat /\ started \in Nat /\ started <= changes
    BY ChangeAssumption DEF EngineInv, CheckInv, CheckTypeOK, CheckFacts
  <2>2. changes' # started'
    BY <1>1, <1>3, <2>1
  <2> QED  BY <2>2 DEF ListFacts
<1> QED
  BY <1>2, <1>3

LEMMA ListStep ==
    ASSUME EngineInv, CheckInv, ListFacts, Begin \/ CheckStep, UNCHANGED engineVars
    PROVE  ListFacts'
<1>1. /\ changes' = changes /\ Len(Mappings) \in Nat
      /\ \A ref : Finds(ref)' = Finds(ref) /\ Running(ref)' = Running(ref)
  BY MappingAssumption DEF engineVars, Finds, Exists, Beginning, Running
<1>2. \A list, n : HasRunning(list, n)' = HasRunning(list', n')
  BY <1>1 DEF HasRunning
<1>3. CASE Begin
  <2>1. check' = "inspect" /\ active' = <<>> /\ index' = 1
    BY <1>3 DEF Begin, CheckInv, CheckFacts
  <2>2. HasRunning(<<>>, 0)
    BY DEF HasRunning, Range
  <2> QED  BY <1>1, <2>1, <2>2 DEF ListFacts, HasRunning, Pinging
<1>4. CASE InspectNext
  <2>1. UNCHANGED <<listed, started>> /\ check = "inspect" /\ check' \in {"inspect", "error"}
    BY <1>4 DEF InspectNext, given
  <2>2. ASSUME check' # "error", changes = started PROVE HasRunning(active', index' - 1)
    <3>1. /\ active' = IF Running(Finds(Mappings[index])) THEN Append(active, index) ELSE active
          /\ index' = index + 1
      BY <1>4, <2>2 DEF InspectNext, InspectContainer, AppendActive
    <3>2. /\ index \in 1 .. Len(Mappings) /\ active \in Seq(1 .. Len(Mappings))
          /\ \A k \in 1 .. Len(active) : active[k] < index
          /\ HasRunning(active, index - 1)
      BY <1>1, <1>4, <2>1, <2>2 DEF InspectNext, CheckInv, CheckTypeOK, CheckFacts, ListFacts
    <3>3. HasRunning(active', index)
      BY <3>1, <3>2, ListGrows
    <3> QED  BY <1>1, <3>1, <3>2, <3>3
  <2> QED  BY <1>1, <2>1, <2>2 DEF ListFacts, HasRunning, Pinging
<1>5. CASE Listed
  <2>1. /\ check = "inspect" /\ listed' = active /\ check' # "inspect" /\ started' = started
        /\ index - 1 = Len(Mappings)
    BY <1>1, <1>5 DEF Listed, given, CheckInv, CheckTypeOK
  <2> QED  BY <1>1, <2>1 DEF ListFacts, HasRunning
<1>6. CASE PingConnect \/ Authenticate \/ Exec \/ Ping
  <2>1. /\ check \in Pinging /\ check' \in Pinging \cup {"ok", "unreachable"}
        /\ UNCHANGED <<listed, started>>
    BY <1>6 DEF PingConnect, Authenticate, Exec, Ping, PingStep, PingDone, given, Pinging
  <2> QED  BY <1>1, <2>1 DEF ListFacts, HasRunning, Pinging
<1> QED
  BY <1>3, <1>4, <1>5, <1>6 DEF CheckStep

-----------------------------------------------------------------------------
(* The composition.                                                        *)

LEMMA InitInvariant == Init => IInv
  BY EngineStart, ForwardStart, ProxyStart, CheckStart DEF Init, IInv

LEMMA OthersKept ==
    /\ EngineInv /\ UNCHANGED engineVars => EngineInv'
    /\ ForwardInv /\ UNCHANGED <<proc, taken, forwardVars>> => ForwardInv'
    /\ ProxyInv /\ UNCHANGED proxyVars => ProxyInv'
    /\ CheckInv /\ UNCHANGED <<engineVars, checkVars>> => CheckInv'
<1>1. EngineInv /\ UNCHANGED engineVars => EngineInv'
  BY DEF EngineInv, engineVars
<1>2. ForwardInv /\ UNCHANGED <<proc, taken, forwardVars>> => ForwardInv'
  BY DEF ForwardInv, ForwardTypeOK, ForwardFacts, ThreadFacts, Fresh, forwardVars
<1>3. ProxyInv /\ UNCHANGED proxyVars => ProxyInv'
  BY DEF ProxyInv, ProxyTypeOK, ProxyFacts, proxyVars
<1>4. ASSUME CheckInv, UNCHANGED <<engineVars, checkVars>>
      PROVE  CheckInv'
  <2>1. \A ref : Finds(ref)' = Finds(ref)
    BY <1>4 DEF Finds, Exists, Beginning, engineVars
  <2>2. /\ UNCHANGED <<changes, moves, reachable, port>>
        /\ UNCHANGED <<check, doctor, identity, index, active, listed, failed, started, begun>>
    BY <1>4 DEF engineVars, checkVars, commandVars
  <2>3. CheckTypeOK'
    BY <1>4, <2>2 DEF CheckInv, CheckTypeOK
  <2>4. CheckFacts'
    BY <1>4, <2>1, <2>2 DEF CheckInv, CheckFacts, HasList, FaultyOf, Faulty
  <2>5. QED  BY <2>3, <2>4 DEF CheckInv
<1>5. QED  BY <1>1, <1>2, <1>3, <1>4

\* The daemon's ports matter to the doctor only.
LEMMA DaemonStepInvariant ==
    ASSUME IInv, DaemonStep
    PROVE  IInv'
<1>1. /\ changes' = changes + 1 /\ changes' \in 0 .. MaxChanges
      /\ moves' = moves + 1 /\ moves' \in 0 .. changes'
      /\ UNCHANGED <<names, used, proc, taken, reachable, commandVars, forwardVars, proxyVars>>
  BY ChangeAssumption DEF DaemonStep, PortChanges, Move, Count, IInv, EngineInv
<1>2. port' \in [DOMAIN Mappings -> PortState]
  BY DEF DaemonStep, PortChanges, IInv, CheckInv, CheckTypeOK
<1>3. EngineInv'
  <2>1. changes \in Nat /\ \A p \in Pid : taken[p] \in Nat /\ taken[p] <= changes
    BY ChangeAssumption DEF IInv, EngineInv
  <2>2. QED  BY <1>1, <2>1 DEF IInv, EngineInv
<1>4. CheckInv'
  <2>1. moves' # moves
    BY <1>1 DEF IInv, EngineInv
  <2>2. QED  BY <1>1, <1>2, <2>1, Disturbed DEF IInv
<1>5. QED  BY <1>1, <1>3, <1>4, OthersKept DEF IInv

LEMMA StepInvariant == IInv /\ [Next]_vars => IInv'
<1> SUFFICES ASSUME IInv, [Next]_vars
             PROVE  IInv'
  OBVIOUS
<1>1. CASE EngineStep
  BY <1>1, EngineStepInvariant
<1>2. ASSUME NEW f \in Forward, NewForward(f) \/ ForwardStep(f)
      PROVE  IInv'
  <2>1. UNCHANGED <<engineVars, proxyVars, checkVars>>
    BY <1>2 DEF NewForward, ForwardStep
  <2>2. ForwardInv'
    BY <1>2, <2>1, LookUpStep, ThreadStepInvariant DEF NewForward, ForwardStep, IInv
  <2>3. QED  BY <2>1, <2>2, OthersKept DEF IInv, engineVars
<1>3. ASSUME NEW p \in Proxy, NewProxy(p) \/ ProxyGoesOn(p)
      PROVE  IInv'
  <2>1. UNCHANGED <<engineVars, forwardVars, checkVars>>
    BY <1>3 DEF NewProxy, ProxyGoesOn
  <2>2. ProxyInv'
    BY <1>3, ResolveStep, ProxyStepInvariant DEF NewProxy, ProxyGoesOn, IInv
  <2>3. QED  BY <2>1, <2>2, OthersKept DEF IInv, engineVars
<1>4. CASE NewCheck \/ CheckGoesOn
  <2>1. UNCHANGED <<engineVars, forwardVars, proxyVars>>
    BY <1>4 DEF NewCheck, CheckGoesOn
  <2>2. CheckInv'
    BY <1>4, <2>1, CheckStepInvariant DEF NewCheck, CheckGoesOn, IInv
  <2>3. QED  BY <2>1, <2>2, OthersKept DEF IInv, engineVars
<1>5. CASE UNCHANGED vars
  BY <1>5, OthersKept DEF IInv, engineVars, vars
<1>6. CASE DaemonStep
  BY <1>6, DaemonStepInvariant
<1>7. QED
  BY <1>1, <1>2, <1>3, <1>4, <1>5, <1>6 DEF Next

LEMMA Invariance == Spec => []IInv
<1>1. QED  BY InitInvariant, StepInvariant, PTL DEF Spec

-----------------------------------------------------------------------------
(* The theorems.                                                           *)

\* Every reachable state has the declared type.
THEOREM TypeCorrect == Spec => []TypeOK
<1>1. IInv => TypeOK
  <2>1. SUFFICES ASSUME IInv
                 PROVE  TypeOK
    OBVIOUS
  <2>2. taken \in [Pid -> 0 .. MaxChanges]
    BY <2>1, ChangeAssumption DEF IInv, EngineInv
  <2>3. EngineTypeOK
    BY <2>1, <2>2 DEF IInv, EngineInv, EngineTypeOK
  <2>4. QED  BY <2>1, <2>3 DEF IInv, ForwardInv, ProxyInv, CheckInv, TypeOK
<1>2. QED  BY <1>1, Invariance, PTL

\* However forwards, their threads and the engine interleave, a connection leads
\* into the container that was looked up or the pid has been given away.
THEOREM ForwardsLeadHome == Spec => []RightNetwork
<1>1. IInv => RightNetwork
  BY DEF IInv, ForwardInv, ForwardFacts, Fresh, Entering, RightNetwork
<1>2. QED  BY <1>1, Invariance, PTL

\* A thread goes back to the pool outside the host's namespace only if its
\* forward has failed.
THEOREM NoSilentStray == Spec => []StraysAreReported
<1>1. IInv => StraysAreReported
  BY DEF IInv, ForwardInv, ThreadFacts, StraysAreReported
<1>2. QED  BY <1>1, Invariance, PTL

\* Whatever the requests and the engine's containers, a request under /containers/
\* that a proxy passes on lets the engine act on the channel's own container only.
THEOREM ProxyStaysInside == Spec => []ActsOnTarget
<1>1. IInv => ActsOnTarget
  BY DEF IInv, ProxyInv, ProxyFacts, ActsOnTarget, OfContainers
<1>2. QED  BY <1>1, Invariance, PTL

\* By whatever name, id or beginning of an id the engine knows the container, the
\* proxy knows it too.
THEOREM ProxyKnowsItsContainer == Spec => []KnowsItsOwn
<1>1. IInv => KnowsItsOwn
  <2>1. SUFFICES ASSUME IInv, NEW p \in Proxy, NEW q \in Query, resolved[p].id # NoId,
                        Finds(q.ref) = resolved[p].id,
                        names[resolved[p].name] = resolved[p].id
                 PROVE  ContainerRefMatches(q.ref, resolved[p])
    BY DEF KnowsItsOwn
  <2>2. /\ q.ref \in Seq(STRING) /\ resolved[p].id \in Id
        /\ resolved[p].name \in Name /\ resolved[p].name \in resolved[p].refs
    BY <2>1, QueryAssumption DEF Path, IInv, ProxyInv, ProxyTypeOK, ProxyFacts
  <2>3. CASE q.ref \in Id /\ Exists(q.ref)
    <3>1. q.ref = resolved[p].id
      BY <2>1, <2>3 DEF Finds
    <3>2. QED  BY <2>2, <3>1, PrefixOfItself DEF ContainerRefMatches
  <2>4. CASE ~(q.ref \in Id /\ Exists(q.ref)) /\ q.ref \in Name /\ names[q.ref] # NoId
    <3>1. names[q.ref] = resolved[p].id
      BY <2>1, <2>4 DEF Finds
    <3>2. q.ref = resolved[p].name
      BY <2>1, <2>2, <2>4, <3>1 DEF IInv, EngineInv
    <3>3. IsPrefix(q.ref, q.ref)
      BY <2>2, PrefixOfItself
    <3>4. QED  BY <2>2, <3>2, <3>3 DEF ContainerRefMatches
  <2>5. CASE ~(q.ref \in Id /\ Exists(q.ref)) /\ ~(q.ref \in Name /\ names[q.ref] # NoId)
    <3>1. /\ \E i \in Id : Beginning(q.ref) = {i}
          /\ Finds(q.ref) = CHOOSE i \in Id : Beginning(q.ref) = {i}
      BY <2>1, <2>5 DEF Finds
    <3>2. Beginning(q.ref) = {resolved[p].id}
      BY <2>1, <3>1
    <3>3. QED  BY <3>2 DEF Beginning, ContainerRefMatches
  <2>6. QED  BY <2>3, <2>4, <2>5
<1>2. QED  BY <1>1, Invariance, PTL

\* Whatever the ports of the mappings come to, the doctor blames those listed
\* that it cannot get in at and no others, and the listing fails for a cause, if
\* nothing but containers that start and stop has changed since the beginning.
THEOREM DoctorBlamesFaults == Spec => []DoctorIsRight
<1>1. IInv => DoctorIsRight
  <2>1. SUFFICES ASSUME IInv, moves = begun
                 PROVE  /\ doctor /\ check \in {"ok", "unreachable"} =>
                               /\ failed = {m \in Range(listed) : Faulty(m)}
                               /\ check = "unreachable" <=> failed # {}
                        /\ check = "error" =>
                               ~reachable \/ \E n \in 1 .. Len(Mappings) : Finds(Mappings[n]) = NoId
    BY DEF DoctorIsRight
  <2>2. CheckFacts /\ listed \in Seq(1 .. Len(Mappings))
    BY <2>1 DEF IInv, CheckInv, CheckTypeOK
  <2>3. ASSUME doctor, check \in {"ok", "unreachable"}
        PROVE  failed = {m \in Range(listed) : Faulty(m)}
    <3>1. HasList /\ active = <<>>
      BY <2>2, <2>3 DEF HasList, CheckFacts, Pinging
    <3>2. Len(listed) - Len(active) = Len(listed) /\ DOMAIN listed = 1 .. Len(listed)
      BY <2>2, <3>1
    <3>3. failed = FaultyOf(Len(listed))
      BY <2>1, <2>2, <3>1, <3>2 DEF CheckFacts
    <3>4. QED  BY <3>2, <3>3 DEF FaultyOf, Range
  <2>4. QED  BY <2>1, <2>2, <2>3 DEF CheckFacts
<1>2. QED  BY <1>1, Invariance, PTL

\* What `show` lists and `doctor` looks at is what runs, in the order of the
\* mappings, if nothing has changed meanwhile. (active_mappings)
THEOREM ListingIsComplete == Spec => []ListsRunning
<1>1. Init => ListFacts
  BY DEF Init, CheckInit, ListFacts, Pinging
<1>2. ASSUME IInv, ListFacts, [Next]_vars PROVE ListFacts'
  <2>1. CASE EngineStep \/ DaemonStep
    <3>1. changes' = changes + 1 /\ UNCHANGED commandVars
      BY <1>2, <2>1, EngineSteps DEF EngineStep, EngineMoved, DaemonStep, PortChanges, Move, Count,
         IInv, checkVars
    <3>2. QED  BY <1>2, <3>1, ListSame DEF IInv
  <2>2. CASE NewCheck \/ CheckGoesOn
    BY <1>2, <2>2, ListStep DEF NewCheck, CheckGoesOn, IInv, engineVars
  <2>3. CASE /\ ~(EngineStep \/ DaemonStep) /\ ~(NewCheck \/ CheckGoesOn)
    <3>1. UNCHANGED engineVars /\ UNCHANGED commandVars
      BY <1>2, <2>3 DEF Next, NewForward, ForwardStep, NewProxy, ProxyGoesOn, vars, checkVars
    <3> QED  BY <1>2, <3>1, ListSame DEF IInv
  <2> QED  BY <2>1, <2>2, <2>3
<1>3. ListFacts => ListsRunning
  BY DEF ListFacts, ListsRunning, Over
<1> QED
  BY <1>1, <1>2, <1>3, Invariance, PTL DEF Spec

-----------------------------------------------------------------------------
(* Forwards come to an end.                                                *)

AtWork == {"open", "enter", "connect", "restore"}
Outcome == {"established", "failed"}

\* Thread t can take a step for forward f.
CanStep(f, t) ==
    \/ step[f] = "queued" /\ job[t] = NoForward
    \/ step[f] \in AtWork /\ job[t] = f

\* The steps a forward can still take.
StepsToGo(f) ==
    CASE step[f] = "queued"  -> MaxAddresses + 5
      [] step[f] = "open"    -> MaxAddresses + 4
      [] step[f] = "enter"   -> MaxAddresses + 3
      [] step[f] = "connect" -> left[f] + 2
      [] step[f] = "restore" -> 1
      [] OTHER -> 0

\* A forward that has begun can go on, unless every thread of the pool is busy
\* with a forward that can: none holds a thread and waits for another one.
\* (connect_in_network_namespace blocks its thread from beginning to end)
WaitsForThreadsOnly ==
    \A f \in Forward : step[f] \notin {"none"} \cup Outcome =>
        \/ \E t \in Thread : CanStep(f, t)
        \/ step[f] = "queued" /\ \A t \in Thread : job[t] # NoForward /\ CanStep(job[t], t)

\* Nobody's step but its own changes a forward that has begun, and each of its
\* own brings it nearer to its outcome. (no loop but that of connect_blocking)
EveryStepCounts ==
    [][\A f \in Forward : step[f] # "none" =>
           UNCHANGED <<step[f], left[f]>> \/ StepsToGo(f)' < StepsToGo(f)]_vars

\* A forward that has left the queue has a thread.
HasThread == \A f \in Forward : step[f] \in AtWork => \E t \in Thread : job[t] = f

\* A step of a thread is one of its forward, which keeps the thread till the end.
LEMMA ThreadStepFacts ==
    ASSUME ForwardInv, NEW f \in Forward, NEW t \in Thread, ThreadStep(f, t)
    PROVE  /\ step[f] \in {"queued"} \cup AtWork
           /\ \A g \in Forward : g # f => step'[g] = step[g] /\ left'[g] = left[g]
           /\ \A u \in Thread : u # t => job'[u] = job[u]
           /\ job[t] \in {f, NoForward}
           /\ step'[f] \in Outcome \/ (step'[f] \in AtWork /\ job'[t] = f)
           /\ StepsToGo(f)' < StepsToGo(f)
<1> USE DEF AtWork, Outcome, StepsToGo
<1>1. /\ f \in DOMAIN step /\ t \in DOMAIN job /\ f \in DOMAIN left
      /\ left[f] \in 0 .. MaxAddresses /\ MaxAddresses \in Nat
  BY AddressAssumption DEF ForwardInv, ForwardTypeOK
<1>2. CASE Run(f, t)
  BY <1>1, <1>2 DEF Run
<1>3. CASE OpenTarget(f, t)
  <2>1. step[f] = "open" /\ job[t] = f /\ UNCHANGED left
    BY <1>3 DEF OpenTarget
  <2>2. CASE Return(f, t, "failed")
    BY <1>1, <2>1, <2>2 DEF Return
  <2>3. CASE step' = [step EXCEPT ![f] = "enter"] /\ UNCHANGED job
    BY <1>1, <2>1, <2>3
  <2>4. QED  BY <1>3, <2>2, <2>3 DEF OpenTarget
<1>4. CASE Enter(f, t)
  <2>1. CASE Return(f, t, "failed") /\ UNCHANGED left
    BY <1>1, <1>4, <2>1 DEF Enter, Return
  <2>2. CASE /\ left' \in {[left EXCEPT ![f] = n] : n \in 0 .. MaxAddresses}
             /\ step' = [step EXCEPT ![f] = "connect"] /\ UNCHANGED job
    <3>1. PICK n \in 0 .. MaxAddresses : left' = [left EXCEPT ![f] = n]
      BY <2>2
    <3>2. QED  BY <1>1, <1>4, <2>2, <3>1 DEF Enter
  <2>3. QED  BY <1>4, <2>1, <2>2 DEF Enter
<1>5. CASE Connect(f, t)
  <2>1. step[f] = "connect" /\ job[t] = f /\ UNCHANGED job
    BY <1>5 DEF Connect
  <2>2. CASE step' = [step EXCEPT ![f] = "restore"] /\ left' \in {left, [left EXCEPT ![f] = 0]}
    <3>1. \A g \in Forward : g # f => step'[g] = step[g] /\ left'[g] = left[g]
      BY <2>2 DEF ForwardInv, ForwardTypeOK
    <3>2. step'[f] = "restore"
      BY <1>1, <2>2
    <3>3. StepsToGo(f) = left[f] + 2 /\ StepsToGo(f)' = 1
      BY <2>1, <3>2
    <3>4. QED  BY <1>1, <2>1, <3>1, <3>2, <3>3
  <2>3. CASE left[f] > 0 /\ left' = [left EXCEPT ![f] = @ - 1] /\ UNCHANGED step
    BY <1>1, <2>1, <2>3
  <2>4. QED  BY <1>5, <2>2, <2>3 DEF Connect
<1>6. CASE Restore(f, t)
  <2>1. step[f] = "restore" /\ job[t] = f /\ UNCHANGED left
    BY <1>6 DEF Restore
  <2>2. PICK outcome \in Outcome : Return(f, t, outcome)
    BY <1>6 DEF Restore
  <2>3. /\ step'[f] = outcome /\ \A g \in Forward : g # f => step'[g] = step[g]
        /\ \A u \in Thread : u # t => job'[u] = job[u]
    BY <1>1, <2>2 DEF Return
  <2>4. StepsToGo(f) = 1 /\ StepsToGo(f)' = 0
    BY <2>1, <2>3
  <2>5. QED  BY <2>1, <2>3, <2>4
<1>7. QED  BY <1>2, <1>3, <1>4, <1>5, <1>6 DEF ThreadStep

\* What the other steps leave alone.
LEMMA ForwardsElsewhere ==
    ASSUME [Next]_vars
    PROVE  \/ UNCHANGED <<step, left, job>>
           \/ \E f \in Forward : NewForward(f) \/ ForwardStep(f)
  BY DEF Next, vars, forwardVars, EngineStep, DaemonStep, NewProxy, ProxyGoesOn, NewCheck, CheckGoesOn

\* A new forward is no other one.
LEMMA NewForwardFacts ==
    ASSUME ForwardInv, NEW f \in Forward, NewForward(f)
    PROVE  /\ step[f] = "none" /\ step'[f] \in {"queued", "failed"}
           /\ \A g \in Forward : g # f => step'[g] = step[g]
           /\ UNCHANGED <<left, job>>
  BY DEF NewForward, LookUp, ForwardInv, ForwardTypeOK

\* Forwards at work keep their threads.
LEMMA HasThreadStep == IInv /\ HasThread /\ [Next]_vars => HasThread'
<1> SUFFICES ASSUME IInv, HasThread, [Next]_vars, NEW g \in Forward, step'[g] \in AtWork
             PROVE  \E u \in Thread : job'[u] = g
  BY DEF HasThread
<1>0. ForwardInv /\ NoForward # g
  BY ForwardAssumption DEF IInv
<1>1. CASE UNCHANGED <<step, left, job>>
  BY <1>1 DEF HasThread
<1>2. ASSUME NEW f \in Forward, NewForward(f)
      PROVE  \E u \in Thread : job'[u] = g
  BY <1>0, <1>2, NewForwardFacts DEF HasThread, AtWork
<1>3. ASSUME NEW f \in Forward, NEW t \in Thread, ThreadStep(f, t)
      PROVE  \E u \in Thread : job'[u] = g
  <2>1. CASE g = f
    BY <1>0, <1>3, <2>1, ThreadStepFacts DEF AtWork, Outcome
  <2>2. CASE g # f
    <3>1. step[g] \in AtWork
      BY <1>0, <1>3, <2>2, ThreadStepFacts
    <3>2. PICK u \in Thread : job[u] = g
      BY <3>1 DEF HasThread
    <3>3. u # t
      BY <1>0, <1>3, <2>2, <3>2, ThreadStepFacts
    <3>4. QED  BY <1>0, <1>3, <3>2, <3>3, ThreadStepFacts
  <2>3. QED  BY <2>1, <2>2
<1>4. QED  BY <1>1, <1>2, <1>3, ForwardsElsewhere DEF ForwardStep

\* No forward waits for anything but a thread, and none takes more steps than it
\* has addresses to try and a handful more, whatever the engine does meanwhile.
THEOREM ForwardsFinish == Spec => []WaitsForThreadsOnly /\ EveryStepCounts
<1> DEFINE Counts == \A f \in Forward : step[f] # "none" =>
                        UNCHANGED <<step[f], left[f]>> \/ StepsToGo(f)' < StepsToGo(f)
<1>1. Init => HasThread
  BY DEF Init, ForwardInit, HasThread, AtWork
<1>2. IInv /\ HasThread => WaitsForThreadsOnly
  <2>1. SUFFICES ASSUME IInv, HasThread, NEW f \in Forward,
                        step[f] \notin {"none"} \cup Outcome,
                        ~\E t \in Thread : CanStep(f, t)
                 PROVE  /\ step[f] = "queued"
                        /\ \A t \in Thread : job[t] # NoForward /\ CanStep(job[t], t)
    BY DEF WaitsForThreadsOnly
  <2>2. step[f] \in {"queued"} \cup AtWork
    BY <2>1 DEF IInv, ForwardInv, ForwardTypeOK, AtWork, Outcome
  <2>3. step[f] = "queued"
    BY <2>1, <2>2 DEF HasThread, CanStep
  <2>4. ASSUME NEW t \in Thread
        PROVE  job[t] # NoForward /\ CanStep(job[t], t)
    <3>1. job[t] # NoForward
      BY <2>1, <2>3 DEF CanStep
    <3>2. QED  BY <2>1, <3>1 DEF CanStep, IInv, ForwardInv, ThreadFacts, AtWork
  <2>5. QED  BY <2>3, <2>4
<1>3. IInv /\ [Next]_vars => [Counts]_vars
  <2>1. SUFFICES ASSUME IInv, [Next]_vars, NEW g \in Forward, step[g] # "none"
                 PROVE  UNCHANGED <<step[g], left[g]>> \/ StepsToGo(g)' < StepsToGo(g)
    OBVIOUS
  <2>2. ForwardInv
    BY <2>1 DEF IInv
  <2>3. CASE UNCHANGED <<step, left, job>>
    BY <2>3
  <2>4. ASSUME NEW f \in Forward, NewForward(f)
        PROVE  UNCHANGED <<step[g], left[g]>>
    BY <2>1, <2>2, <2>4, NewForwardFacts
  <2>5. ASSUME NEW f \in Forward, NEW t \in Thread, ThreadStep(f, t)
        PROVE  UNCHANGED <<step[g], left[g]>> \/ StepsToGo(g)' < StepsToGo(g)
    BY <2>2, <2>5, ThreadStepFacts
  <2>6. QED  BY <2>1, <2>3, <2>4, <2>5, ForwardsElsewhere DEF ForwardStep
<1>4. QED
  BY <1>1, <1>2, <1>3, HasThreadStep, Invariance, PTL DEF Spec, EveryStepCounts

=============================================================================
