------------------------ MODULE ListenerReloadProofs ------------------------
(***************************************************************************)
(* Proofs about ListenerReload, for every set of file contents, ports and  *)
(* containers and every bound.                                             *)
(***************************************************************************)
EXTENDS ListenerReload, FiniteSetTheorems, TLAPS

-----------------------------------------------------------------------------
(* The operators the daemon is built from.                                 *)

\* The listeners build_listeners makes of a mapping have the mapping's type.
LEMMA ListenersAtType ==
    ASSUME NEW cfg \in ConfigFile, NEW i \in 1 .. Len(cfg.mappings)
    PROVE  ListenersAt(cfg, i) \subseteq Listener
<1>1. cfg.mappings[i] \in Mapping
  BY DEF ConfigFile
<1>2. Families(cfg.listen_host) \subseteq Family
  BY DEF Families, Family
<1>3. cfg.authorized_keys \in BOOLEAN
  BY DEF ConfigFile
<1> QED
  BY <1>1, <1>2, <1>3 DEF ListenersAt, Listener, Socket, Mapping

\* Before its first mapping a start has opened nothing.
LEMMA OpenedNone == ASSUME NEW cfg PROVE Opened(cfg, 0) = {}
  BY DEF Opened

\* Each mapping adds its listeners to those opened before.
LEMMA OpenedNext ==
    ASSUME NEW cfg, NEW n \in Nat \ {0}
    PROVE  Opened(cfg, n) = Opened(cfg, n - 1) \cup ListenersAt(cfg, n)
<1>1. 1 .. n = (1 .. (n - 1)) \cup {n}
  OBVIOUS
<1> QED
  BY <1>1 DEF Opened

-----------------------------------------------------------------------------
(* Types.                                                                  *)

\* A configuration the daemon parses is a configuration.
LEMMA ParsedType ==
    ASSUME NEW r \in Raw, Parse[r] # Invalid
    PROVE  Parse[r] \in ConfigFile
  BY ParseAssumption

\* The initial state is typed.
LEMMA InitType == Init => TypeOK
<1>1. NoConfig \in ConfigFile
  BY DEF NoConfig, ConfigFile, ListenHost
<1> SUFFICES ASSUME Init PROVE TypeOK
  OBVIOUS
<1>2. /\ foreign \subseteq Socket
      /\ unreadable \subseteq {"host_key", "authorized_keys"}
      /\ active \subseteq Listener
      /\ previous_active \subseteq Listener
      /\ bound \subseteq Listener
  BY DEF Init
<1>3. current_cfg \in ConfigFile /\ starting \in ConfigFile
  BY <1>1 DEF Init
<1>4. /\ file \in Raw \cup {Missing}
      /\ current_raw \in Raw \cup {Missing}
      /\ raw \in Raw \cup {Missing}
  BY DEF Init
<1>5. shutdown \in BOOLEAN /\ pid_file \in BOOLEAN
  BY DEF Init
<1>6. pc \in PC /\ phase \in {"boot", "new", "restore"} /\ next \in Nat \ {0}
  BY DEF Init, PC
<1> QED
  BY <1>2, <1>3, <1>4, <1>5, <1>6 DEF TypeOK

\* Every step keeps the types.
LEMMA NextType == TypeOK /\ [Next]_vars => TypeOK'
<1> SUFFICES ASSUME TypeOK, [Next]_vars PROVE TypeOK'
  OBVIOUS
<1>1. CASE World
  <2>1. ASSUME NEW contents \in Raw \cup {Missing}, EditFile(contents) PROVE TypeOK'
    BY <2>1 DEF EditFile, TypeOK, PC
  <2>2. ASSUME NEW socket \in Squattable, Squat(socket) PROVE TypeOK'
    BY <2>2, ForeignAssumption DEF Squat, TypeOK, PC
  <2>3. ASSUME NEW socket \in foreign, Release(socket) PROVE TypeOK'
    BY <2>3 DEF Release, TypeOK, PC
  <2>4. ASSUME NEW input \in {"host_key", "authorized_keys"}, ToggleReadable(input)
        PROVE  TypeOK'
    BY <2>4 DEF ToggleReadable, TypeOK, PC
  <2>5. CASE RequestShutdown
    BY <2>5 DEF RequestShutdown, TypeOK, PC
  <2>6. ASSUME NEW listener \in bound, ListenerFails(listener) PROVE TypeOK'
    BY <2>6 DEF ListenerFails, TypeOK, PC
  <2> QED
    BY <1>1, <2>1, <2>2, <2>3, <2>4, <2>5, <2>6 DEF World
<1>2. CASE Daemon
  <2>1. CASE Boot
    BY <2>1, ParsedType DEF Boot, Starting, worldVars, TypeOK, PC
  <2>2. CASE LoadKeys
    BY <2>2 DEF LoadKeys, StartOk, StartFailed, Starting, worldVars, TypeOK, PC
  <2>3. CASE BindNext
    <3>1. CASE CanBind
      <4>1. next \in 1 .. Len(starting.mappings)
        BY <2>3 DEF BindNext, TypeOK, ConfigFile
      <4>2. ListenersAt(starting, next) \subseteq Listener
        BY <4>1, ListenersAtType DEF TypeOK
      <4> QED
        BY <2>3, <3>1, <4>2 DEF BindNext, worldVars, TypeOK, PC
    <3>2. CASE ~CanBind
      BY <2>3, <3>2 DEF BindNext, StartFailed, Starting, worldVars, TypeOK, PC
    <3> QED
      BY <3>1, <3>2
  <2>4. CASE SpawnTasks
    BY <2>4 DEF SpawnTasks, StartOk, worldVars, TypeOK, PC
  <2>5. CASE ReloadInvalid
    BY <2>5 DEF ReloadInvalid, worldVars, TypeOK, PC
  <2>6. CASE ReloadChanged
    BY <2>6, ParsedType DEF ReloadChanged, worldVars, TypeOK, PC
  <2>7. ASSUME NEW listener \in previous_active, StopNext(listener) PROVE TypeOK'
    BY <2>7 DEF StopNext, worldVars, TypeOK, PC
  <2>8. CASE StartNew
    BY <2>8 DEF StartNew, Starting, worldVars, TypeOK, PC
  <2>9. CASE SelectShutdown
    BY <2>9 DEF SelectShutdown, worldVars, TypeOK, PC
  <2>10. CASE RemovePidFile
    BY <2>10 DEF RemovePidFile, worldVars, TypeOK, PC
  <2> QED
    BY <1>2, <2>1, <2>2, <2>3, <2>4, <2>5, <2>6, <2>7, <2>8, <2>9, <2>10 DEF Daemon
<1>3. CASE UNCHANGED vars
  BY <1>3 DEF vars, TypeOK, PC
<1> QED
  BY <1>1, <1>2, <1>3 DEF Next

\* Every reachable state of the daemon is of the declared type.
THEOREM TypeCorrect == Spec => []TypeOK
  BY InitType, NextType, PTL DEF Spec

-----------------------------------------------------------------------------
(* The sockets the process has open.                                       *)

\* A start has bound a prefix of the mappings, and outside the loop the daemon
\* holds no handle: what a failed start leaves behind is nothing at all.
Accounting ==
    /\ OwnsOnlyItsSet
    /\ WholeSet
    /\ pc = "start" => next = 1
    /\ pc = "bind" => next <= Len(starting.mappings) + 1
    /\ pc # "select" => active = {}
    /\ ~pid_file => pc = "exited"

\* Before its first start the daemon has no listener.
LEMMA InitAccounting == Init => Accounting
  BY DEF Init, Accounting, OwnsOnlyItsSet, WholeSet

\* Every step keeps the sockets and handles accounted for.
LEMMA NextAccounting == TypeOK /\ Accounting /\ [Next]_vars => Accounting'
<1> SUFFICES ASSUME TypeOK, Accounting, [Next]_vars PROVE Accounting'
  OBVIOUS
<1> USE DEF Accounting, OwnsOnlyItsSet, WholeSet
<1>1. CASE World
  <2>1. ASSUME NEW contents \in Raw \cup {Missing}, EditFile(contents) PROVE Accounting'
    BY <2>1 DEF EditFile
  <2>2. ASSUME NEW socket \in Squattable, Squat(socket) PROVE Accounting'
    BY <2>2 DEF Squat
  <2>3. ASSUME NEW socket \in foreign, Release(socket) PROVE Accounting'
    BY <2>3 DEF Release
  <2>4. ASSUME NEW input \in {"host_key", "authorized_keys"}, ToggleReadable(input)
        PROVE  Accounting'
    BY <2>4 DEF ToggleReadable
  <2>5. CASE RequestShutdown
    BY <2>5 DEF RequestShutdown
  <2>6. ASSUME NEW listener \in bound, ListenerFails(listener) PROVE Accounting'
    BY <2>6 DEF ListenerFails
  <2> QED
    BY <1>1, <2>1, <2>2, <2>3, <2>4, <2>5, <2>6 DEF World
<1>2. CASE Daemon
  <2>1. CASE Boot
    BY <2>1 DEF Boot, Starting, worldVars
  <2>2. CASE LoadKeys
    <3>1. pc = "start" /\ bound = {} /\ next = 1 /\ active = {}
      BY <2>2 DEF LoadKeys
    <3>2. CASE Inputs(starting) \cap unreadable # {}
      BY <2>2, <3>1, <3>2 DEF LoadKeys, StartFailed, Starting
    <3>3. CASE Inputs(starting) \cap unreadable = {} /\ starting.mappings = <<>>
      BY <2>2, <3>1, <3>3 DEF LoadKeys, StartOk
    <3>4. CASE Inputs(starting) \cap unreadable = {} /\ starting.mappings # <<>>
      <4>1. /\ pc' = "bind"
            /\ UNCHANGED <<starting, next, active, bound, pid_file>>
        BY <2>2, <3>4 DEF LoadKeys
      <4>2. Opened(starting, next - 1) = {}
        BY <3>1, OpenedNone
      <4>3. Len(starting.mappings) \in Nat
        BY DEF TypeOK, ConfigFile
      <4> QED
        BY <3>1, <4>1, <4>2, <4>3 DEF LoadKeys
    <3> QED
      BY <3>2, <3>3, <3>4
  <2>3. CASE BindNext
    <3>1. CASE CanBind
      <4>1. /\ pc' = "bind"
            /\ bound' = bound \cup ListenersAt(starting, next)
            /\ next' = next + 1
            /\ UNCHANGED <<starting, active, pid_file>>
        BY <2>3, <3>1 DEF BindNext
      <4>2. /\ bound = Opened(starting, next - 1)
            /\ next <= Len(starting.mappings)
            /\ next \in Nat \ {0}
        BY <2>3 DEF BindNext, TypeOK
      <4>3. Opened(starting, next) = bound'
        BY <4>1, <4>2, OpenedNext
      <4>4. next' - 1 = next
        BY <4>1, <4>2
      <4>5. Len(starting.mappings) \in Nat
        BY DEF TypeOK, ConfigFile
      <4> QED
        BY <2>3, <4>1, <4>2, <4>3, <4>4, <4>5 DEF BindNext
    <3>2. CASE ~CanBind
      BY <2>3, <3>2 DEF BindNext, StartFailed, Starting
    <3> QED
      BY <3>1, <3>2
  <2>4. CASE SpawnTasks
    <3>1. /\ bound = Opened(starting, next - 1)
          /\ next - 1 = Len(starting.mappings)
      <4>1. next \in Nat /\ Len(starting.mappings) \in Nat
        BY DEF TypeOK, ConfigFile
      <4> QED
        BY <2>4, <4>1 DEF SpawnTasks
    <3>2. bound = Listeners(starting)
      BY <3>1 DEF Listeners
    <3> QED
      BY <2>4, <3>2 DEF SpawnTasks, StartOk, Listeners
  <2>5. CASE ReloadInvalid
    BY <2>5 DEF ReloadInvalid
  <2>6. CASE ReloadChanged
    BY <2>6 DEF ReloadChanged
  <2>7. ASSUME NEW listener \in previous_active, StopNext(listener) PROVE Accounting'
    BY <2>7 DEF StopNext
  <2>8. CASE StartNew
    BY <2>8 DEF StartNew, Starting
  <2>9. CASE SelectShutdown
    BY <2>9 DEF SelectShutdown
  <2>10. CASE RemovePidFile
    BY <2>10 DEF RemovePidFile
  <2> QED
    BY <1>2, <2>1, <2>2, <2>3, <2>4, <2>5, <2>6, <2>7, <2>8, <2>9, <2>10 DEF Daemon
<1>3. CASE UNCHANGED vars
  BY <1>3 DEF vars
<1> QED
  BY <1>1, <1>2, <1>3 DEF Next

\* In every reachable state the open sockets are those the code accounts for.
THEOREM SocketsAccountedFor == Spec => []OwnsOnlyItsSet
<1>1. Accounting => OwnsOnlyItsSet
  BY DEF Accounting
<1> QED
  BY <1>1, TypeCorrect, InitAccounting, NextAccounting, PTL DEF Spec

\* A loop that waits serves one whole configuration or nothing.
THEOREM NeverAMixture == Spec => []WholeSet
<1>1. Accounting => WholeSet
  BY DEF Accounting
<1> QED
  BY <1>1, TypeCorrect, InitAccounting, NextAccounting, PTL DEF Spec

\* No pid file means no open listener.
THEOREM PidFileGoesLast == Spec => []PidFileOutlivesListeners
<1>1. Accounting => PidFileOutlivesListeners
  BY DEF Accounting, OwnsOnlyItsSet, PidFileOutlivesListeners
<1> QED
  BY <1>1, TypeCorrect, InitAccounting, NextAccounting, PTL DEF Spec

-----------------------------------------------------------------------------
(* A failed reload costs no listener.                                      *)

\* A reload is under way, or the loop waits: current_cfg was started before.
InService ==
    \/ pc \in {"select", "stop", "drain"}
    \/ pc \in {"start", "bind"} /\ phase # "boot"

\* The first n mappings of cfg have ports of their own.
DistinctPorts(cfg, n) ==
    \A i, j \in 1 .. n : cfg.mappings[i].port = cfg.mappings[j].port => i = j

\* What was started once can be started again, and the fallback starts just
\* that: its own sockets were closed before, and by CurrentUndisturbed nobody
\* else took them.
Fallback ==
    /\ pc = "boot" => phase = "boot"
    /\ InService => Startable(current_cfg)
    /\ pc = "select" => active = Listeners(current_cfg)
    /\ pc \in {"start", "bind"} /\ phase = "restore" => starting = current_cfg
    /\ pc = "bind" =>
          /\ starting.mappings # <<>>
          /\ next > 1 => starting.listen_host # "unparsable"
          /\ DistinctPorts(starting, next - 1)

\* A host that can be parsed opens at least one socket per mapping.
LEMMA FamiliesNonempty ==
    ASSUME NEW host \in ListenHost, host # "unparsable"
    PROVE  Families(host) # {}
  BY DEF Families, Family, ListenHost

\* The sockets of the i-th mapping.
LEMMA SocketsOfMapping ==
    ASSUME NEW cfg, NEW i
    PROVE  SocketsOf(ListenersAt(cfg, i)) =
              {<<f, cfg.mappings[i].port>> : f \in Families(cfg.listen_host)}
<1> DEFINE At(f) == [socket |-> <<f, cfg.mappings[i].port>>,
                     container |-> cfg.mappings[i].container,
                     keyed |-> cfg.authorized_keys]
<1>1. ListenersAt(cfg, i) = {At(f) : f \in Families(cfg.listen_host)}
  BY DEF ListenersAt
<1>2. \A f : At(f).socket = <<f, cfg.mappings[i].port>>
  OBVIOUS
<1> HIDE DEF At
<1>3. SocketsOf(ListenersAt(cfg, i)) = {At(f).socket : f \in Families(cfg.listen_host)}
  BY <1>1 DEF SocketsOf
<1> QED
  BY <1>2, <1>3

\* The sockets of a mapping are among those of every longer prefix.
LEMMA SocketsOfOpened ==
    ASSUME NEW cfg, NEW n \in Nat, NEW i \in 1 .. n
    PROVE  SocketsOf(ListenersAt(cfg, i)) \subseteq SocketsOf(Opened(cfg, n))
<1>1. ListenersAt(cfg, i) \subseteq Opened(cfg, n)
  BY DEF Opened
<1> QED
  BY <1>1 DEF SocketsOf

\* Mappings with ports of their own do not stand in each other's way.
LEMMA DisjointSockets ==
    ASSUME NEW cfg \in ConfigFile, NEW n \in 1 .. Len(cfg.mappings),
           DistinctPorts(cfg, Len(cfg.mappings))
    PROVE  SocketsOf(ListenersAt(cfg, n)) \cap SocketsOf(Opened(cfg, n - 1)) = {}
<1> SUFFICES ASSUME NEW s \in SocketsOf(ListenersAt(cfg, n)),
                    s \in SocketsOf(Opened(cfg, n - 1))
             PROVE  FALSE
  OBVIOUS
<1>0. Len(cfg.mappings) \in Nat
  BY DEF ConfigFile
<1>1. PICK i \in 1 .. (n - 1) : s \in SocketsOf(ListenersAt(cfg, i))
  BY DEF SocketsOf, Opened
<1>2. s[2] = cfg.mappings[n].port /\ s[2] = cfg.mappings[i].port
  BY <1>1, SocketsOfMapping
<1>3. i \in 1 .. Len(cfg.mappings) /\ i # n
  BY <1>0, <1>1
<1> QED
  BY <1>2, <1>3 DEF DistinctPorts

\* A mapping that could be bound after the first n - 1 has a port of its own.
LEMMA BoundPortsDistinct ==
    ASSUME NEW cfg \in ConfigFile, NEW n \in 1 .. Len(cfg.mappings),
           cfg.listen_host # "unparsable",
           DistinctPorts(cfg, n - 1),
           SocketsOf(ListenersAt(cfg, n)) \cap SocketsOf(Opened(cfg, n - 1)) = {}
    PROVE  DistinctPorts(cfg, n)
<1>0. Len(cfg.mappings) \in Nat
  BY DEF ConfigFile
<1>1. PICK f \in Families(cfg.listen_host) : TRUE
  BY FamiliesNonempty DEF ConfigFile
<1>2. ASSUME NEW i \in 1 .. (n - 1) PROVE cfg.mappings[i].port # cfg.mappings[n].port
  <2> SUFFICES ASSUME cfg.mappings[i].port = cfg.mappings[n].port PROVE FALSE
    OBVIOUS
  <2>1. <<f, cfg.mappings[n].port>> \in SocketsOf(ListenersAt(cfg, n))
    BY <1>1, SocketsOfMapping
  <2>2. <<f, cfg.mappings[i].port>> \in SocketsOf(ListenersAt(cfg, i))
    BY <1>1, SocketsOfMapping
  <2>3. SocketsOf(ListenersAt(cfg, i)) \subseteq SocketsOf(Opened(cfg, n - 1))
    BY <1>0, SocketsOfOpened
  <2> QED
    BY <2>1, <2>2, <2>3
<1>3. ASSUME NEW i \in 1 .. n, NEW j \in 1 .. n,
             cfg.mappings[i].port = cfg.mappings[j].port
      PROVE  i = j
  <2>1. CASE i = n /\ j # n
    BY <1>0, <1>2, <1>3, <2>1
  <2>2. CASE i # n /\ j = n
    BY <1>0, <1>2, <1>3, <2>2
  <2>3. CASE i # n /\ j # n
    BY <1>0, <1>3, <2>3 DEF DistinctPorts
  <2> QED
    BY <2>1, <2>2, <2>3
<1> QED
  BY <1>3 DEF DistinctPorts

\* A configuration that can be started is not stopped by its own mappings: only
\* a socket of another process keeps its next mapping from being bound.
LEMMA StartableBinds ==
    ASSUME TypeOK,
           next \in 1 .. Len(starting.mappings),
           bound = Opened(starting, next - 1),
           starting.mappings # <<>>,
           Startable(starting),
           SocketsOf(Listeners(starting)) \cap foreign = {}
    PROVE  CanBind
<1>1. starting \in ConfigFile /\ Len(starting.mappings) \in Nat
  BY DEF TypeOK, ConfigFile
<1>2. /\ starting.listen_host # "unparsable"
      /\ DistinctPorts(starting, Len(starting.mappings))
  BY DEF Startable, DistinctPorts
<1>3. SocketsOf(ListenersAt(starting, next)) \cap SocketsOf(bound) = {}
  BY <1>1, <1>2, DisjointSockets
<1>4. SocketsOf(ListenersAt(starting, next)) \subseteq SocketsOf(Listeners(starting))
  BY <1>1, SocketsOfOpened DEF Listeners
<1> QED
  BY <1>2, <1>3, <1>4 DEF CanBind

\* No configuration is in service at first.
LEMMA InitFallback == Init => Fallback
  BY DEF Init, Fallback, InService

\* Every step keeps a fallback, as long as nobody disturbs the current set.
LEMMA NextFallback ==
    TypeOK /\ Accounting /\ Fallback /\ CurrentUndisturbed /\ [Next]_vars => Fallback'
<1> SUFFICES ASSUME TypeOK, Accounting, Fallback, CurrentUndisturbed, [Next]_vars
             PROVE  Fallback'
  OBVIOUS
<1> USE DEF Fallback, InService
<1>0. /\ starting \in ConfigFile
      /\ Len(starting.mappings) \in Nat
      /\ next \in Nat \ {0}
  BY DEF TypeOK, ConfigFile
<1>1. CASE World
  <2>1. ASSUME NEW contents \in Raw \cup {Missing}, EditFile(contents) PROVE Fallback'
    BY <2>1 DEF EditFile
  <2>2. ASSUME NEW socket \in Squattable, Squat(socket) PROVE Fallback'
    BY <2>2 DEF Squat
  <2>3. ASSUME NEW socket \in foreign, Release(socket) PROVE Fallback'
    BY <2>3 DEF Release
  <2>4. ASSUME NEW input \in {"host_key", "authorized_keys"}, ToggleReadable(input)
        PROVE  Fallback'
    BY <2>4 DEF ToggleReadable
  <2>5. CASE RequestShutdown
    BY <2>5 DEF RequestShutdown
  <2>6. ASSUME NEW listener \in bound, ListenerFails(listener) PROVE Fallback'
    BY <2>6 DEF ListenerFails
  <2> QED
    BY <1>1, <2>1, <2>2, <2>3, <2>4, <2>5, <2>6 DEF World
<1>2. CASE Daemon
  <2>1. CASE Boot
    BY <2>1 DEF Boot, Starting
  <2>2. CASE LoadKeys
    <3>1. pc = "start" /\ next = 1
      BY <2>2 DEF LoadKeys, Accounting
    <3>2. CASE Inputs(starting) \cap unreadable # {}
      <4>1. phase # "restore"
        BY <3>1, <3>2 DEF CurrentUndisturbed
      <4> QED
        BY <2>2, <3>1, <3>2, <4>1 DEF LoadKeys, StartFailed, Starting
    <3>3. CASE Inputs(starting) \cap unreadable = {} /\ starting.mappings = <<>>
      <4>1. Listeners(starting) = {}
        BY <3>3, OpenedNone DEF Listeners
      <4>2. Startable(starting)
        BY <3>3 DEF Startable
      <4> QED
        BY <2>2, <3>3, <4>1, <4>2 DEF LoadKeys, StartOk
    <3>4. CASE Inputs(starting) \cap unreadable = {} /\ starting.mappings # <<>>
      <4>1. DistinctPorts(starting, next - 1)
        BY <3>1 DEF DistinctPorts
      <4> QED
        BY <2>2, <3>1, <3>4, <4>1 DEF LoadKeys, DistinctPorts
    <3> QED
      BY <3>2, <3>3, <3>4
  <2>3. CASE BindNext
    <3>1. /\ pc = "bind"
          /\ next \in 1 .. Len(starting.mappings)
          /\ bound = Opened(starting, next - 1)
      BY <1>0, <2>3 DEF BindNext, Accounting, OwnsOnlyItsSet
    <3>2. CASE CanBind
      <4>1. /\ pc' = "bind"
            /\ next' = next + 1
            /\ UNCHANGED <<starting, phase, current_cfg>>
        BY <2>3, <3>2 DEF BindNext
      <4>2. starting.listen_host # "unparsable"
        BY <3>2 DEF CanBind
      <4>3. SocketsOf(ListenersAt(starting, next)) \cap SocketsOf(Opened(starting, next - 1)) = {}
        BY <3>1, <3>2 DEF CanBind
      <4>4. DistinctPorts(starting, next)
        BY <1>0, <3>1, <4>2, <4>3, BoundPortsDistinct
      <4>5. next' - 1 = next
        BY <1>0, <4>1
      <4>6. DistinctPorts(starting, next - 1)'
        BY <4>1, <4>4, <4>5 DEF DistinctPorts
      <4> QED
        BY <3>1, <4>1, <4>2, <4>6
    <3>3. CASE ~CanBind
      <4>1. phase # "restore"
        <5> SUFFICES ASSUME phase = "restore" PROVE CanBind
          BY <3>3
        <5>1. starting = current_cfg /\ Startable(starting) /\ starting.mappings # <<>>
          BY <3>1
        <5>2. SocketsOf(Listeners(starting)) \cap foreign = {}
          BY <5>1 DEF CurrentUndisturbed
        <5> QED
          BY <3>1, <5>1, <5>2, StartableBinds
      <4> QED
        BY <2>3, <3>1, <3>3, <4>1 DEF BindNext, StartFailed, Starting
    <3> QED
      BY <3>2, <3>3
  <2>4. CASE SpawnTasks
    <3>1. /\ pc = "bind"
          /\ bound = Opened(starting, next - 1)
          /\ next - 1 = Len(starting.mappings)
      BY <1>0, <2>4 DEF SpawnTasks, Accounting, OwnsOnlyItsSet
    <3>2. bound = Listeners(starting)
      BY <3>1 DEF Listeners
    <3>3. Len(starting.mappings) # 0
      BY <3>1 DEF TypeOK, ConfigFile
    <3>4. Startable(starting)
      BY <1>0, <3>1, <3>3 DEF Startable, DistinctPorts
    <3>5. /\ pc' = "select"
          /\ active' = Listeners(starting)
          /\ current_cfg' = starting
      BY <2>4, <3>2 DEF SpawnTasks, StartOk
    <3> QED
      BY <3>4, <3>5
  <2>5. CASE ReloadInvalid
    BY <2>5 DEF ReloadInvalid
  <2>6. CASE ReloadChanged
    BY <2>6 DEF ReloadChanged
  <2>7. ASSUME NEW listener \in previous_active, StopNext(listener) PROVE Fallback'
    BY <2>7 DEF StopNext
  <2>8. CASE StartNew
    BY <2>8 DEF StartNew, Starting
  <2>9. CASE SelectShutdown
    BY <2>9 DEF SelectShutdown
  <2>10. CASE RemovePidFile
    BY <2>10 DEF RemovePidFile
  <2> QED
    BY <1>2, <2>1, <2>2, <2>3, <2>4, <2>5, <2>6, <2>7, <2>8, <2>9, <2>10 DEF Daemon
<1>3. CASE UNCHANGED vars
  BY <1>3 DEF vars, DistinctPorts
<1> QED
  BY <1>1, <1>2, <1>3 DEF Next

\* As long as nobody takes what the configuration in service needs, a loop
\* that waits has all its listeners, whatever was written into the file.
THEOREM FallbackWorks == Spec => RollbackKeepsService
<1>1. Fallback => (pc = "select" => active = Listeners(current_cfg))
  BY DEF Fallback
<1> QED
  BY <1>1, TypeCorrect, InitAccounting, NextAccounting, InitFallback, NextFallback, PTL
  DEF Spec, RollbackKeepsService

-----------------------------------------------------------------------------
(* What the daemon read last is what it serves.                            *)

\* No other process holds a socket, and every key file can be read.
Undisturbed == foreign = {} /\ unreadable = {}

\* Contents that hold a configuration which can be started.
CanServe(contents) ==
    /\ contents # Missing
    /\ Parse[contents] # Invalid
    /\ Startable(Parse[contents])

\* Whenever the loop waits, the contents it compares the file with are in
\* service if they can be: with nothing in its way, a start gives up only what
\* could not be started, so skipping a file with those bytes misses nothing.
\* (reload_if_config_changed sets current_raw on every path)
ServesWhatItRead ==
    []Undisturbed =>
        [](pc = "select" /\ CanServe(current_raw) => active = Listeners(Parse[current_raw]))

\* The start under way is that of the contents read last, until it has shown
\* that they cannot be started.
LastRead ==
    /\ pc \in {"start", "bind"} /\ phase = "boot" =>
          current_raw \in Raw /\ starting = Parse[current_raw]
    /\ pc = "stop" => raw \in Raw /\ starting = Parse[raw]
    /\ pc \in {"start", "bind"} /\ phase = "new" => raw \in Raw /\ starting = Parse[raw]
    /\ pc \in {"start", "bind"} /\ phase = "restore" => ~CanServe(raw)
    /\ pc = "select" /\ CanServe(current_raw) => active = Listeners(Parse[current_raw])

\* With nobody in the way, the configuration in service is not disturbed.
LEMMA NobodyInTheWay == Undisturbed => CurrentUndisturbed
  BY DEF Undisturbed, CurrentUndisturbed

\* Nothing was read at first.
LEMMA InitLastRead == Init => LastRead
  BY DEF Init, LastRead

\* A start that succeeds puts into service what was read, or found before that
\* it cannot be.
LEMMA StartOkLastRead ==
    ASSUME LastRead, TypeOK, pc \in {"start", "bind"},
           StartOk(Listeners(starting)), UNCHANGED raw
    PROVE  LastRead'
<1>1. /\ pc' = "select"
      /\ active' = Listeners(starting)
      /\ current_raw' = IF phase = "boot" THEN current_raw ELSE raw
  BY DEF StartOk
<1>2. phase \in {"boot", "new", "restore"}
  BY DEF TypeOK
<1>3. CASE phase = "restore"
  BY <1>1, <1>3 DEF LastRead, CanServe
<1>4. CASE phase # "restore"
  BY <1>1, <1>2, <1>4 DEF LastRead
<1> QED
  BY <1>3, <1>4

\* A start that fails was of contents that cannot be started.
LEMMA StartFailedLastRead ==
    ASSUME LastRead, TypeOK, pc \in {"start", "bind"},
           phase # "restore", ~Startable(starting),
           StartFailed, UNCHANGED raw
    PROVE  LastRead'
<1>1. CASE phase = "boot"
  BY <1>1 DEF StartFailed, LastRead
<1>2. CASE phase = "new"
  <2>1. ~CanServe(raw)
    BY <1>2 DEF LastRead, CanServe
  <2>2. pc' = "start" /\ phase' = "restore"
    BY <1>2 DEF StartFailed, Starting
  <2> QED
    BY <2>1, <2>2 DEF LastRead, CanServe
<1> QED
  BY <1>1, <1>2 DEF TypeOK

\* Every step keeps what was read and what is started together.
LEMMA NextLastRead ==
    /\ TypeOK /\ Accounting /\ Fallback /\ Undisturbed
    /\ LastRead
    /\ [Next]_vars
    => LastRead'
<1> SUFFICES ASSUME TypeOK, Accounting, Fallback, Undisturbed, LastRead, [Next]_vars
             PROVE  LastRead'
  OBVIOUS
<1>0. /\ Len(starting.mappings) \in Nat
      /\ next \in Nat \ {0}
  BY DEF TypeOK, ConfigFile
<1>1. CASE World
  <2>1. UNCHANGED <<pc, phase, current_raw, raw, starting, active>>
    BY <1>1 DEF World, EditFile, Squat, Release, ToggleReadable, RequestShutdown,
                ListenerFails
  <2> QED
    BY <2>1 DEF LastRead, CanServe
<1>2. CASE Daemon
  <2>1. CASE Boot
    BY <2>1 DEF Boot, Starting, LastRead, Fallback, TypeOK
  <2>2. CASE LoadKeys
    <3>1. pc = "start" /\ Inputs(starting) \cap unreadable = {}
      BY <2>2 DEF LoadKeys, Undisturbed
    <3>2. CASE starting.mappings = <<>>
      <4>1. Listeners(starting) = {}
        BY <3>2, OpenedNone DEF Listeners
      <4> QED
        BY <2>2, <3>1, <3>2, <4>1, StartOkLastRead DEF LoadKeys
    <3>3. CASE starting.mappings # <<>>
      BY <2>2, <3>1, <3>3 DEF LoadKeys, LastRead, CanServe
    <3> QED
      BY <3>2, <3>3
  <2>3. CASE BindNext
    <3>1. /\ pc = "bind"
          /\ next \in 1 .. Len(starting.mappings)
          /\ bound = Opened(starting, next - 1)
          /\ starting.mappings # <<>>
      BY <1>0, <2>3 DEF BindNext, Accounting, OwnsOnlyItsSet, Fallback
    <3>2. CASE CanBind
      BY <2>3, <3>2 DEF BindNext, LastRead, CanServe
    <3>3. CASE ~CanBind
      <4>1. ~Startable(starting)
        BY <3>1, <3>3, StartableBinds DEF Undisturbed
      <4>2. phase # "restore"
        BY <3>1, <4>1 DEF Fallback, InService
      <4> QED
        BY <2>3, <3>1, <3>3, <4>1, <4>2, StartFailedLastRead DEF BindNext
    <3> QED
      BY <3>2, <3>3
  <2>4. CASE SpawnTasks
    <3>1. bound = Opened(starting, next - 1) /\ next - 1 = Len(starting.mappings)
      BY <1>0, <2>4 DEF SpawnTasks, Accounting, OwnsOnlyItsSet
    <3>2. bound = Listeners(starting)
      BY <3>1 DEF Listeners
    <3> QED
      BY <2>4, <3>2, StartOkLastRead DEF SpawnTasks
  <2>5. CASE ReloadInvalid
    BY <2>5 DEF ReloadInvalid, LastRead, CanServe
  <2>6. CASE ReloadChanged
    BY <2>6 DEF ReloadChanged, LastRead, TypeOK
  <2>7. ASSUME NEW listener \in previous_active, StopNext(listener) PROVE LastRead'
    BY <2>7 DEF StopNext, LastRead
  <2>8. CASE StartNew
    BY <2>8 DEF StartNew, Starting, LastRead
  <2>9. CASE SelectShutdown
    BY <2>9 DEF SelectShutdown, LastRead
  <2>10. CASE RemovePidFile
    BY <2>10 DEF RemovePidFile, LastRead
  <2> QED
    BY <1>2, <2>1, <2>2, <2>3, <2>4, <2>5, <2>6, <2>7, <2>8, <2>9, <2>10 DEF Daemon
<1>3. CASE UNCHANGED vars
  BY <1>3 DEF vars, LastRead, CanServe
<1> QED
  BY <1>1, <1>2, <1>3 DEF Next

\* With nothing in its way, a daemon that waits serves what it read last.
THEOREM NoChangeMissed == Spec => ServesWhatItRead
<1>1. LastRead =>
         (pc = "select" /\ CanServe(current_raw) => active = Listeners(Parse[current_raw]))
  BY DEF LastRead
<1>2. TypeOK /\ Accounting /\ Fallback /\ Undisturbed /\ [Next]_vars => Fallback'
  BY NobodyInTheWay, NextFallback
<1> QED
  BY <1>1, <1>2, TypeCorrect, InitAccounting, NextAccounting, InitFallback, InitLastRead,
     NextLastRead, PTL
  DEF Spec, ServesWhatItRead

-----------------------------------------------------------------------------
(* The daemon comes to rest.                                               *)

\* The contents the daemon will have looked at last when it waits again.
WillHaveRead ==
    IF pc = "select" \/ (pc \in {"start", "bind"} /\ phase = "boot") THEN current_raw
    ELSE IF pc = "boot" THEN file ELSE raw

\* Reloads that the file as it is still calls for.
ReloadsLeft == IF pc \in {"drain", "exited"} \/ file \in {Missing, WillHaveRead} THEN 0 ELSE 1

\* Stages before the loop or the end: a start, and a fallback at most.
StagesLeft ==
    [boot |-> 8, stop |-> 7, start |-> IF phase = "restore" THEN 4 ELSE 6,
     bind |-> IF phase = "restore" THEN 3 ELSE 5, select |-> 2, drain |-> 1, exited |-> 0][pc]

\* Rounds of the loop of a stage: mappings to bind, or listeners to stop.
RoundsLeft ==
    IF pc = "bind" THEN Len(starting.mappings) + 1 - next
    ELSE IF pc \in {"stop", "drain"} THEN Cardinality(previous_active) ELSE 0

Bounded == ReloadsLeft \in {0, 1} /\ StagesLeft \in 0 .. 8 /\ RoundsLeft \in Nat

Nearer ==
    \/ ReloadsLeft' < ReloadsLeft
    \/ ReloadsLeft' = ReloadsLeft /\ StagesLeft' < StagesLeft
    \/ ReloadsLeft' = ReloadsLeft /\ StagesLeft' = StagesLeft /\ RoundsLeft' < RoundsLeft

\* Between two edits of the file there is one reload, which tries its contents
\* once and falls back once: every step of the daemon is nearer to its rest,
\* and only an edit can take it further away.
\* (reload_if_config_changed sets current_raw on every path)
ComesToRest ==
    [][IF Daemon THEN Nearer
       ELSE /\ UNCHANGED <<StagesLeft, RoundsLeft>>
            /\ UNCHANGED file => UNCHANGED ReloadsLeft]_vars

\* A mapping has at most one listener per family.
LEMMA ListenersAtFinite ==
    ASSUME NEW cfg, NEW i
    PROVE  IsFiniteSet(ListenersAt(cfg, i))
<1> DEFINE L(f) == [socket |-> <<f, cfg.mappings[i].port>>,
                    container |-> cfg.mappings[i].container,
                    keyed |-> cfg.authorized_keys]
<1>1. IsFiniteSet({L("v4")} \cup {L("v6")})
  BY FS_Singleton, FS_Union
<1>2. ListenersAt(cfg, i) \in SUBSET ({L("v4")} \cup {L("v6")})
  BY DEF ListenersAt, Families, Family
<1> QED
  BY <1>1, <1>2, FS_Subset

\* The daemon has finitely many sockets and handles, and is booted once.
RestInv ==
    /\ IsFiniteSet(bound) /\ IsFiniteSet(active) /\ IsFiniteSet(previous_active)
    /\ pc = "boot" => phase = "boot"

LEMMA InitRestInv == Init => RestInv
  BY FS_EmptySet DEF Init, RestInv

LEMMA NextRestInv == RestInv /\ [Next]_vars => RestInv'
<1> DEFINE AllFinite == IsFiniteSet(bound) /\ IsFiniteSet(active) /\ IsFiniteSet(previous_active)
<1> SUFFICES ASSUME RestInv, [Next]_vars PROVE AllFinite' /\ (pc' = "boot" => phase' = "boot")
  BY DEF RestInv
<1>0. AllFinite
  BY DEF RestInv
<1>1. CASE World
  <2>1. UNCHANGED <<pc, phase, active, previous_active>>
    BY <1>1 DEF World, EditFile, Squat, Release, ToggleReadable, RequestShutdown, ListenerFails
  <2>2. bound' = bound \/ \E listener \in bound : bound' = bound \ {listener}
    BY <1>1 DEF World, EditFile, Squat, Release, ToggleReadable, RequestShutdown, ListenerFails
  <2> QED
    BY <1>0, <2>1, <2>2, FS_RemoveElement DEF RestInv
<1>2. CASE Daemon
  <2>1. CASE BindNext
    <3>1. IsFiniteSet(bound \cup ListenersAt(starting, next))
      BY ListenersAtFinite, FS_Union DEF RestInv
    <3>2. bound' \in {{}, bound \cup ListenersAt(starting, next)}
      BY <2>1 DEF BindNext, StartFailed
    <3>3. pc' # "boot" /\ UNCHANGED <<active, previous_active>>
      BY <2>1 DEF BindNext, StartFailed, Starting
    <3> QED
      BY <1>0, <3>1, <3>2, <3>3, FS_EmptySet
  <2>2. ASSUME NEW listener \in previous_active, StopNext(listener)
        PROVE  AllFinite' /\ pc' # "boot"
    <3>1. /\ previous_active' = previous_active \ {listener}
          /\ bound' = bound \ {listener}
          /\ active' = active /\ pc' # "boot"
      BY <2>2 DEF StopNext
    <3> QED
      BY <1>0, <3>1, FS_RemoveElement
  <2>3. CASE LoadKeys \/ SpawnTasks
    <3>1. /\ pc' # "boot" /\ UNCHANGED previous_active
          /\ bound' \in {{}, bound} /\ active' \in {{}, bound, active}
      BY <2>3 DEF LoadKeys, SpawnTasks, StartOk, StartFailed, Starting
    <3> QED
      BY <1>0, <3>1, FS_EmptySet
  <2>4. CASE Boot \/ ReloadInvalid \/ ReloadChanged \/ StartNew \/ SelectShutdown \/ RemovePidFile
    <3>1. /\ pc' # "boot" /\ UNCHANGED bound
          /\ active' \in {{}, active} /\ previous_active' \in {active, previous_active}
      BY <2>4 DEF Boot, ReloadInvalid, ReloadChanged, StartNew, SelectShutdown, RemovePidFile,
                  Starting
    <3> QED
      BY <1>0, <3>1, FS_EmptySet
  <2> QED
    BY <1>2, <2>1, <2>2, <2>3, <2>4 DEF Daemon
<1>3. CASE UNCHANGED vars
  BY <1>0, <1>3 DEF vars, RestInv
<1> QED
  BY <1>1, <1>2, <1>3 DEF Next

\* What is left is a number.
LEMMA IsBounded == TypeOK /\ Accounting /\ RestInv => Bounded
<1> SUFFICES ASSUME TypeOK, Accounting, RestInv PROVE Bounded
  OBVIOUS
<1>1. pc = "bind" => Len(starting.mappings) + 1 - next \in Nat
  BY DEF TypeOK, Accounting, ConfigFile
<1>2. Cardinality(previous_active) \in Nat
  BY FS_CardinalityType DEF RestInv
<1>3. RoundsLeft \in Nat
  BY <1>1, <1>2 DEF RoundsLeft
<1>4. StagesLeft \in 0 .. 8
  BY DEF TypeOK, PC, StagesLeft
<1> QED
  BY <1>3, <1>4 DEF Bounded, ReloadsLeft

\* The end of a start is a later stage, and the file is none the newer for it.
LEMMA StartEnds ==
    ASSUME TypeOK, pc \in {"start", "bind"}, UNCHANGED <<file, raw>>,
           StartFailed \/ \E listeners : StartOk(listeners)
    PROVE  ReloadsLeft' \in {0, ReloadsLeft} /\ StagesLeft' < StagesLeft
<1>1. phase \in {"boot", "new", "restore"}
  BY DEF TypeOK
<1>2. CASE \E listeners : StartOk(listeners)
  BY <1>1, <1>2 DEF StartOk, ReloadsLeft, StagesLeft, WillHaveRead
<1>3. CASE StartFailed
  BY <1>1, <1>3 DEF StartFailed, Starting, ReloadsLeft, StagesLeft, WillHaveRead
<1> QED
  BY <1>2, <1>3

\* A later stage, with no new reload, is nearer.
LEMMA LaterStage ==
    ASSUME Bounded, Bounded', ReloadsLeft' \in {0, ReloadsLeft}, StagesLeft' < StagesLeft
    PROVE  Nearer
  BY DEF Nearer, Bounded

\* Every step of the daemon is nearer to its rest.
LEMMA DaemonNearer ==
    ASSUME TypeOK, Accounting, RestInv, Bounded, Bounded', Daemon
    PROVE  Nearer
<1>1. CASE Boot
  <2>1. ReloadsLeft' \in {0, ReloadsLeft} /\ StagesLeft' < StagesLeft
    BY <1>1 DEF Boot, Starting, worldVars, ReloadsLeft, StagesLeft, WillHaveRead, RestInv
  <2> QED
    BY <2>1, LaterStage
<1>2. CASE LoadKeys
  <2>1. CASE StartFailed \/ \E listeners : StartOk(listeners)
    <3>1. pc = "start" /\ UNCHANGED <<file, raw>>
      BY <1>2 DEF LoadKeys, worldVars
    <3> QED
      BY <2>1, <3>1, StartEnds, LaterStage
  <2>2. CASE pc' = "bind" /\ UNCHANGED <<phase, current_raw>>
    <3>1. ReloadsLeft' = ReloadsLeft /\ StagesLeft' < StagesLeft
      BY <1>2, <2>2 DEF LoadKeys, worldVars, ReloadsLeft, StagesLeft, WillHaveRead
    <3> QED
      BY <3>1, LaterStage
  <2> QED
    BY <1>2, <2>1, <2>2 DEF LoadKeys
<1>3. CASE BindNext
  <2>1. CASE CanBind
    <3>1. /\ pc = "bind" /\ pc' = "bind" /\ next' = next + 1
          /\ UNCHANGED <<file, phase, current_raw, raw, starting>>
      BY <1>3, <2>1 DEF BindNext, worldVars
    <3>2. ReloadsLeft' = ReloadsLeft /\ StagesLeft' = StagesLeft
      BY <3>1 DEF ReloadsLeft, StagesLeft, WillHaveRead
    <3>3. next \in Nat /\ Len(starting.mappings) \in Nat
      BY DEF TypeOK, ConfigFile
    <3>4. /\ RoundsLeft = Len(starting.mappings) + 1 - next
          /\ RoundsLeft' = Len(starting.mappings) + 1 - (next + 1)
      BY <3>1 DEF RoundsLeft
    <3>5. \A m, n \in Nat : m + 1 - (n + 1) < m + 1 - n
      OBVIOUS
    <3>6. Len(starting.mappings) + 1 - (next + 1) < Len(starting.mappings) + 1 - next
      BY <3>3, <3>5
    <3> QED
      BY <3>2, <3>4, <3>6 DEF Nearer
  <2>2. CASE ~CanBind
    <3>1. pc = "bind" /\ UNCHANGED <<file, raw>> /\ StartFailed
      BY <1>3, <2>2 DEF BindNext, worldVars
    <3> QED
      BY <3>1, StartEnds, LaterStage
  <2> QED
    BY <2>1, <2>2
<1>4. CASE SpawnTasks
  <2>1. pc = "bind" /\ UNCHANGED <<file, raw>> /\ StartOk(bound)
    BY <1>4 DEF SpawnTasks, worldVars
  <2> QED
    BY <2>1, StartEnds, LaterStage
<1>5. CASE ReloadInvalid \/ ReloadChanged
  <2>1. ReloadsLeft = 1 /\ ReloadsLeft' = 0
    BY <1>5 DEF ReloadInvalid, ReloadChanged, worldVars, ReloadsLeft, WillHaveRead
  <2> QED
    BY <2>1 DEF Nearer
<1>6. ASSUME NEW listener \in previous_active, StopNext(listener) PROVE Nearer
  <2>1. /\ pc \in {"stop", "drain"}
        /\ previous_active' = previous_active \ {listener}
        /\ UNCHANGED <<file, pc, phase, current_raw, raw>>
    BY <1>6 DEF StopNext, worldVars
  <2>2. ReloadsLeft' = ReloadsLeft /\ StagesLeft' = StagesLeft
    BY <2>1 DEF ReloadsLeft, StagesLeft, WillHaveRead
  <2>3. /\ Cardinality(previous_active) \in Nat
        /\ Cardinality(previous_active') = Cardinality(previous_active) - 1
    BY <2>1, FS_RemoveElement, FS_CardinalityType DEF RestInv
  <2>4. RoundsLeft = Cardinality(previous_active) /\ RoundsLeft' = Cardinality(previous_active')
    BY <2>1 DEF RoundsLeft
  <2>5. RoundsLeft' < RoundsLeft
    BY <2>3, <2>4
  <2> QED
    BY <2>2, <2>5 DEF Nearer
<1>7. CASE StartNew
  <2>1. ReloadsLeft' = ReloadsLeft /\ StagesLeft' < StagesLeft
    BY <1>7 DEF StartNew, Starting, worldVars, ReloadsLeft, StagesLeft, WillHaveRead
  <2> QED
    BY <2>1, LaterStage
<1>8. CASE SelectShutdown \/ RemovePidFile
  <2>1. ReloadsLeft' = 0 /\ StagesLeft' < StagesLeft
    BY <1>8 DEF SelectShutdown, RemovePidFile, ReloadsLeft, StagesLeft
  <2> QED
    BY <2>1, LaterStage
<1> QED
  BY <1>1, <1>2, <1>3, <1>4, <1>5, <1>6, <1>7, <1>8 DEF Daemon

\* With a file that is edited no more, a daemon of any size of configuration has
\* finitely many steps left, whatever else happens around it: no file makes it
\* restart its listeners for ever, and no shutdown is stuck half way.
THEOREM EditsAloneKeepItBusy == Spec => []Bounded /\ ComesToRest
<1>1. TypeOK /\ Accounting /\ RestInv /\ Bounded /\ Bounded' /\ [Next]_vars
      => [IF Daemon THEN Nearer
          ELSE /\ UNCHANGED <<StagesLeft, RoundsLeft>>
               /\ UNCHANGED file => UNCHANGED ReloadsLeft]_vars
  <2> SUFFICES ASSUME TypeOK, Accounting, RestInv, Bounded, Bounded', Next, ~Daemon
               PROVE  /\ UNCHANGED <<StagesLeft, RoundsLeft>>
                      /\ UNCHANGED file => UNCHANGED ReloadsLeft
    BY DaemonNearer
  <2>1. UNCHANGED <<pc, phase, current_raw, raw, starting, next, previous_active>>
    BY DEF Next, World, EditFile, Squat, Release, ToggleReadable, RequestShutdown,
           ListenerFails
  <2> QED
    BY <2>1 DEF StagesLeft, RoundsLeft, ReloadsLeft, WillHaveRead
<1> QED
  BY <1>1, TypeCorrect, InitAccounting, NextAccounting, InitRestInv, NextRestInv,
     IsBounded, PTL
  DEF Spec, ComesToRest
=============================================================================
