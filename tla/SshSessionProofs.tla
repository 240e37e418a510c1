-------------------------- MODULE SshSessionProofs --------------------------
(***************************************************************************)
(* Theorems about SshSession, for every number of channels and requests,   *)
(* every setting of a port and every queue.                                *)
(*                                                                         *)
(* What the session may do with the first request depends on what the      *)
(* client could have known when it made it: the invariant says that a      *)
(* request to open a channel is the only one there is for it, and that     *)
(* every other request is for a channel that was opened.                   *)
(***************************************************************************)
EXTENDS SshSession, TLAPS

View == {"new", "opening", "refused", "closed"} \cup Told

\* TypeOK without the bound of what is counted.
Shape ==
    /\ setting \in Setting
    /\ container_up \in BOOLEAN /\ interrupted \subseteq Channel /\ connected \in BOOLEAN
    /\ user \in Key \cup {"none"}
    /\ view \in [Channel -> View]
    /\ term \in [Channel -> Terminal \cup {"none"}]
    /\ phase \in {"auth", "open", "closed"}
    /\ channels \subseteq Channel
    /\ pty \in [Channel -> Terminal \cup {"none"}]
    /\ awaiting \in {"none", "look_up", "connect", "inspect", "shell", "server"}

Tasks ==
    /\ tasks \in [Channel -> Seq(TaskType)]
    /\ trying \in [Channel -> Seq(Shell)]

Counts ==
    /\ queue \in Seq(Request)
    /\ requests \in Nat /\ answers \in Nat
    /\ requests <= MaxRequests /\ answers <= requests
    /\ phase = "open" => answers + Len(queue) = requests

\* The requests on their way.
Queued ==
    /\ \A i \in 1 .. Len(queue) :
           IF queue[i].kind \in Opening
           THEN view[queue[i].channel] = "opening"
           ELSE view[queue[i].channel] \in Told \cup {"closed"}
    /\ \A i, j \in 1 .. Len(queue) :
           queue[i].kind \in Opening /\ queue[j].channel = queue[i].channel => i = j

\* A handler that awaits docker is the one of a request that does so.
Awaits ==
    /\ awaiting # "none" => phase = "open" /\ queue # <<>>
    /\ awaiting \in {"look_up", "connect"} => Handled.kind = "direct"
    /\ awaiting = "inspect" => Handled.kind = "dial_stdio"
    /\ awaiting \in {"shell", "server"} => Handled.kind = "sftp"

\* Nothing was asked before the connection is open.
Before ==
    phase = "auth" =>
        /\ queue = <<>> /\ answers = 0 /\ requests = 0
        /\ \A c \in Channel : view[c] = "new"

\* A channel that is held was opened, and has the terminal its client was
\* granted; one that is not open yet has none.
Terminals ==
    \A c \in Channel :
        /\ c \in channels => view[c] \in {"open", "closed"} /\ pty[c] = term[c]
        /\ view[c] \in {"new", "opening"} => term[c] = "none"

IInv ==
    /\ Shape /\ Tasks /\ Counts /\ Queued /\ Awaits /\ Before
    /\ HandedOverOnce /\ ToldTheTruth
    /\ Terminals /\ LastTerminal
    /\ OnlyListedKeys

-----------------------------------------------------------------------------
(* Facts about sequences and requests.                                     *)

LEMMA TailFacts ==
    ASSUME NEW S, NEW s \in Seq(S), s # <<>>
    PROVE  /\ Tail(s) \in Seq(S) /\ Head(s) \in S
           /\ Head(s) = s[1] /\ 1 \in 1 .. Len(s)
           /\ Len(s) \in Nat /\ Len(Tail(s)) = Len(s) - 1
           /\ \A i \in 1 .. Len(Tail(s)) : i + 1 \in 1 .. Len(s) /\ Tail(s)[i] = s[i + 1]
  OBVIOUS

LEMMA AppendFacts ==
    ASSUME NEW S, NEW s \in Seq(S), NEW x \in S
    PROVE  /\ Append(s, x) \in Seq(S)
           /\ Len(s) \in Nat /\ Len(Append(s, x)) = Len(s) + 1
           /\ DOMAIN s = 1 .. Len(s) /\ DOMAIN Append(s, x) = 1 .. Len(s) + 1
           /\ \A i \in 1 .. Len(s) : Append(s, x)[i] = s[i]
           /\ Append(s, x)[Len(s) + 1] = x
           /\ Append(s, x) # <<>>
  OBVIOUS

LEMMA RequestFacts ==
    ASSUME NEW r \in Request
    PROVE  /\ r.channel \in Channel
           /\ r.kind \in Opening \cup Program \cup {"env", "other_subsystem", "pty"}
           /\ r.term \in Terminal \cup {"none"}
           /\ r.kind = "pty" => r.term \in Terminal
  BY DEF Request, Opening, Program

\* The first request, while there is one.
LEMMA HandledFacts ==
    ASSUME Counts, queue # <<>>
    PROVE  /\ Handled \in Request /\ Handled = queue[1] /\ 1 \in 1 .. Len(queue)
           /\ Handled.channel \in Channel
           /\ Handled.term \in Terminal \cup {"none"}
           /\ Handled.kind \in Opening \cup Program \cup {"env", "other_subsystem", "pty"}
<1>1. Handled \in Request /\ Handled = queue[1] /\ 1 \in 1 .. Len(queue)
  BY TailFacts DEF Counts, Handled
<1>2. QED  BY <1>1, RequestFacts

\* An answer to the first request keeps what is said of the others.
LEMMA AnswerFacts ==
    ASSUME Shape, Counts, Queued, phase = "open", queue # <<>>,
           NEW seen \in View,
           Handled.kind \in Opening \/ seen \in Told \cup {"closed"},
           Answer(seen), UNCHANGED <<phase, requests>>
    PROVE  Counts' /\ Queued' /\ view' \in [Channel -> View]
<1>1. /\ Handled \in Request /\ Handled = queue[1] /\ 1 \in 1 .. Len(queue)
      /\ Handled.channel \in Channel
  BY HandledFacts
<1>2. view' \in [Channel -> View]
  BY <1>1 DEF Answer, Shape
<1>3. /\ queue' = Tail(queue) /\ queue' \in Seq(Request)
      /\ Len(queue) \in Nat /\ Len(queue') = Len(queue) - 1 /\ Len(queue) >= 1
      /\ \A i \in 1 .. Len(queue') : i + 1 \in 1 .. Len(queue) /\ queue'[i] = queue[i + 1]
  BY TailFacts DEF Answer, Counts
<1>4. Counts'
  BY <1>3 DEF Answer, Counts
<1>5. ASSUME NEW i \in 1 .. Len(queue')
      PROVE  IF queue'[i].kind \in Opening
             THEN view'[queue'[i].channel] = "opening"
             ELSE view'[queue'[i].channel] \in Told \cup {"closed"}
  <2>1. i + 1 \in 1 .. Len(queue) /\ queue'[i] = queue[i + 1] /\ i + 1 # 1
    BY <1>3
  <2>2. queue[i + 1] \in Request /\ queue[i + 1].channel \in Channel
    BY <2>1, RequestFacts DEF Counts
  <2>3. CASE queue[i + 1].channel # Handled.channel
    BY <1>1, <2>1, <2>2, <2>3 DEF Queued, Answer, Shape
  <2>4. CASE queue[i + 1].channel = Handled.channel
    <3>1. queue[i + 1].kind \notin Opening /\ Handled.kind \notin Opening
      BY <1>1, <2>1, <2>4 DEF Queued
    <3>2. seen \in Told \cup {"closed"}
      BY <3>1
    <3>3. QED  BY <1>1, <2>1, <2>2, <2>4, <3>1, <3>2 DEF Queued, Answer, Shape
  <2>5. QED  BY <2>3, <2>4
<1>6. ASSUME NEW i \in 1 .. Len(queue'), NEW j \in 1 .. Len(queue'),
             queue'[i].kind \in Opening, queue'[j].channel = queue'[i].channel
      PROVE  i = j
  <2>1. /\ i + 1 \in 1 .. Len(queue) /\ queue'[i] = queue[i + 1]
        /\ j + 1 \in 1 .. Len(queue) /\ queue'[j] = queue[j + 1]
    BY <1>3
  <2>2. i + 1 = j + 1
    BY <1>6, <2>1 DEF Queued
  <2>3. QED  BY <2>2
<1>7. Queued'
  BY <1>5, <1>6 DEF Queued
<1>8. QED  BY <1>2, <1>4, <1>7

\* A task changes its stage.
LEMMA StageFacts ==
    ASSUME IInv, NEW c \in Channel, NEW i \in DOMAIN tasks[c],
           NEW stage \in {"resolve", "running", "both", "to_client", "to_upstream", "over"},
           Stage(c, i, stage), trying' \in [Channel -> Seq(Shell)],
           UNCHANGED <<outside, view, term, sessionVars>>
    PROVE  IInv'
<1>1. /\ tasks \in [Channel -> Seq(TaskType)] /\ tasks[c] \in Seq(TaskType)
      /\ tasks' = [tasks EXCEPT ![c] = [tasks[c] EXCEPT ![i].stage = stage]]
  BY DEF IInv, Tasks, Stage
<1>2. /\ tasks[c][i] \in TaskType
      /\ [tasks[c][i] EXCEPT !.stage = stage] \in TaskType
      /\ [tasks[c][i] EXCEPT !.stage = stage].kind = tasks[c][i].kind
      /\ [tasks[c][i] EXCEPT !.stage = stage].term = tasks[c][i].term
  <2>1. tasks[c][i] \in TaskType
    BY <1>1
  <2>2. QED  BY <2>1 DEF TaskType
<1>3. /\ tasks'[c] \in Seq(TaskType) /\ tasks'[c] # <<>> /\ tasks[c] # <<>>
      /\ Len(tasks'[c]) = Len(tasks[c]) /\ DOMAIN tasks'[c] = DOMAIN tasks[c]
      /\ \A j \in DOMAIN tasks[c] : /\ tasks'[c][j].kind = tasks[c][j].kind
                                    /\ tasks'[c][j].term = tasks[c][j].term
  <2>1. tasks'[c] = [tasks[c] EXCEPT ![i] = [tasks[c][i] EXCEPT !.stage = stage]]
    BY <1>1
  <2>2. QED  BY <1>1, <1>2, <2>1
<1>4. tasks' \in [Channel -> Seq(TaskType)]
  BY <1>1, <1>3
<1>5. \A d \in Channel : d # c => tasks'[d] = tasks[d]
  BY <1>1
<1>6. Shape' /\ Tasks' /\ Counts' /\ Queued' /\ Awaits' /\ Before' /\ Terminals' /\ OnlyListedKeys'
  BY <1>4 DEF IInv, Shape, Tasks, Counts, Queued, Awaits, Before, Terminals, OnlyListedKeys,
     Handled, outside, sessionVars
<1>7. HandedOverOnce'
  BY <1>3, <1>5 DEF IInv, HandedOverOnce, InHandler, Handled, sessionVars
<1>8. ToldTheTruth'
  BY <1>3, <1>5 DEF IInv, ToldTheTruth, InHandler, Handled, sessionVars
<1>9. LastTerminal'
  BY <1>3, <1>5 DEF IInv, LastTerminal
<1>10. QED  BY <1>6, <1>7, <1>8, <1>9 DEF IInv

\* A channel without a task is given to one.
LEMMA SpawnFacts ==
    ASSUME Tasks, NEW c \in Channel, tasks[c] = <<>>,
           NEW kind \in Program \cup {"bridge"}, NEW terminal \in Terminal \cup {"none"},
           NEW stage \in {"resolve", "running", "both"}, Spawn(c, kind, terminal, stage)
    PROVE  /\ tasks' \in [Channel -> Seq(TaskType)]
           /\ tasks'[c] # <<>> /\ Len(tasks'[c]) = 1 /\ DOMAIN tasks'[c] = {1}
           /\ tasks'[c][1].kind = kind /\ tasks'[c][1].term = terminal
           /\ tasks'[c][1].stage = stage
           /\ \A d \in Channel : d # c => tasks'[d] = tasks[d]
<1> DEFINE t == [kind |-> kind, term |-> terminal, stage |-> stage]
<1>1. t \in TaskType
  BY DEF TaskType
<1>2. /\ <<t>> \in Seq(TaskType) /\ <<t>> # <<>> /\ Len(<<t>>) = 1 /\ DOMAIN <<t>> = {1}
      /\ <<t>>[1] = t
  BY <1>1
<1>3. Append(tasks[c], t) = <<t>>
  OBVIOUS
<1>4. tasks' = [tasks EXCEPT ![c] = <<t>>]
  BY <1>3 DEF Spawn
<1>5. QED  BY <1>2, <1>4 DEF Tasks

\* The shells that are tried are shells.
LEMMA CandidatesAreShells ==
    ASSUME setting \in Setting
    PROVE  Candidates \in Seq(Shell)
<1>1. setting.shell \in Shell \cup {"none"}
  BY SettingAssumption
<1>2. CASE setting.shell = "none"
  BY <1>2, SettingAssumption DEF Candidates
<1>3. CASE setting.shell # "none"
  <2>1. <<setting.shell>> \in Seq(Shell)
    BY <1>1, <1>3
  <2>2. QED  BY <1>3, <2>1 DEF Candidates
<1>4. QED  BY <1>2, <1>3

LEMMA ProbedFacts ==
    ASSUME Tasks, NEW c \in Channel, Probed(c)
    PROVE  trying' \in [Channel -> Seq(Shell)]
<1>1. trying[c] \in Seq(Shell) /\ trying[c] # <<>>
  BY DEF Tasks, Probed
<1>2. Tail(trying[c]) \in Seq(Shell)
  BY <1>1, TailFacts
<1>3. QED  BY <1>2 DEF Tasks, Probed

\* The end of the connection.
LEMMA EndFacts ==
    ASSUME IInv, EndConnection
    PROVE  IInv'
<1> USE DEF EndConnection, outside, taskVars
<1>1. Shape' /\ Tasks' /\ Before' /\ Awaits'
  <2>1. pty' \in [Channel -> Terminal \cup {"none"}]
    OBVIOUS
  <2>2. QED  BY <2>1 DEF IInv, Shape, Tasks, Before, Awaits
<1>2. Counts' /\ Queued'
  BY DEF IInv, Counts, Queued
<1>3. HandedOverOnce' /\ ToldTheTruth'
  BY DEF IInv, HandedOverOnce, ToldTheTruth, InHandler
<1>4. Terminals' /\ LastTerminal' /\ OnlyListedKeys'
  BY DEF IInv, Terminals, LastTerminal, OnlyListedKeys
<1>5. QED  BY <1>1, <1>2, <1>3, <1>4 DEF IInv

\* What is to be shown of a channel when its request has been answered.
Settled(c) ==
    /\ Len(tasks[c]) <= 1
    /\ c \in channels =>
           tasks[c] = <<>> /\ view[c] \in {"open", "closed"} /\ pty[c] = term[c]
    /\ view[c] = "open" => c \in channels
    /\ view[c] = "running" => tasks[c] # <<>>
    /\ view[c] \in {"new", "opening", "refused", "failed"} => tasks[c] = <<>>
    /\ view[c] \in {"new", "opening"} => term[c] = "none"
    /\ \A i \in DOMAIN tasks[c] :
           tasks[c][i].kind \in {"shell", "exec"} => tasks[c][i].term = term[c]

\* A handler that returns keeps the invariant if it does for its own channel and
\* touches no other.
LEMMA AnsweredFacts ==
    ASSUME IInv, phase = "open", queue # <<>>,
           NEW seen \in View, Answer(seen),
           Handled.kind \in Opening \/ seen \in Told \cup {"closed"},
           awaiting' = "none", UNCHANGED <<outside, phase>>,
           NEW c \in Channel, c = Handled.channel,
           channels' \subseteq Channel, pty' \in [Channel -> Terminal \cup {"none"}],
           term' \in [Channel -> Terminal \cup {"none"}], Tasks',
           \A d \in Channel : d # c =>
               /\ d \in channels' <=> d \in channels
               /\ pty'[d] = pty[d] /\ term'[d] = term[d] /\ tasks'[d] = tasks[d],
           Settled(c)'
    PROVE  IInv'
<1>1. Counts' /\ Queued' /\ view' \in [Channel -> View]
  BY AnswerFacts DEF IInv, outside
<1>2. Shape'
  BY <1>1 DEF IInv, Shape, outside
<1>3. \A d \in Channel : d # c => view'[d] = view[d] /\ ~InHandler(d)
  BY DEF Answer, InHandler, IInv, Shape
<1>4. Awaits' /\ Before'
  BY DEF Awaits, Before
<1>5. HandedOverOnce'
  <2>1. ASSUME NEW d \in Channel
        PROVE  Len(tasks'[d]) <= 1 /\ (d \in channels' => tasks'[d] = <<>>)
    <3>1. CASE d = c  BY <3>1 DEF Settled
    <3>2. CASE d # c  BY <3>2 DEF IInv, HandedOverOnce
    <3>3. QED  BY <3>1, <3>2
  <2>2. QED  BY <2>1 DEF HandedOverOnce, InHandler
<1>6. ToldTheTruth'
  <2>1. ASSUME NEW d \in Channel
        PROVE  /\ view'[d] = "open" => d \in channels'
               /\ view'[d] = "running" => tasks'[d] # <<>>
               /\ view'[d] \in {"new", "opening", "refused", "failed"} => tasks'[d] = <<>>
    <3>1. CASE d = c  BY <3>1 DEF Settled
    <3>2. CASE d # c  BY <1>3, <3>2 DEF IInv, ToldTheTruth
    <3>3. QED  BY <3>1, <3>2
  <2>2. QED  BY <2>1 DEF ToldTheTruth, InHandler
<1>7. Terminals'
  <2>1. ASSUME NEW d \in Channel
        PROVE  /\ d \in channels' => view'[d] \in {"open", "closed"} /\ pty'[d] = term'[d]
               /\ view'[d] \in {"new", "opening"} => term'[d] = "none"
    <3>1. CASE d = c  BY <3>1 DEF Settled
    <3>2. CASE d # c  BY <1>3, <3>2 DEF IInv, Terminals
    <3>3. QED  BY <3>1, <3>2
  <2>2. QED  BY <2>1 DEF Terminals
<1>8. LastTerminal'
  <2>1. ASSUME NEW d \in Channel, NEW i \in DOMAIN tasks'[d],
               tasks'[d][i].kind \in {"shell", "exec"}
        PROVE  tasks'[d][i].term = term'[d]
    <3>1. CASE d = c  BY <2>1, <3>1 DEF Settled
    <3>2. CASE d # c  BY <2>1, <3>2 DEF IInv, LastTerminal
    <3>3. QED  BY <3>1, <3>2
  <2>2. QED  BY <2>1 DEF LastTerminal
<1>9. OnlyListedKeys'
  BY DEF IInv, OnlyListedKeys, outside
<1>10. QED  BY <1>1, <1>2, <1>4, <1>5, <1>6, <1>7, <1>8, <1>9 DEF IInv

\* A handler that begins to await docker keeps the invariant if its channel is in
\* nobody's hands.
LEMMA AwaitFacts ==
    ASSUME IInv, phase = "open", queue # <<>>,
           NEW c \in Channel, c = Handled.channel, tasks[c] = <<>>,
           awaiting' \in {"look_up", "connect", "inspect", "shell", "server"}, Awaits',
           channels' = channels \ {c}, pty' \in [Channel -> Terminal \cup {"none"}],
           \A d \in Channel : d # c => pty'[d] = pty[d],
           trying' \in [Channel -> Seq(Shell)],
           UNCHANGED <<outside, view, term, phase, queue, answers, tasks>>
    PROVE  IInv'
<1>1. Shape' /\ Tasks' /\ Counts' /\ Queued' /\ Before' /\ OnlyListedKeys' /\ LastTerminal'
  BY DEF IInv, Shape, Tasks, Counts, Queued, Before, OnlyListedKeys, LastTerminal, outside
<1>2. InHandler(c)' /\ \A d \in Channel : d # c => ~InHandler(d) /\ ~InHandler(d)'
  BY DEF InHandler, Handled
<1>3. HandedOverOnce'
  BY <1>2 DEF IInv, HandedOverOnce
<1>4. ToldTheTruth'
  BY <1>2 DEF IInv, ToldTheTruth
<1>5. Terminals'
  BY DEF IInv, Terminals
<1>6. QED  BY <1>1, <1>3, <1>4, <1>5 DEF IInv

-----------------------------------------------------------------------------
(* Every step keeps the invariant.                                         *)

\* The initial states have no channels.
LEMMA InitInvariant == Init => IInv
<1>1. SUFFICES ASSUME Init
               PROVE  IInv
  OBVIOUS
<1>2. queue \in Seq(Request) /\ Len(queue) = 0
  BY <1>1 DEF Init
<1>3. Shape /\ Tasks /\ Counts
  <2>1. tasks \in [Channel -> Seq(TaskType)]
    BY <1>1 DEF Init
  <2>2. trying \in [Channel -> Seq(Shell)]
    BY <1>1 DEF Init
  <2>3. QED  BY <1>1, <1>2, <2>1, <2>2, BoundAssumption DEF Init, Shape, View, Tasks, Counts
<1>4. Queued /\ Awaits /\ Before
  BY <1>1, <1>2 DEF Init, Queued, Awaits, Before
<1>5. HandedOverOnce /\ ToldTheTruth /\ Terminals /\ LastTerminal /\ OnlyListedKeys
  BY <1>1 DEF Init, HandedOverOnce, InHandler, ToldTheTruth, Terminals, LastTerminal, OnlyListedKeys
<1>6. QED  BY <1>3, <1>4, <1>5 DEF IInv

\* The steps of the container, the network and the client.
LEMMA OutsideSteps ==
    ASSUME IInv,
           \/ ContainerStops \/ ContainerStarts \/ Disconnect \/ UNCHANGED vars
           \/ AuthNone \/ \E k \in Key : AuthPublicKey(k)
    PROVE  IInv'
<1>1. CASE ContainerStops \/ ContainerStarts \/ Disconnect \/ UNCHANGED vars
  <2>1. UNCHANGED <<setting, user, view, term, requests, sessionVars, taskVars>>
    BY <1>1 DEF ContainerStops, ContainerStarts, Disconnect, vars, clientVars
  <2>2. container_up' \in BOOLEAN /\ interrupted' \subseteq Channel /\ connected' \in BOOLEAN
    BY <1>1 DEF ContainerStops, ContainerStarts, Disconnect, vars, containerVars, clientVars,
       IInv, Shape
  <2>3. Shape' /\ Tasks' /\ Counts' /\ Queued' /\ Awaits' /\ Before'
    BY <2>1, <2>2 DEF IInv, Shape, Tasks, Counts, Queued, Awaits, Handled, Before,
       sessionVars, taskVars
  <2>4. HandedOverOnce' /\ ToldTheTruth' /\ Terminals' /\ LastTerminal' /\ OnlyListedKeys'
    BY <2>1 DEF IInv, HandedOverOnce, InHandler, Handled, ToldTheTruth, Terminals, LastTerminal,
       OnlyListedKeys, sessionVars, taskVars
  <2>5. QED  BY <2>3, <2>4 DEF IInv
<1>2. ASSUME NEW who \in Key \cup {"none"}, Admit(who),
             InsecureAllowNone \/ \E line \in setting.lines : line.key = who
      PROVE  IInv'
  <2>1. Shape' /\ Tasks' /\ Awaits' /\ Before'
    BY <1>2 DEF Admit, IInv, Shape, Tasks, Awaits, Before, Handled, containerVars, taskVars
  <2>2. Counts' /\ Queued'
    <3>1. Len(queue) = 0
      BY <1>2 DEF Admit, IInv, Before
    <3>2. QED  BY <1>2, <3>1 DEF Admit, IInv, Counts, Queued, Before
  <2>3. HandedOverOnce' /\ Terminals' /\ LastTerminal'
    BY <1>2 DEF Admit, IInv, HandedOverOnce, InHandler, Handled, Terminals, LastTerminal, taskVars
  <2>4. ToldTheTruth'
    BY <1>2 DEF Admit, IInv, ToldTheTruth, Before, taskVars
  <2>5. OnlyListedKeys'
    BY <1>2 DEF Admit, OnlyListedKeys, InsecureAllowNone
  <2>6. QED  BY <2>1, <2>2, <2>3, <2>4, <2>5 DEF IInv
<1>3. CASE AuthNone
  BY <1>2, <1>3 DEF AuthNone
<1>4. ASSUME NEW k \in Key, AuthPublicKey(k)
      PROVE  IInv'
  BY <1>2, <1>4 DEF AuthPublicKey, Allows
<1>5. QED  BY <1>1, <1>3, <1>4

\* Another request: the client knows the channel, or has not used it before.
LEMMA AskStep ==
    ASSUME IInv, NEW r \in Request, Ask(r)
    PROVE  IInv'
<1>1. r.channel \in Channel
  BY RequestFacts
<1>2. /\ queue \in Seq(Request) /\ queue' = Append(queue, r)
      /\ phase = "open" /\ requests < MaxRequests
      /\ requests' = requests + 1
      /\ UNCHANGED <<setting, containerVars, connected, user, term, phase, answers, channels, pty,
                     awaiting, tasks, trying>>
  BY DEF Ask, IInv, Counts, taskVars
<1>3. /\ queue' \in Seq(Request) /\ Len(queue) \in Nat /\ Len(queue') = Len(queue) + 1
      /\ \A i \in 1 .. Len(queue) : queue'[i] = queue[i]
      /\ queue'[Len(queue) + 1] = r /\ queue' # <<>>
  BY <1>2, AppendFacts
<1>4. queue # <<>> => Handled' = Handled
  BY <1>2 DEF Handled
<1>5. Shape' /\ Tasks' /\ Awaits' /\ Before' /\ OnlyListedKeys' /\ LastTerminal'
  <2>1. view' \in [Channel -> View]
    BY DEF Ask, IInv, Shape, View
  <2>2. QED  BY <1>2, <1>3, <1>4, <2>1 DEF IInv, Shape, Tasks, Awaits, Before, OnlyListedKeys,
     LastTerminal, containerVars
<1>6. Counts'
  BY <1>2, <1>3, BoundAssumption DEF IInv, Counts
<1>7. CASE r.kind \in Opening
  <2>1. view[r.channel] = "new" /\ view' = [view EXCEPT ![r.channel] = "opening"]
    BY <1>7 DEF Ask
  <2>2. \A i \in 1 .. Len(queue) : queue[i].channel \in Channel /\ queue[i].channel # r.channel
    <3>1. ASSUME NEW i \in 1 .. Len(queue)
          PROVE  queue[i].channel \in Channel /\ view[queue[i].channel] # "new"
      BY <1>2, RequestFacts DEF IInv, Queued, Told
    <3>2. QED  BY <2>1, <3>1
  <2>3. Queued'
    BY <1>1, <1>3, <1>7, <2>1, <2>2 DEF IInv, Queued, Shape
  <2>4. HandedOverOnce'
    BY <1>2, <1>4 DEF IInv, HandedOverOnce, InHandler, Awaits
  <2>5. ToldTheTruth'
    BY <1>1, <1>2, <1>4, <2>1 DEF IInv, ToldTheTruth, InHandler, Awaits, Shape
  <2>6. Terminals'
    BY <1>1, <1>2, <2>1 DEF IInv, Terminals, Shape
  <2>7. QED  BY <1>5, <1>6, <2>3, <2>4, <2>5, <2>6 DEF IInv
<1>8. CASE r.kind \notin Opening
  <2>1. view[r.channel] \in Told /\ view' = view
    BY <1>8 DEF Ask
  <2>2. Queued'
    <3>1. \A i \in 1 .. Len(queue) : queue[i].kind \in Opening => queue[i].channel # r.channel
      BY <2>1 DEF IInv, Queued, Told
    <3>2. QED  BY <1>3, <1>8, <2>1, <3>1 DEF IInv, Queued
  <2>3. HandedOverOnce'
    BY <1>2, <1>4 DEF IInv, HandedOverOnce, InHandler, Awaits
  <2>4. ToldTheTruth'
    BY <1>2, <1>4, <2>1 DEF IInv, ToldTheTruth, InHandler, Awaits
  <2>5. Terminals'
    BY <1>2, <2>1 DEF IInv, Terminals
  <2>6. QED  BY <1>5, <1>6, <2>2, <2>3, <2>4, <2>5 DEF IInv
<1>9. QED  BY <1>7, <1>8

LEMMA CloseStep ==
    ASSUME IInv, NEW c \in Channel, CloseChannel(c)
    PROVE  IInv'
<1>1. /\ view[c] \in Told /\ view' = [view EXCEPT ![c] = "closed"]
      /\ UNCHANGED <<setting, containerVars, connected, user, term, requests, phase, queue, answers,
                     channels, pty, awaiting, tasks, trying>>
  BY DEF CloseChannel, sessionVars, taskVars
<1>2. Shape' /\ Tasks' /\ Counts' /\ Awaits' /\ OnlyListedKeys' /\ LastTerminal' /\ HandedOverOnce'
  BY <1>1 DEF IInv, Shape, containerVars, View, Tasks, Counts, Awaits, Handled, OnlyListedKeys, LastTerminal,
     HandedOverOnce, InHandler
<1>3. Before'
  BY DEF CloseChannel, Before, sessionVars
<1>4. Queued'
  BY <1>1 DEF IInv, Queued, Shape, Told
<1>5. ToldTheTruth' /\ Terminals'
  BY <1>1 DEF IInv, ToldTheTruth, Terminals, InHandler, Handled, Shape
<1>6. QED  BY <1>2, <1>3, <1>4, <1>5 DEF IInv

LEMMA HandlerStep ==
    ASSUME IInv, Handler
    PROVE  IInv'
<1>1. phase = "open" /\ awaiting = "none" /\ queue # <<>>
  BY DEF Handler, TakesUp, ChannelOpenSession, ChannelOpenDirectTcpip, PtyRequest, EnvRequest,
     ShellRequest, ExecRequest, SubsystemRequest
<1>2. /\ Handled.channel \in Channel /\ Handled = queue[1] /\ 1 \in 1 .. Len(queue)
      /\ Handled.term \in Terminal \cup {"none"}
  BY <1>1, HandledFacts DEF IInv
<1>3. PICK c \in Channel : c = Handled.channel
  BY <1>2
<1>4. /\ c \in channels => tasks[c] = <<>> /\ pty[c] = term[c]
      /\ view[c] \in View /\ Told \subseteq View
      /\ term[c] \in Terminal \cup {"none"} /\ pty[c] \in Terminal \cup {"none"}
  BY DEF IInv, HandedOverOnce, Terminals, Shape, View
<1>5. IF Handled.kind \in Opening THEN view[c] = "opening" ELSE view[c] \in Told \cup {"closed"}
  BY <1>2, <1>3 DEF IInv, Queued
<1>6. Settled(c)
  BY <1>1, <1>2, <1>3 DEF IInv, Settled, HandedOverOnce, ToldTheTruth, Terminals, LastTerminal, InHandler
\* An answer that changes nothing else.
<1>7. ASSUME NEW seen \in View, Answer(seen),
             UNCHANGED <<outside, term, phase, channels, pty, awaiting, taskVars>>,
             \/ seen = view[c] /\ Handled.kind \notin Opening
             \/ seen = "refused" /\ Handled.kind \in Opening
      PROVE  IInv'
  <2>1. view'[c] = view[c] \/ (view'[c] = "refused" /\ view[c] = "opening")
    BY <1>3, <1>5, <1>7 DEF Answer, IInv, Shape
  <2>2. Settled(c)'
    BY <1>6, <1>7, <2>1 DEF Settled, taskVars
  <2>3. Tasks' /\ tasks' = tasks
    BY <1>7 DEF IInv, Tasks, taskVars
  <2>4. QED
    BY <1>1, <1>3, <1>5, <1>7, <2>2, <2>3, AnsweredFacts DEF IInv, Shape
<1>8. CASE ChannelOpenSession
  <2>1. Handled.kind \in Opening
    BY <1>8 DEF ChannelOpenSession, TakesUp, Opening
  <2>2. tasks[c] = <<>> /\ term[c] = "none" /\ view[c] = "opening"
    BY <1>5, <1>6, <2>1 DEF Settled
  <2>3. /\ view'[c] = "open" /\ pty' = [pty EXCEPT ![c] = "none"] /\ channels' = channels \cup {c}
        /\ Answer("open") /\ UNCHANGED <<outside, term, phase, awaiting, tasks, trying>>
    BY <1>3, <1>8, <2>2 DEF ChannelOpenSession, Answer, IInv, Shape, taskVars
  <2>4. Settled(c)'
    BY <2>2, <2>3 DEF Settled, IInv, Shape
  <2>5. Tasks' /\ "open" \in View /\ pty' \in [Channel -> Terminal \cup {"none"}]
    BY <2>3 DEF IInv, Shape, Tasks, View, Told
  <2>6. QED
    BY <1>1, <1>3, <2>1, <2>3, <2>4, <2>5, AnsweredFacts DEF IInv, Shape
<1>9. CASE ChannelOpenDirectTcpip
  <2>1. Handled.kind \in Opening
    BY <1>9 DEF ChannelOpenDirectTcpip, TakesUp, Opening
  <2>2. CASE Handled.kind = "direct"
    <3>1. tasks[c] = <<>> /\ c \notin channels
      BY <1>5, <1>6, <2>1 DEF Settled
    <3>2. /\ awaiting' = "look_up"
          /\ UNCHANGED <<outside, view, term, phase, queue, answers, channels, pty, tasks, trying>>
      BY <1>9, <2>2 DEF ChannelOpenDirectTcpip, taskVars
    <3>3. Awaits'
      BY <1>1, <2>2, <3>2 DEF Awaits, Handled
    <3>4. QED
      BY <1>1, <1>3, <3>1, <3>2, <3>3, AwaitFacts DEF IInv, Shape, Tasks
  <2>3. CASE Handled.kind # "direct"
    BY <1>7, <1>9, <2>1, <2>3 DEF ChannelOpenDirectTcpip, View
  <2>4. QED  BY <2>2, <2>3
<1>10. CASE PtyRequest
  <2>1. CASE c \notin channels
    BY <1>3, <1>10, <2>1, EndFacts DEF PtyRequest
  <2>2. CASE c \in channels
    <3>1. Handled.kind \notin Opening
      BY <1>10 DEF PtyRequest, TakesUp, Opening
    <3>2. /\ Answer(view[c]) /\ pty' = [pty EXCEPT ![c] = Handled.term]
          /\ term' = [term EXCEPT ![c] = Handled.term]
          /\ UNCHANGED <<outside, phase, channels, awaiting, tasks, trying>>
      BY <1>3, <1>10, <2>2 DEF PtyRequest, taskVars
    <3>3. view' = view
      BY <1>3, <3>2 DEF Answer, IInv, Shape
    <3>4. /\ pty' \in [Channel -> Terminal \cup {"none"}] /\ pty'[c] = term'[c]
          /\ term' \in [Channel -> Terminal \cup {"none"}]
      BY <1>2, <3>2 DEF IInv, Shape
    <3>5. Settled(c)'
      BY <1>4, <1>5, <1>6, <2>2, <3>1, <3>2, <3>3, <3>4 DEF Settled, Told
    <3>6. Tasks' /\ channels' \subseteq Channel
      BY <3>2 DEF IInv, Tasks, Shape
    <3>7. QED
      BY <1>1, <1>3, <1>4, <1>5, <3>1, <3>2, <3>4, <3>5, <3>6, AnsweredFacts DEF IInv, Shape
  <2>3. QED  BY <2>1, <2>2
<1>11. CASE EnvRequest
  <2>1. Handled.kind \notin Opening
    BY <1>11 DEF EnvRequest, TakesUp, Opening
  <2>2. QED
    BY <1>3, <1>4, <1>7, <1>11, <2>1 DEF EnvRequest
\* The channel goes to a task that looks for a shell.
<1>12. ASSUME Handled.kind \in {"shell", "exec"}, c \in channels, Remove(c), HandToShell,
              UNCHANGED <<outside, term, phase, awaiting>>
       PROVE  IInv'
  <2>1. tasks[c] = <<>> /\ Handled.kind \notin Opening /\ Handled.kind \in Program \cup {"bridge"}
    BY <1>4, <1>12 DEF Opening, Program
  <2>2. /\ Answer("running") /\ Spawn(c, Handled.kind, pty[c], "resolve")
        /\ trying' = [trying EXCEPT ![c] = Candidates]
    BY <1>3, <1>12 DEF HandToShell
  <2>3. /\ tasks' \in [Channel -> Seq(TaskType)]
        /\ tasks'[c] # <<>> /\ Len(tasks'[c]) = 1 /\ DOMAIN tasks'[c] = {1}
        /\ tasks'[c][1].term = pty[c]
        /\ \A d \in Channel : d # c => tasks'[d] = tasks[d]
    BY <1>4, <2>1, <2>2, SpawnFacts DEF IInv
  <2>4. Tasks'
    BY <2>2, <2>3, CandidatesAreShells DEF IInv, Shape, Tasks
  <2>5. /\ channels' = channels \ {c} /\ pty' \in [Channel -> Terminal \cup {"none"}]
        /\ \A d \in Channel : d # c => pty'[d] = pty[d]
    BY <1>12 DEF Remove, IInv, Shape
  <2>6. view'[c] \in {"running", "closed"}
    BY <1>3, <2>2 DEF Answer, IInv, Shape
  <2>7. Settled(c)'
    BY <1>4, <1>12, <2>3, <2>5, <2>6 DEF Settled
  <2>8. "running" \in View /\ "running" \in Told
    BY DEF View, Told
  <2>9. QED
    BY <1>1, <1>3, <1>12, <2>2, <2>3, <2>4, <2>5, <2>7, <2>8, AnsweredFacts DEF IInv, Shape
<1>13. CASE ShellRequest
  <2>1. CASE c \notin channels
    BY <1>3, <1>13, <2>1, EndFacts DEF ShellRequest
  <2>2. CASE c \in channels
    BY <1>3, <1>12, <1>13, <2>2 DEF ShellRequest, TakesUp
  <2>3. QED  BY <2>1, <2>2
\* The handler keeps the channel.
<1>14. ASSUME c \in channels, Remove(c),
              \/ Handled.kind = "dial_stdio" /\ awaiting' = "inspect"
              \/ Handled.kind = "sftp" /\ awaiting' = "shell",
              trying' \in [Channel -> Seq(Shell)],
              UNCHANGED <<outside, view, term, phase, queue, answers, tasks>>
       PROVE  IInv'
  <2>1. Awaits'
    BY <1>1, <1>14 DEF Awaits, Handled
  <2>2. /\ channels' = channels \ {c} /\ pty' \in [Channel -> Terminal \cup {"none"}]
        /\ \A d \in Channel : d # c => pty'[d] = pty[d]
    BY <1>14 DEF Remove, IInv, Shape
  <2>3. QED
    BY <1>1, <1>3, <1>4, <1>14, <2>1, <2>2, AwaitFacts
<1>15. CASE ExecRequest
  <2>1. CASE c \notin channels
    BY <1>3, <1>15, <2>1, EndFacts DEF ExecRequest
  <2>2. CASE c \in channels /\ Handled.kind = "exec"
    BY <1>3, <1>12, <1>15, <2>2 DEF ExecRequest
  <2>3. CASE c \in channels /\ Handled.kind # "exec"
    <3>1. /\ Handled.kind = "dial_stdio" /\ awaiting' = "inspect" /\ Remove(c)
          /\ UNCHANGED <<outside, view, term, phase, queue, answers, tasks, trying>>
      BY <1>3, <1>15, <2>3 DEF ExecRequest, TakesUp, taskVars
    <3>2. QED  BY <1>14, <2>3, <3>1 DEF IInv, Tasks
  <2>4. QED  BY <2>1, <2>2, <2>3
<1>16. CASE SubsystemRequest
  <2>1. CASE Handled.kind = "other_subsystem"
    <3>1. Handled.kind \notin Opening
      BY <2>1 DEF Opening
    <3>2. QED
      BY <1>3, <1>4, <1>7, <1>16, <2>1, <3>1 DEF SubsystemRequest, TakesUp
  <2>2. CASE Handled.kind = "sftp" /\ c \notin channels
    BY <1>3, <1>16, <2>2, EndFacts DEF SubsystemRequest, TakesUp
  <2>3. CASE Handled.kind = "sftp" /\ c \in channels
    <3>1. /\ awaiting' = "shell" /\ Remove(c) /\ trying' = [trying EXCEPT ![c] = Candidates]
          /\ UNCHANGED <<outside, view, term, phase, queue, answers, tasks>>
      BY <1>3, <1>16, <2>3 DEF SubsystemRequest, TakesUp
    <3>2. trying' \in [Channel -> Seq(Shell)]
      BY <3>1, CandidatesAreShells DEF IInv, Shape, Tasks
    <3>3. QED  BY <1>14, <2>3, <3>1, <3>2
  <2>4. QED  BY <1>16, <2>1, <2>2, <2>3 DEF SubsystemRequest, TakesUp
<1>17. QED
  BY <1>8, <1>9, <1>10, <1>11, <1>13, <1>15, <1>16 DEF Handler

\* The handler that awaits docker goes on.
LEMMA DockerStep ==
    ASSUME IInv, DockerAnswers
    PROVE  IInv'
<1>1. phase = "open" /\ awaiting # "none" /\ queue # <<>>
  BY DEF DockerAnswers, LookedUp, Connected, Resolved, SftpShell, SftpServer, IInv, Awaits
<1>2. /\ Handled.channel \in Channel /\ Handled = queue[1] /\ 1 \in 1 .. Len(queue)
      /\ Handled.term \in Terminal \cup {"none"}
  BY <1>1, HandledFacts DEF IInv
<1>3. PICK c \in Channel : c = Handled.channel
  BY <1>2
<1>4. tasks[c] = <<>> /\ c \notin channels /\ view[c] \in View /\ Told \subseteq View
  BY <1>1, <1>3 DEF IInv, HandedOverOnce, InHandler, Shape, View
<1>5. /\ Handled.kind \in {"direct", "dial_stdio", "sftp"}
      /\ Handled.kind = "direct" <=> awaiting \in {"look_up", "connect"}
  BY <1>1 DEF DockerAnswers, LookedUp, Connected, Resolved, SftpShell, SftpServer, IInv, Awaits
<1>6. IF Handled.kind = "direct" THEN view[c] = "opening" ELSE view[c] \in Told \cup {"closed"}
  BY <1>2, <1>3, <1>5 DEF IInv, Queued, Opening
<1>7. view[c] \in {"new", "opening"} => term[c] = "none"
  BY DEF IInv, Terminals
\* It hands the channel over.
<1>8. ASSUME NEW kind \in {"bridge", "dial_stdio", "sftp"}, NEW stage \in {"running", "both"},
             HandOver(kind, stage)
      PROVE  IInv'
  <2>1. /\ Answer("running") /\ Spawn(c, kind, "none", stage) /\ awaiting' = "none"
        /\ UNCHANGED <<outside, term, phase, channels, pty, trying>>
    BY <1>3, <1>8 DEF HandOver
  <2>2. kind \in Program \cup {"bridge"} /\ kind \notin {"shell", "exec"}
    BY DEF Program
  <2>3. /\ tasks' \in [Channel -> Seq(TaskType)]
        /\ tasks'[c] # <<>> /\ Len(tasks'[c]) = 1 /\ DOMAIN tasks'[c] = {1}
        /\ tasks'[c][1].kind = kind
        /\ \A d \in Channel : d # c => tasks'[d] = tasks[d]
    BY <1>4, <2>1, <2>2, SpawnFacts DEF IInv
  <2>4. view'[c] \in {"running", "closed"}
    BY <1>3, <2>1 DEF Answer, IInv, Shape
  <2>5. Settled(c)'
    BY <1>4, <2>1, <2>2, <2>3, <2>4 DEF Settled
  <2>6. Tasks'
    BY <2>1, <2>3 DEF IInv, Tasks
  <2>7. "running" \in View /\ "running" \in Told
    BY DEF View, Told
  <2>8. QED
    BY <1>1, <1>3, <2>1, <2>3, <2>5, <2>6, <2>7, AnsweredFacts DEF IInv, Shape
\* It refuses.
<1>9. ASSUME NEW seen \in {"refused", "failed"}, Refuse(seen),
             seen = "refused" <=> Handled.kind = "direct"
      PROVE  IInv'
  <2>1. view'[c] \in {seen, "closed"}
    BY <1>3, <1>9 DEF Refuse, Answer, IInv, Shape
  <2>2. Settled(c)'
    BY <1>4, <1>9, <2>1 DEF Settled, Refuse, taskVars
  <2>3. seen \in View /\ (Handled.kind \in Opening \/ seen \in Told)
    BY <1>9 DEF View, Opening, Told
  <2>4. Tasks' /\ tasks' = tasks
    BY <1>9 DEF IInv, Refuse, Tasks, taskVars
  <2>5. QED
    BY <1>1, <1>3, <1>9, <2>2, <2>3, <2>4, AnsweredFacts DEF Refuse, IInv, Shape
\* It awaits something more.
<1>10. ASSUME awaiting' \in {"look_up", "connect", "inspect", "shell", "server"}, Awaits',
              trying' \in [Channel -> Seq(Shell)],
              UNCHANGED <<outside, view, term, phase, queue, answers, channels, pty, tasks>>
       PROVE  IInv'
  <2>1. channels' = channels \ {c} /\ pty' \in [Channel -> Terminal \cup {"none"}]
    BY <1>4, <1>10 DEF IInv, Shape
  <2>2. QED
    BY <1>1, <1>3, <1>4, <1>10, <2>1, AwaitFacts
<1>11. CASE LookedUp
  <2>1. CASE Refuse("refused")
    BY <1>5, <1>9, <1>11, <2>1 DEF LookedUp
  <2>2. CASE ~Refuse("refused")
    <3>1. /\ awaiting = "look_up" /\ awaiting' = "connect"
          /\ UNCHANGED <<outside, view, term, phase, queue, answers, channels, pty, tasks, trying>>
      BY <1>11, <2>2 DEF LookedUp, taskVars
    <3>2. Awaits'
      BY <3>1, <1>1 DEF IInv, Awaits, Handled
    <3>3. QED  BY <1>10, <3>1, <3>2 DEF IInv, Tasks
  <2>3. QED  BY <2>1, <2>2
<1>12. CASE Connected
  BY <1>5, <1>8, <1>9, <1>12 DEF Connected
<1>13. CASE Resolved
  BY <1>8, <1>13, EndFacts DEF Resolved
<1>14. CASE SftpShell
  <2>1. CASE Refuse("failed")
    BY <1>5, <1>9, <1>14, <2>1 DEF SftpShell
  <2>2. CASE ~Refuse("failed")
    <3>1. /\ awaiting = "shell" /\ awaiting' \in {"shell", "server"}
          /\ UNCHANGED <<outside, view, term, phase, queue, answers, channels, pty, tasks>>
          /\ trying' = trying \/ Probed(c)
      BY <1>3, <1>14, <2>2 DEF SftpShell, sessionVars, taskVars
    <3>2. Awaits'
      BY <3>1, <1>1 DEF IInv, Awaits, Handled
    <3>3. trying' \in [Channel -> Seq(Shell)]
      BY <3>1, ProbedFacts DEF IInv, Tasks
    <3>4. QED  BY <1>10, <3>1, <3>2, <3>3
  <2>3. QED  BY <2>1, <2>2
<1>15. CASE SftpServer
  BY <1>5, <1>8, <1>9, <1>15 DEF SftpServer
<1>16. QED
  BY <1>11, <1>12, <1>13, <1>14, <1>15 DEF DockerAnswers

LEMMA TaskSteps ==
    ASSUME IInv, NEW c \in Channel, NEW i \in DOMAIN tasks[c],
           \/ TaskShell(c, i) \/ TaskEnds(c, i) \/ ClientEnds(c, i)
           \/ UpstreamEnds(c, i) \/ BridgeFails(c, i)
    PROVE  IInv'
<1>1. UNCHANGED <<outside, view, term, sessionVars>>
  BY DEF TaskShell, TaskEnds, ClientEnds, UpstreamEnds, BridgeFails
<1>2. trying' \in [Channel -> Seq(Shell)]
  <2>1. UNCHANGED trying \/ Probed(c)
    BY DEF TaskShell, TaskEnds, ClientEnds, UpstreamEnds, BridgeFails
  <2>2. CASE UNCHANGED trying
    BY <2>2 DEF IInv, Tasks
  <2>3. CASE Probed(c)
    BY <2>3, ProbedFacts DEF IInv
  <2>4. QED  BY <2>1, <2>2, <2>3
<1>3. CASE UNCHANGED tasks
  <2>1. Shape' /\ Tasks' /\ Counts' /\ Queued' /\ Awaits' /\ Before'
    BY <1>1, <1>2, <1>3 DEF IInv, Shape, Tasks, Counts, Queued, Awaits, Handled, Before,
       outside, sessionVars
  <2>2. HandedOverOnce' /\ ToldTheTruth' /\ Terminals' /\ LastTerminal' /\ OnlyListedKeys'
    BY <1>1, <1>3 DEF IInv, HandedOverOnce, InHandler, Handled, ToldTheTruth, Terminals,
       LastTerminal, OnlyListedKeys, outside, sessionVars
  <2>3. QED  BY <2>1, <2>2 DEF IInv
<1>4. CASE tasks' # tasks
  <2>1. \E stage \in {"resolve", "running", "both", "to_client", "to_upstream", "over"} :
            Stage(c, i, stage)
    BY <1>4 DEF TaskShell, TaskEnds, ClientEnds, UpstreamEnds, BridgeFails
  <2>2. QED  BY <1>1, <1>2, <2>1, StageFacts
<1>5. QED  BY <1>3, <1>4

LEMMA StepInvariant == IInv /\ [Next]_vars => IInv'
<1> SUFFICES ASSUME IInv, [Next]_vars
             PROVE  IInv'
  OBVIOUS
<1>1. CASE Handler
  BY <1>1, HandlerStep
<1>2. CASE DockerAnswers
  BY <1>2, DockerStep
<1>3. CASE SessionEnds
  BY <1>3, EndFacts DEF SessionEnds
<1>4. ASSUME NEW r \in Request, Ask(r)
      PROVE  IInv'
  BY <1>4, AskStep
<1>5. ASSUME NEW c \in Channel, CloseChannel(c)
      PROVE  IInv'
  BY <1>5, CloseStep
<1>6. ASSUME NEW c \in Channel, NEW i \in DOMAIN tasks[c],
             \/ TaskShell(c, i) \/ TaskEnds(c, i) \/ ClientEnds(c, i)
             \/ UpstreamEnds(c, i) \/ BridgeFails(c, i)
      PROVE  IInv'
  BY <1>6, TaskSteps
<1>7. CASE \/ ContainerStops \/ ContainerStarts \/ Disconnect \/ UNCHANGED vars
           \/ AuthNone \/ \E k \in Key : AuthPublicKey(k)
  BY <1>7, OutsideSteps
<1>8. QED
  BY <1>1, <1>2, <1>3, <1>4, <1>5, <1>6, <1>7 DEF Next

LEMMA Invariance == Spec => []IInv
<1>1. QED  BY InitInvariant, StepInvariant, PTL DEF Spec

-----------------------------------------------------------------------------
(* The session implements ChannelContract.                                 *)

\* A channel is in the same hands if nothing of its own changed.
LEMMA HandsKept ==
    ASSUME NEW c \in Channel, tasks'[c] = tasks[c], c \in channels' <=> c \in channels,
           InHandler(c)' <=> InHandler(c),
           view'[c] \in {"new", "opening"} <=> view[c] \in {"new", "opening"}
    PROVE  Hands(c)' = Hands(c)
  BY DEF Hands

\* All channels are.
LEMMA AllHandsKept ==
    ASSUME IInv, UNCHANGED <<tasks, channels, awaiting>>, awaiting # "none" => Handled' = Handled,
           \A c \in Channel : view'[c] \in {"new", "opening"} <=> view[c] \in {"new", "opening"}
    PROVE  [c \in Channel |-> Hands(c)]' = [c \in Channel |-> Hands(c)]
<1>1. ASSUME NEW c \in Channel
      PROVE  Hands(c)' = Hands(c)
  <2>1. InHandler(c)' <=> InHandler(c)
    BY DEF InHandler
  <2>2. QED  BY <2>1, HandsKept
<1>2. QED  BY <1>1

\* One is moved.
LEMMA OneHandMoves ==
    ASSUME NEW c \in Channel, \A d \in Channel : d # c => Hands(d)' = Hands(d)
    PROVE  [d \in Channel |-> Hands(d)]' = [[d \in Channel |-> Hands(d)] EXCEPT ![c] = Hands(c)']
  OBVIOUS

\* The handler of the first request has returned: the step is the contract's if
\* it may leave the channel as it did.
LEMMA ReturnStep ==
    ASSUME IInv, phase = "open", queue # <<>>, NEW seen, Answer(seen), awaiting' = "none",
           UNCHANGED <<phase, requests>>,
           NEW c \in Channel, c = Handled.channel,
           \A d \in Channel : d # c => /\ tasks'[d] = tasks[d]
                                       /\ d \in channels' <=> d \in channels,
           Hands(c)' \in Contract!MayLeaveIn(Handled.kind, Hands(c))
    PROVE  Contract!Return
<1>1. ASSUME NEW d \in Channel, d # c
      PROVE  Hands(d)' = Hands(d)
  <2>1. ~InHandler(d) /\ ~InHandler(d)'
    BY <1>1 DEF InHandler
  <2>2. view'[d] = view[d]
    BY <1>1 DEF Answer, IInv, Shape
  <2>3. QED  BY <1>1, <2>1, <2>2, HandsKept
<1>2. [d \in Channel |-> Hands(d)]' = [[d \in Channel |-> Hands(d)] EXCEPT ![c] = Hands(c)']
  BY <1>1, OneHandMoves
<1>3. Contract!Handled = Handled
  BY DEF Contract!Handled, Handled
<1>4. \E left \in Contract!MayLeaveIn(Contract!Handled.kind,
                                     [d \in Channel |-> Hands(d)][Contract!Handled.channel]) :
          [d \in Channel |-> Hands(d)]'
            = [[d \in Channel |-> Hands(d)] EXCEPT ![Contract!Handled.channel] = left]
  BY <1>2, <1>3
<1>5. QED  BY <1>4 DEF Contract!Return, Answer

\* A handler takes the first request's channel along.
LEMMA KeepStep ==
    ASSUME IInv, phase = "open", queue # <<>>, awaiting = "none", awaiting' # "none",
           NEW c \in Channel, c = Handled.channel,
           \/ Handled.kind = "direct" /\ Hands(c) = "nobody"
           \/ Handled.kind \in {"dial_stdio", "sftp"} /\ Hands(c) = "session",
           channels' = channels \ {c}, UNCHANGED <<phase, queue, answers, requests, view, tasks>>
    PROVE  Contract!Keep
<1>1. ASSUME NEW d \in Channel, d # c
      PROVE  Hands(d)' = Hands(d)
  <2>1. ~InHandler(d) /\ ~InHandler(d)'
    BY <1>1 DEF InHandler, Handled
  <2>2. QED  BY <1>1, <2>1, HandsKept
<1>2. Hands(c)' = "handler"
  <2>1. InHandler(c)' /\ tasks'[c] = <<>>
    BY DEF InHandler, Handled, Hands
  <2>2. QED  BY <2>1 DEF Hands
<1>3. [d \in Channel |-> Hands(d)]' = [[d \in Channel |-> Hands(d)] EXCEPT ![c] = Hands(c)']
  BY <1>1, OneHandMoves
<1>4. Contract!Handled = Handled
  BY DEF Contract!Handled, Handled
<1>5. [d \in Channel |-> Hands(d)][c] = Hands(c)
  OBVIOUS
<1>6. QED  BY <1>2, <1>3, <1>4, <1>5 DEF Contract!Keep

\* The end of the connection takes the channels that the session and its handler
\* have.
LEMMA EndStep ==
    ASSUME IInv, EndConnection, phase # "closed",
           awaiting # "none" => awaiting = "inspect"
    PROVE  Contract!End
<1>1. ASSUME NEW c \in Channel
      PROVE  Hands(c)' = IF Hands(c) \in {"session", "handler"} THEN "over" ELSE Hands(c)
  <2>1. ~InHandler(c)' /\ c \notin channels' /\ tasks' = tasks /\ view' = view
    BY DEF EndConnection, InHandler, taskVars
  <2>2. CASE tasks[c] # <<>>
    BY <2>1, <2>2 DEF Hands
  <2>3. CASE tasks[c] = <<>> /\ InHandler(c)
    <3>1. Handled.kind = "dial_stdio" /\ queue # <<>>
      BY <2>3 DEF IInv, Awaits, InHandler
    <3>2. Handled = queue[1] /\ 1 \in 1 .. Len(queue)
      BY <3>1, HandledFacts DEF IInv
    <3>3. view[c] \in Told \cup {"closed"}
      BY <2>3, <3>1, <3>2 DEF IInv, Queued, InHandler, Opening
    <3>4. QED  BY <2>1, <2>3, <3>3 DEF Hands, Told
  <2>4. CASE tasks[c] = <<>> /\ ~InHandler(c) /\ c \in channels
    <3>1. view[c] \in {"open", "closed"}
      BY <2>4 DEF IInv, Terminals
    <3>2. QED  BY <2>1, <2>4, <3>1 DEF Hands
  <2>5. CASE tasks[c] = <<>> /\ ~InHandler(c) /\ c \notin channels
    BY <2>1, <2>5 DEF Hands
  <2>6. QED  BY <2>2, <2>3, <2>4, <2>5
<1>2. [c \in Channel |-> Hands(c)]'
        = [c \in Channel |-> IF [d \in Channel |-> Hands(d)][c] \in {"session", "handler"}
                             THEN "over" ELSE [d \in Channel |-> Hands(d)][c]]
  BY <1>1
<1>3. QED  BY <1>2 DEF Contract!End, EndConnection, outside

\* A handler that is called: it answers, keeps its channel, or ends the connection.
LEMMA HandlerImplements ==
    ASSUME IInv, Handler
    PROVE  Contract!Next
<1>1. phase = "open" /\ awaiting = "none" /\ queue # <<>>
  BY DEF Handler, TakesUp, ChannelOpenSession, ChannelOpenDirectTcpip, PtyRequest, EnvRequest,
     ShellRequest, ExecRequest, SubsystemRequest
<1>2. /\ Handled.channel \in Channel /\ Handled = queue[1] /\ 1 \in 1 .. Len(queue)
  BY <1>1, HandledFacts DEF IInv
<1>3. PICK c \in Channel : c = Handled.channel
  BY <1>2
<1>4. /\ c \in channels => tasks[c] = <<>> /\ view[c] \in {"open", "closed"}
      /\ ~InHandler(c) /\ view[c] \in View
      /\ c \in channels => Hands(c) = "session"
  BY <1>1 DEF IInv, HandedOverOnce, Terminals, Shape, InHandler, Hands
<1>5. Handled.kind \in Opening => /\ view[c] = "opening" /\ tasks[c] = <<>>
                                  /\ c \notin channels /\ Hands(c) = "nobody"
  BY <1>2, <1>3, <1>4 DEF IInv, Queued, ToldTheTruth, Hands
<1>6. EndConnection => Contract!Next
  BY <1>1, EndStep DEF Contract!Next
<1>7. UNCHANGED outside => UNCHANGED requests
  BY DEF outside
\* The answer leaves the channel as it was.
<1>8. ASSUME Answer(view[c]), UNCHANGED <<outside, phase, channels, awaiting, tasks>>,
             Handled.kind \in {"env", "other_subsystem"} \/ (Handled.kind = "pty" /\ c \in channels)
      PROVE  Contract!Next
  <2>1. view' = view
    BY <1>3, <1>8 DEF Answer, IInv, Shape
  <2>2. ~InHandler(c)'
    BY <1>1, <1>8 DEF InHandler
  <2>3. Hands(c)' = Hands(c)
    BY <1>4, <1>8, <2>1, <2>2, HandsKept
  <2>4. Hands(c)' \in Contract!MayLeaveIn(Handled.kind, Hands(c))
    BY <1>4, <1>8, <2>3 DEF Contract!MayLeaveIn
  <2>5. QED  BY <1>1, <1>3, <1>7, <1>8, <2>4, ReturnStep DEF Contract!Next
\* The answer comes with a task for the channel.
<1>9. ASSUME HandToShell, Remove(c), c \in channels, Handled.kind \in {"shell", "exec"},
             UNCHANGED <<outside, phase, awaiting>>
      PROVE  Contract!Next
  <2>1. /\ tasks'[c] # <<>> /\ tasks'[c][1].stage = "resolve"
        /\ \A d \in Channel : d # c => tasks'[d] = tasks[d]
    BY <1>3, <1>4, <1>9, SpawnFacts DEF HandToShell, IInv, Program, Shape
  <2>2. Hands(c)' = "task"
    BY <2>1 DEF Hands
  <2>3. Hands(c)' \in Contract!MayLeaveIn(Handled.kind, Hands(c))
    BY <1>4, <1>9, <2>2 DEF Contract!MayLeaveIn
  <2>4. QED
    BY <1>1, <1>3, <1>7, <1>9, <2>1, <2>3, ReturnStep DEF Contract!Next, HandToShell, Remove
\* The channel goes along with the handler.
<1>10. ASSUME Remove(c), c \in channels, Handled.kind \in {"dial_stdio", "sftp"}, awaiting' # "none",
              UNCHANGED <<outside, view, phase, queue, answers, tasks>>
       PROVE  Contract!Next
  BY <1>1, <1>3, <1>4, <1>7, <1>10, KeepStep DEF Contract!Next, Remove
<1>11. CASE ChannelOpenSession
  <2>1. Handled.kind = "session" /\ Answer("open") /\ channels' = channels \cup {c} /\ tasks' = tasks
        /\ UNCHANGED <<outside, phase, awaiting>>
    BY <1>3, <1>11 DEF ChannelOpenSession, TakesUp, taskVars
  <2>2. ~InHandler(c)'
    BY <1>1, <2>1 DEF InHandler
  <2>3. Hands(c) = "nobody" /\ Hands(c)' = "session"
    BY <1>5, <2>1, <2>2 DEF Hands, Opening
  <2>4. Hands(c)' \in Contract!MayLeaveIn(Handled.kind, Hands(c))
    BY <2>1, <2>3 DEF Contract!MayLeaveIn
  <2>5. QED  BY <1>1, <1>3, <1>7, <2>1, <2>4, ReturnStep DEF Contract!Next
<1>12. CASE ChannelOpenDirectTcpip
  <2>1. Handled.kind \in Opening /\ UNCHANGED <<outside, phase, channels, tasks>>
    BY <1>12 DEF ChannelOpenDirectTcpip, TakesUp, Opening, taskVars
  <2>2. CASE Handled.kind = "direct"
    <3>1. awaiting' # "none" /\ UNCHANGED <<queue, answers, view>> /\ channels' = channels \ {c}
      BY <1>5, <1>12, <2>1, <2>2 DEF ChannelOpenDirectTcpip
    <3>2. QED  BY <1>1, <1>3, <1>5, <1>7, <2>1, <2>2, <3>1, KeepStep DEF Contract!Next
  <2>3. CASE Handled.kind # "direct"
    <3>1. Answer("refused") /\ UNCHANGED awaiting /\ Handled.kind = "direct_port_too_big"
      BY <1>12, <2>3 DEF ChannelOpenDirectTcpip, TakesUp
    <3>2. view'[c] = "refused" /\ ~InHandler(c)'
      BY <1>1, <1>3, <1>5, <2>1, <3>1 DEF Answer, InHandler, IInv, Shape
    <3>3. Hands(c) = "nobody" /\ Hands(c)' = "over"
      BY <1>5, <2>1, <3>2 DEF Hands
    <3>4. Hands(c)' \in Contract!MayLeaveIn(Handled.kind, Hands(c))
      BY <3>1, <3>3 DEF Contract!MayLeaveIn
    <3>5. QED  BY <1>1, <1>3, <1>7, <2>1, <3>1, <3>4, ReturnStep DEF Contract!Next
  <2>4. QED  BY <2>2, <2>3
<1>13. CASE PtyRequest
  <2>1. CASE c \notin channels
    BY <1>3, <1>6, <1>13, <2>1 DEF PtyRequest
  <2>2. CASE c \in channels
    BY <1>3, <1>8, <1>13, <2>2 DEF PtyRequest, TakesUp, taskVars
  <2>3. QED  BY <2>1, <2>2
<1>14. CASE EnvRequest
  BY <1>3, <1>8, <1>14 DEF EnvRequest, TakesUp, taskVars
<1>15. CASE ShellRequest
  <2>1. CASE c \notin channels
    BY <1>3, <1>6, <1>15, <2>1 DEF ShellRequest
  <2>2. CASE c \in channels
    BY <1>3, <1>9, <1>15, <2>2 DEF ShellRequest, TakesUp
  <2>3. QED  BY <2>1, <2>2
<1>16. CASE ExecRequest
  <2>1. CASE c \notin channels
    BY <1>3, <1>6, <1>16, <2>1 DEF ExecRequest
  <2>2. CASE c \in channels /\ Handled.kind = "exec"
    BY <1>3, <1>9, <1>16, <2>2 DEF ExecRequest
  <2>3. CASE c \in channels /\ Handled.kind # "exec"
    BY <1>3, <1>10, <1>16, <2>3 DEF ExecRequest, TakesUp, taskVars
  <2>4. QED  BY <2>1, <2>2, <2>3
<1>17. CASE SubsystemRequest
  <2>1. CASE Handled.kind = "other_subsystem"
    BY <1>3, <1>8, <1>17, <2>1 DEF SubsystemRequest, TakesUp, taskVars
  <2>2. CASE Handled.kind # "other_subsystem" /\ c \notin channels
    BY <1>3, <1>6, <1>17, <2>2 DEF SubsystemRequest, TakesUp
  <2>3. CASE Handled.kind # "other_subsystem" /\ c \in channels
    BY <1>3, <1>10, <1>17, <2>3 DEF SubsystemRequest, TakesUp
  <2>4. QED  BY <2>1, <2>2, <2>3
<1>18. QED
  BY <1>11, <1>12, <1>13, <1>14, <1>15, <1>16, <1>17 DEF Handler

\* A handler that awaits docker goes on awaiting it, answers, or ends the connection.
LEMMA DockerImplements ==
    ASSUME IInv, DockerAnswers
    PROVE  Contract!Next \/ UNCHANGED Contract!vars
<1>1. awaiting # "none" /\ phase = "open" /\ queue # <<>>
  BY DEF DockerAnswers, LookedUp, Connected, Resolved, SftpShell, SftpServer, IInv, Awaits
<1>2. /\ Handled.channel \in Channel /\ Handled = queue[1] /\ 1 \in 1 .. Len(queue)
  BY <1>1, HandledFacts DEF IInv
<1>3. PICK c \in Channel : c = Handled.channel
  BY <1>2
<1>4. InHandler(c) /\ tasks[c] = <<>> /\ c \notin channels /\ Hands(c) = "handler"
  BY <1>1, <1>3 DEF IInv, HandedOverOnce, InHandler, Hands
<1>5. UNCHANGED outside => UNCHANGED requests
  BY DEF outside
\* The channel is given to a task.
<1>6. ASSUME NEW kind \in Program \cup {"bridge"}, NEW stage \in {"running", "both"}, HandOver(kind, stage),
             Handled.kind \in {"direct", "dial_stdio", "sftp"}
      PROVE  Contract!Next
  <2>1. /\ tasks'[c] # <<>> /\ tasks'[c][1].stage = stage
        /\ \A d \in Channel : d # c => tasks'[d] = tasks[d]
    <3>1. Spawn(c, kind, "none", stage) /\ stage \in {"resolve", "running", "both"}
      BY <1>3, <1>6 DEF HandOver
    <3>2. Tasks /\ "none" \in Terminal \cup {"none"}
      BY DEF IInv
    <3>3. QED  BY <1>4, <3>1, <3>2, SpawnFacts
  <2>2. Hands(c)' = "task"
    BY <2>1 DEF Hands
  <2>3. Hands(c)' \in Contract!MayLeaveIn(Handled.kind, Hands(c))
    BY <1>4, <1>6, <2>2 DEF Contract!MayLeaveIn
  <2>4. QED  BY <1>1, <1>3, <1>5, <1>6, <2>1, <2>3, ReturnStep DEF Contract!Next, HandOver
\* The channel is refused, or lost.
<1>7. ASSUME NEW seen \in {"refused", "failed"}, Refuse(seen), Handled.kind \in {"direct", "sftp"}
      PROVE  Contract!Next
  <2>1. view'[c] \notin {"new", "opening"}
    BY <1>3, <1>7 DEF Refuse, Answer, IInv, Shape
  <2>2. Hands(c)' = "over"
    BY <1>4, <1>7, <2>1 DEF Hands, Refuse, InHandler, taskVars
  <2>3. Hands(c)' \in Contract!MayLeaveIn(Handled.kind, Hands(c))
    BY <1>4, <1>7, <2>2 DEF Contract!MayLeaveIn
  <2>4. QED  BY <1>1, <1>3, <1>5, <1>7, <2>3, ReturnStep DEF Contract!Next, Refuse, taskVars
\* The handler awaits something else.
<1>8. ASSUME awaiting' # "none", UNCHANGED <<outside, view, phase, queue, answers, channels, tasks>>
      PROVE  UNCHANGED Contract!vars
  <2>1. ASSUME NEW d \in Channel
        PROVE  Hands(d)' = Hands(d)
    <3>1. InHandler(d)' <=> InHandler(d)
      BY <1>1, <1>8 DEF InHandler, Handled
    <3>2. QED  BY <1>8, <3>1, HandsKept
  <2>2. QED  BY <1>5, <1>8, <2>1 DEF Contract!vars
<1>9. CASE LookedUp
  BY <1>7, <1>8, <1>9 DEF LookedUp, IInv, Awaits, taskVars
<1>10. CASE Connected
  BY <1>6, <1>7, <1>10 DEF Connected, IInv, Awaits, Program
<1>11. CASE Resolved
  <2>1. Handled.kind = "dial_stdio" /\ awaiting = "inspect"
    BY <1>11 DEF Resolved, IInv, Awaits
  <2>2. CASE EndConnection
    BY <1>1, <2>1, <2>2, EndStep DEF Contract!Next
  <2>3. QED  BY <1>6, <1>11, <2>1, <2>2 DEF Resolved, Program
<1>12. CASE SftpShell
  <2>1. Handled.kind = "sftp"
    BY <1>12 DEF SftpShell, IInv, Awaits
  <2>2. CASE trying[c] = <<>> /\ Refuse("failed")
    BY <1>7, <2>1, <2>2
  <2>3. CASE ~(trying[c] = <<>> /\ Refuse("failed"))
    BY <1>1, <1>3, <1>8, <1>12, <2>3 DEF SftpShell, sessionVars, taskVars
  <2>4. QED  BY <2>2, <2>3
<1>13. CASE SftpServer
  BY <1>6, <1>7, <1>13 DEF SftpServer, IInv, Awaits, Program
<1>14. QED
  BY <1>9, <1>10, <1>11, <1>12, <1>13 DEF DockerAnswers

\* A task goes on, or ends.
LEMMA TaskImplements ==
    ASSUME IInv, NEW c \in Channel, NEW i \in DOMAIN tasks[c],
           \/ TaskShell(c, i) \/ TaskEnds(c, i) \/ ClientEnds(c, i)
           \/ UpstreamEnds(c, i) \/ BridgeFails(c, i)
    PROVE  Contract!Next \/ UNCHANGED Contract!vars
<1>1. UNCHANGED <<outside, view, sessionVars>>
  BY DEF TaskShell, TaskEnds, ClientEnds, UpstreamEnds, BridgeFails
<1>2. i = 1 /\ tasks[c] # <<>> /\ tasks[c] \in Seq(TaskType)
  BY DEF IInv, Tasks, HandedOverOnce
<1>3. \A d \in Channel : InHandler(d)' <=> InHandler(d)
  BY <1>1 DEF InHandler, Handled, sessionVars
<1>4. CASE UNCHANGED tasks
  <2>1. ASSUME NEW d \in Channel
        PROVE  Hands(d)' = Hands(d)
    BY <1>1, <1>3, <1>4, HandsKept DEF sessionVars
  <2>2. QED  BY <1>1, <2>1 DEF Contract!vars, sessionVars, outside
<1>5. CASE tasks' # tasks
  <2>1. PICK stage \in {"resolve", "running", "both", "to_client", "to_upstream", "over"} :
            Stage(c, i, stage) /\ tasks[c][1].stage # "over"
    BY <1>2, <1>5 DEF TaskShell, TaskEnds, ClientEnds, UpstreamEnds, BridgeFails
  <2>2. /\ tasks'[c] # <<>> /\ tasks'[c][1].stage = stage
        /\ \A d \in Channel : d # c => tasks'[d] = tasks[d]
    BY <1>2, <2>1 DEF Stage, IInv, Tasks, TaskType
  <2>3. ASSUME NEW d \in Channel, d # c
        PROVE  Hands(d)' = Hands(d)
    BY <1>1, <1>3, <2>2, <2>3, HandsKept DEF sessionVars
  <2>4. Hands(c) = "task" /\ Hands(c)' \in {"task", "over"}
    BY <1>2, <2>1, <2>2 DEF Hands
  <2>5. [d \in Channel |-> Hands(d)]' = [[d \in Channel |-> Hands(d)] EXCEPT ![c] = Hands(c)']
    BY <2>3, OneHandMoves
  <2>6. CASE Hands(c)' = "task"
    <3>1. [d \in Channel |-> Hands(d)]' = [d \in Channel |-> Hands(d)]
      BY <2>4, <2>5, <2>6
    <3>2. QED  BY <1>1, <3>1 DEF Contract!vars, sessionVars, outside
  <2>7. CASE Hands(c)' = "over"
    <3>1. Contract!TaskEnds(c)
      BY <1>1, <2>4, <2>5, <2>7 DEF Contract!TaskEnds, sessionVars, outside
    <3>2. QED  BY <3>1 DEF Contract!Next
  <2>8. QED  BY <2>4, <2>6, <2>7
<1>6. QED  BY <1>4, <1>5

-----------------------------------------------------------------------------
(* The shell of a task.                                                    *)

\* s is the end of all.
EndOf(s, all) ==
    /\ Len(s) <= Len(all)
    /\ \A k \in 1 .. Len(s) : s[k] = all[Len(all) - Len(s) + k]

LEMMA EndFactsOfTail ==
    ASSUME NEW S, NEW all \in Seq(S), NEW s \in Seq(S), s # <<>>, EndOf(s, all)
    PROVE  /\ EndOf(Tail(s), all)
           /\ s[1] = all[Len(all) - Len(s) + 1]
           /\ \A k \in 1 .. Len(all) - Len(Tail(s)) :
                  k \in 1 .. Len(all) - Len(s) \/ all[k] = s[1]
<1>1. /\ Len(all) \in Nat /\ Len(s) \in Nat /\ Len(Tail(s)) = Len(s) - 1 /\ Len(s) >= 1
      /\ \A k \in 1 .. Len(Tail(s)) : k + 1 \in 1 .. Len(s) /\ Tail(s)[k] = s[k + 1]
  BY TailFacts
<1>2. s[1] = all[Len(all) - Len(s) + 1]
  BY <1>1 DEF EndOf
<1>3. ASSUME NEW k \in 1 .. Len(Tail(s))
      PROVE  Tail(s)[k] = all[Len(all) - Len(Tail(s)) + k]
  <2>1. Tail(s)[k] = s[k + 1] /\ s[k + 1] = all[Len(all) - Len(s) + (k + 1)]
    BY <1>1 DEF EndOf
  <2>2. Len(all) - Len(s) + (k + 1) = Len(all) - Len(Tail(s)) + k
    BY <1>1
  <2>3. QED  BY <2>1, <2>2
<1>4. ASSUME NEW k \in 1 .. Len(all) - Len(Tail(s)), k \notin 1 .. Len(all) - Len(s)
      PROVE  all[k] = s[1]
  <2>1. k = Len(all) - Len(s) + 1
    BY <1>1, <1>4 DEF EndOf
  <2>2. QED  BY <1>2, <2>1
<1>5. EndOf(Tail(s), all)
  <2>1. Len(Tail(s)) <= Len(all)
    BY <1>1 DEF EndOf
  <2>2. QED  BY <1>3, <2>1 DEF EndOf
<1>6. \A k \in 1 .. Len(all) - Len(Tail(s)) : k \in 1 .. Len(all) - Len(s) \/ all[k] = s[1]
  BY <1>4
<1>7. QED  BY <1>2, <1>5, <1>6

\* The container has none of the shells before those that are left to be tried.
NoneBefore(c) ==
    \A k \in 1 .. Len(Candidates) - Len(trying[c]) : Candidates[k] \notin setting.shells

\* What is left to be tried is the end of the list, and the shell that runs is
\* the next one.  A shell of the container is passed over only while it is down,
\* and then nothing is started before it starts again.
TriedInOrder(c) ==
    /\ EndOf(trying[c], Candidates)
    /\ \/ c \in interrupted
       \/ tasks[c][1].stage \notin {"resolve", "running"}
       \/ tasks[c][1].stage = "resolve" /\ ~container_up
       \/ NoneBefore(c)
    /\ tasks[c][1].stage = "running" => trying[c] # <<>> /\ trying[c][1] \in setting.shells

ShellTask(c) == tasks[c] # <<>> /\ tasks[c][1].kind \in {"shell", "exec"}

Tried == \A c \in Channel : ShellTask(c) => TriedInOrder(c)

LEMMA TriedStart == Init => Tried
  BY DEF Init, Tried, ShellTask

\* A step that does not touch the channel.
LEMMA TriedKept ==
    ASSUME Tried, NEW c \in Channel, tasks'[c] = tasks[c], trying'[c] = trying[c],
           setting' = setting, container_up' => container_up, interrupted' = interrupted
    PROVE  (ShellTask(c) => TriedInOrder(c))'
<1>1. Candidates' = Candidates
  BY DEF Candidates, DefaultShells
<1>2. QED  BY <1>1 DEF Tried, ShellTask, TriedInOrder, NoneBefore

\* The container starts: a list that is tried is interrupted.
LEMMA TriedRestart ==
    ASSUME IInv, Tried, ContainerStarts
    PROVE  Tried'
<1> SUFFICES ASSUME NEW c \in Channel, ShellTask(c)' PROVE TriedInOrder(c)'
  BY DEF Tried
<1>1. /\ UNCHANGED <<setting, tasks, trying>>
      /\ interrupted' = interrupted \cup {d \in Channel : Looking(d)}
  BY DEF ContainerStarts, taskVars
<1>2. Candidates' = Candidates
  BY <1>1 DEF Candidates, DefaultShells
<1>3. TriedInOrder(c) /\ 1 \in DOMAIN tasks[c]
  BY <1>1 DEF Tried, ShellTask, IInv, Tasks
<1>4. tasks[c][1].stage = "resolve" => c \in interrupted'
  BY <1>1, <1>3 DEF Looking
<1>5. QED  BY <1>1, <1>2, <1>3, <1>4 DEF TriedInOrder, NoneBefore

\* A channel that goes to another task, or to none yet.
LEMMA TriedElsewhere ==
    ASSUME Tried, NEW c \in Channel,
           tasks'[c] = <<>> \/ tasks'[c][1].kind \in {"bridge", "dial_stdio", "sftp"}
    PROVE  (ShellTask(c) => TriedInOrder(c))'
  BY DEF ShellTask

\* The handlers.
LEMMA TriedHandled ==
    ASSUME IInv, Tried, Handler \/ DockerAnswers
    PROVE  Tried'
<1>1. phase = "open" /\ queue # <<>>
  BY DEF Handler, TakesUp, ChannelOpenSession, ChannelOpenDirectTcpip, PtyRequest, EnvRequest,
     ShellRequest, ExecRequest, SubsystemRequest, DockerAnswers, LookedUp, Connected, Resolved,
     SftpShell, SftpServer, IInv, Awaits
<1>2. PICK c \in Channel : c = Handled.channel
  BY <1>1, HandledFacts DEF IInv
<1>3. UNCHANGED <<setting, container_up, interrupted>>
  BY DEF Handler, ChannelOpenSession, ChannelOpenDirectTcpip, PtyRequest, EnvRequest,
     ShellRequest, ExecRequest, SubsystemRequest, DockerAnswers, LookedUp, Connected, Resolved,
     SftpShell, SftpServer, HandOver, Refuse, EndConnection, outside, containerVars, vars
<1>4. \A d \in Channel : d # c => tasks'[d] = tasks[d] /\ trying'[d] = trying[d]
  BY <1>2 DEF Handler, ChannelOpenSession, ChannelOpenDirectTcpip, PtyRequest, EnvRequest,
     ShellRequest, ExecRequest, SubsystemRequest, DockerAnswers, LookedUp, Connected, Resolved,
     SftpShell, SftpServer, HandOver, Refuse, EndConnection, HandToShell, Spawn, Probed,
     taskVars, IInv, Tasks
<1>5. tasks[c] = <<>> \/ (tasks' = tasks /\ trying'[c] = trying[c])
  <2>1. (c \in channels \/ awaiting # "none") => tasks[c] = <<>>
    BY <1>2 DEF IInv, HandedOverOnce, InHandler
  <2>2. CASE DockerAnswers
    BY <2>1, <2>2 DEF DockerAnswers, LookedUp, Connected, Resolved, SftpShell, SftpServer
  <2>3. CASE Handler
    BY <1>2, <2>1, <2>3 DEF Handler, ChannelOpenSession, ChannelOpenDirectTcpip, PtyRequest,
       EnvRequest, ShellRequest, ExecRequest, SubsystemRequest, EndConnection, taskVars
  <2>4. QED  BY <2>2, <2>3
<1>6. CASE tasks[c] = <<>>
  <2>1. CASE tasks'[c] = tasks[c]
    BY <1>3, <1>4, <1>6, <2>1, TriedKept, TriedElsewhere DEF Tried
  <2>2. ASSUME NEW kind \in {"bridge", "dial_stdio", "sftp"}, NEW stage \in {"running", "both"},
               HandOver(kind, stage)
        PROVE  Tried'
    <3>1. Spawn(c, kind, "none", stage) /\ kind \in Program \cup {"bridge"}
      BY <1>2, <2>2 DEF HandOver, Program
    <3>2. tasks'[c][1].kind = kind
      BY <1>6, <3>1, SpawnFacts DEF IInv
    <3>3. QED  BY <1>3, <1>4, <3>2, TriedKept, TriedElsewhere DEF Tried
  <2>3. CASE HandToShell /\ Handled.kind \in {"shell", "exec"}
    <3>1. /\ Spawn(c, Handled.kind, pty[c], "resolve") /\ Handled.kind \in Program \cup {"bridge"}
          /\ pty[c] \in Terminal \cup {"none"} /\ trying'[c] = Candidates
      BY <1>2, <2>3 DEF HandToShell, Program, IInv, Shape, Tasks
    <3>2. /\ tasks'[c][1].stage = "resolve"
          /\ Candidates' = Candidates /\ Candidates \in Seq(Shell)
      BY <1>3, <1>6, <3>1, CandidatesAreShells DEF Spawn, IInv, Shape, Tasks, Candidates, DefaultShells
    <3>3. TriedInOrder(c)'
      <4>1. EndOf(Candidates, Candidates) /\ Len(Candidates) \in Nat
        BY <3>2 DEF EndOf
      <4>2. QED  BY <3>1, <3>2, <4>1 DEF TriedInOrder, NoneBefore
    <3>4. QED  BY <1>3, <1>4, <3>3, TriedKept DEF Tried
  <2>4. CASE tasks'[c] # tasks[c]
    <3>1. CASE DockerAnswers
      BY <2>2, <2>4, <3>1 DEF DockerAnswers, LookedUp, Connected, Resolved, SftpShell, SftpServer,
         Refuse, EndConnection, taskVars
    <3>2. CASE Handler
      BY <2>3, <2>4, <3>2 DEF Handler, TakesUp, ChannelOpenSession, ChannelOpenDirectTcpip,
         PtyRequest, EnvRequest, ShellRequest, ExecRequest, SubsystemRequest, EndConnection, taskVars
    <3>3. QED  BY <3>1, <3>2
  <2>5. QED  BY <2>1, <2>4
<1>7. CASE tasks' = tasks /\ trying'[c] = trying[c]
  BY <1>3, <1>4, <1>7, TriedKept DEF Tried
<1>8. QED  BY <1>5, <1>6, <1>7

\* The tasks: the next shell is tried, or the one that works is started.
LEMMA TriedTask ==
    ASSUME IInv, Tried, NEW c \in Channel, NEW i \in DOMAIN tasks[c],
           \/ TaskShell(c, i) \/ TaskEnds(c, i) \/ ClientEnds(c, i)
           \/ UpstreamEnds(c, i) \/ BridgeFails(c, i)
    PROVE  Tried'
<1>1. tasks[c] \in Seq(TaskType) /\ trying[c] \in Seq(Shell) /\ i = 1 /\ tasks[c] # <<>>
  BY DEF IInv, Tasks, HandedOverOnce
<1>2. /\ UNCHANGED <<setting, container_up, interrupted>> /\ Candidates' = Candidates
      /\ \A d \in Channel : d # c => tasks'[d] = tasks[d] /\ trying'[d] = trying[d]
  BY DEF TaskShell, TaskEnds, ClientEnds, UpstreamEnds, BridgeFails, Stage, Probed, outside,
     IInv, Tasks, Candidates, DefaultShells
<1>3. /\ Candidates \in Seq(Shell)
      /\ tasks[c][1] \in TaskType
  BY <1>1, CandidatesAreShells DEF IInv, Shape
<1>4. CASE Probed(c) /\ UNCHANGED tasks /\ tasks[c][1].stage = "resolve"
  <2>1. /\ trying[c] # <<>> /\ ~Works(trying[c][1]) /\ trying'[c] = Tail(trying[c])
    BY <1>1, <1>4 DEF Probed, IInv, Tasks
  <2>2. ASSUME ShellTask(c)
        PROVE  TriedInOrder(c)'
    <3>1. TriedInOrder(c)
      BY <2>2 DEF Tried
    <3>2. /\ EndOf(trying'[c], Candidates)
          /\ \A k \in 1 .. Len(Candidates) - Len(trying'[c]) :
                 \/ k \in 1 .. Len(Candidates) - Len(trying[c])
                 \/ Candidates[k] = trying[c][1]
      BY <1>1, <1>3, <2>1, <3>1, EndFactsOfTail DEF TriedInOrder
    <3>3. c \in interrupted \/ ~container_up \/ NoneBefore(c)'
      BY <1>2, <1>4, <2>1, <3>1, <3>2 DEF TriedInOrder, NoneBefore, Works
    <3>4. QED  BY <1>2, <1>4, <3>2, <3>3 DEF TriedInOrder
  <2>3. (ShellTask(c) => TriedInOrder(c))'
    BY <1>4, <2>2 DEF ShellTask
  <2>4. QED  BY <1>2, <2>3, TriedKept DEF Tried
<1>5. CASE \E stage \in {"running", "both", "to_client", "to_upstream", "over"} :
              /\ Stage(c, i, stage) /\ UNCHANGED trying
              /\ stage = "running" => /\ tasks[c][i].stage = "resolve"
                                      /\ trying[c] # <<>> /\ Works(Head(trying[c]))
  <2>1. PICK stage \in {"running", "both", "to_client", "to_upstream", "over"} :
              /\ Stage(c, 1, stage) /\ UNCHANGED trying
              /\ stage = "running" => /\ tasks[c][1].stage = "resolve"
                                      /\ trying[c] # <<>> /\ Works(Head(trying[c]))
    BY <1>1, <1>5
  <2>2. /\ tasks'[c] = [tasks[c] EXCEPT ![1] = [tasks[c][1] EXCEPT !.stage = stage]]
    BY <2>1 DEF Stage, IInv, Tasks
  <2>3. /\ tasks'[c][1] = [tasks[c][1] EXCEPT !.stage = stage]
    BY <1>1, <2>2
  <2>4. tasks'[c][1].kind = tasks[c][1].kind /\ tasks'[c][1].stage = stage
    BY <1>3, <2>3 DEF TaskType
  <2>5. (ShellTask(c) => TriedInOrder(c))'
    <3>1. stage = "running" => trying[c][1] \in setting.shells /\ container_up
      BY <1>1, <2>1 DEF Works
    <3>2. ShellTask(c)' => ShellTask(c)
      BY <1>1, <2>4 DEF ShellTask
    <3>3. TriedInOrder(c) => TriedInOrder(c)'
      BY <1>2, <2>1, <2>4, <3>1 DEF TriedInOrder, NoneBefore
    <3>4. QED  BY <3>2, <3>3 DEF Tried
  <2>6. QED  BY <1>2, <2>5, TriedKept DEF Tried
<1>6. QED
  BY <1>1, <1>4, <1>5 DEF TaskShell, TaskEnds, ClientEnds, UpstreamEnds, BridgeFails

LEMMA TriedStep == IInv /\ Tried /\ [Next]_vars => Tried'
<1> SUFFICES ASSUME IInv, Tried, [Next]_vars
             PROVE  Tried'
  OBVIOUS
<1>1. CASE Handler \/ DockerAnswers
  BY <1>1, TriedHandled
<1>2. ASSUME NEW c \in Channel, NEW i \in DOMAIN tasks[c],
             \/ TaskShell(c, i) \/ TaskEnds(c, i) \/ ClientEnds(c, i)
             \/ UpstreamEnds(c, i) \/ BridgeFails(c, i)
      PROVE  Tried'
  BY <1>2, TriedTask
<1>3. CASE UNCHANGED <<setting, interrupted, tasks, trying>> /\ (container_up' => container_up)
  BY <1>3, TriedKept DEF Tried
<1>4. CASE \/ ContainerStops \/ Disconnect \/ UNCHANGED vars \/ SessionEnds
           \/ AuthNone \/ (\E k \in Key : AuthPublicKey(k))
           \/ (\E r \in Request : Ask(r)) \/ (\E c \in Channel : CloseChannel(c))
  BY <1>3, <1>4 DEF ContainerStops, Disconnect, SessionEnds, EndConnection, AuthNone, AuthPublicKey,
     Admit, Ask, CloseChannel, vars, containerVars, outside, taskVars
<1>5. CASE ContainerStarts
  BY <1>5, TriedRestart
<1>6. QED
  BY <1>1, <1>2, <1>4, <1>5 DEF Next

-----------------------------------------------------------------------------
(* The theorems.                                                           *)

\* Every reachable state has the declared type.
THEOREM TypeCorrect == Spec => []TypeOK
<1>1. IInv => TypeOK
  <2>1. SUFFICES ASSUME IInv
                 PROVE  TypeOK
    OBVIOUS
  <2>2. requests \in 0 .. MaxRequests /\ answers \in 0 .. MaxRequests
    BY <2>1, BoundAssumption DEF IInv, Counts
  <2>3. QED  BY <2>1, <2>2 DEF IInv, Shape, View, Tasks, Counts, TypeOK
<1>2. QED  BY <1>1, Invariance, PTL

\* Whatever a client asks for and in whichever order, a channel is given to one
\* task at most, and to none while the connection or a handler has it.
THEOREM OneOwner == Spec => []HandedOverOnce
<1>1. IInv => HandedOverOnce
  BY DEF IInv
<1>2. QED  BY <1>1, Invariance, PTL

\* No request is answered twice and none is dropped while the connection lives.
THEOREM OneAnswer == Spec => []AnsweredOnce
<1>1. IInv => AnsweredOnce
  BY DEF IInv, Counts, AnsweredOnce
<1>2. QED  BY <1>1, Invariance, PTL

\* What a client believes of its channels is what the session has.
THEOREM ClientsAreNotDeceived == Spec => []ToldTheTruth
<1>1. IInv => ToldTheTruth
  BY DEF IInv
<1>2. QED  BY <1>1, Invariance, PTL

\* A shell or a command gets the terminal that was granted last.
THEOREM TerminalArrives == Spec => []LastTerminal
<1>1. IInv => LastTerminal
  BY DEF IInv
<1>2. QED  BY <1>1, Invariance, PTL

\* With a file of keys, whichever it lists, only they open a connection.
THEOREM KeysOnly == Spec => []OnlyListedKeys
<1>1. IInv => OnlyListedKeys
  BY DEF IInv
<1>2. QED  BY <1>1, Invariance, PTL

\* However often the container stops and starts, the shell that is started is one
\* it has, the configured one if there is one, and else the first of the list
\* that it has, unless it was started while the list was tried.
THEOREM ShellInOrder == Spec => []FirstShell
<1>1. IInv /\ Tried => FirstShell
  <2>1. SUFFICES ASSUME IInv, Tried, NEW c \in Channel, NEW i \in DOMAIN tasks[c],
                        tasks[c][i].kind \in {"shell", "exec"}, tasks[c][i].stage = "running"
                 PROVE  /\ trying[c] # <<>>
                        /\ Head(trying[c]) \in setting.shells
                        /\ setting.shell \in {"none", Head(trying[c])}
                        /\ c \in interrupted \/ NoneBefore(c)
    BY DEF FirstShell, NoneBefore
  <2>2. i = 1 /\ tasks[c] # <<>> /\ trying[c] \in Seq(Shell) /\ Candidates \in Seq(Shell)
    BY <2>1, CandidatesAreShells DEF IInv, Shape, Tasks, HandedOverOnce
  <2>3. TriedInOrder(c)
    BY <2>1, <2>2 DEF Tried, ShellTask
  <2>4. trying[c] # <<>> /\ Head(trying[c]) = trying[c][1] /\ trying[c][1] \in setting.shells
    BY <2>1, <2>2, <2>3 DEF TriedInOrder
  <2>5. c \in interrupted \/ NoneBefore(c)
    BY <2>1, <2>2, <2>3 DEF TriedInOrder
  <2>6. CASE setting.shell # "none"
    <3>1. Len(Candidates) = 1 /\ Candidates[1] = setting.shell
      BY <2>6 DEF Candidates
    <3>2. trying[c][1] = setting.shell
      <4>1. trying[c][1] = Candidates[Len(Candidates) - Len(trying[c]) + 1]
        BY <2>2, <2>3, <2>4, EndFactsOfTail DEF TriedInOrder
      <4>2. Len(trying[c]) = 1
        BY <2>2, <2>3, <2>4, <3>1 DEF TriedInOrder, EndOf
      <4>3. QED  BY <3>1, <4>1, <4>2
    <3>3. QED  BY <2>4, <2>5, <3>2
  <2>7. CASE setting.shell = "none"
    BY <2>4, <2>5, <2>7
  <2>8. QED  BY <2>6, <2>7
<1>2. IInv /\ Tried /\ [Next]_vars => Tried'
  BY TriedStep
<1>3. QED  BY <1>1, <1>2, TriedStart, Invariance, PTL DEF Spec

\* Whatever a client asks for and whatever docker says, the session implements
\* ChannelContract.
THEOREM ImplementsContract == Spec => KeepsContract
<1>1. Init => Contract!Init
  BY DEF Init, Contract!Init, Hands, InHandler
<1>2. IInv /\ [Next]_vars => [Contract!Next]_(Contract!vars)
  <2>1. SUFFICES ASSUME IInv, [Next]_vars
                 PROVE  Contract!Next \/ UNCHANGED Contract!vars
    OBVIOUS
  <2>2. ASSUME NEW r \in Request, Ask(r)
        PROVE  Contract!Next
    <3>1. awaiting # "none" => Handled' = Handled
      BY <2>1, <2>2, AppendFacts, TailFacts DEF Ask, Handled, IInv, Awaits, Counts
    <3>2. [c \in Channel |-> Hands(c)]' = [c \in Channel |-> Hands(c)]
      <4>1. r.channel \in Channel
        BY RequestFacts
      <4>2. \A c \in Channel : view'[c] \in {"new", "opening"} <=> view[c] \in {"new", "opening"}
        BY <2>1, <2>2, <4>1 DEF Ask, IInv, Shape, Told
      <4>3. QED  BY <2>1, <2>2, <3>1, <4>2, AllHandsKept DEF Ask, taskVars
    <3>3. Contract!Ask(r)
      BY <2>2, <3>2 DEF Ask, Contract!Ask
    <3>4. QED  BY <3>3 DEF Contract!Next
  <2>3. ASSUME UNCHANGED <<requests, answers, queue, channels, awaiting, tasks>>,
               \A c \in Channel : view'[c] \in {"new", "opening"} <=> view[c] \in {"new", "opening"}
        PROVE  [c \in Channel |-> Hands(c)]' = [c \in Channel |-> Hands(c)]
    BY <2>1, <2>3, AllHandsKept DEF Handled
  <2>4. ASSUME NEW c \in Channel, CloseChannel(c)
        PROVE  UNCHANGED Contract!vars
    <3>1. \A d \in Channel : view'[d] \in {"new", "opening"} <=> view[d] \in {"new", "opening"}
      BY <2>1, <2>4 DEF CloseChannel, IInv, Shape, Told
    <3>2. QED  BY <2>3, <2>4, <3>1 DEF CloseChannel, Contract!vars, sessionVars, taskVars
  <2>5. CASE ContainerStops \/ ContainerStarts \/ Disconnect \/ UNCHANGED vars
    BY <2>3, <2>5 DEF ContainerStops, ContainerStarts, Disconnect, Contract!vars, vars, clientVars, sessionVars, taskVars
  <2>6. ASSUME NEW who, Admit(who)
        PROVE  Contract!Next
    BY <2>3, <2>6 DEF Admit, Contract!Admit, Contract!Next, taskVars
  <2>7. CASE SessionEnds
    BY <2>1, <2>7, EndStep DEF SessionEnds, Contract!Next
  <2>8. QED
    BY <2>1, <2>2, <2>4, <2>5, <2>6, <2>7, HandlerImplements, DockerImplements, TaskImplements
       DEF Next, AuthNone, AuthPublicKey
<1>3. QED  BY <1>1, <1>2, Invariance, PTL DEF Spec, KeepsContract, Contract!Spec

-----------------------------------------------------------------------------
(* Requests and tasks come to an end.                                      *)

\* What the handler of the first request can still ask docker for.
HandlerWork ==
    CASE awaiting = "none"    -> Len(Candidates) + 3
      [] awaiting = "shell"   -> Len(trying[Handled.channel]) + 2
      [] awaiting = "look_up" -> 2
      [] OTHER -> 1

\* The steps the task of a channel can still take.
TaskWork(c) ==
    CASE tasks[c][1].stage = "resolve" -> Len(trying[c]) + 2
      [] tasks[c][1].stage = "both"    -> 2
      [] tasks[c][1].stage = "over"    -> 0
      [] OTHER -> 1

\* Each step of a handler answers its request, ends the connection, or leaves
\* the handler fewer questions to docker than before, and nothing else that goes
\* on, neither requests that arrive nor tasks that try shells, gives it more.
\* (the handlers are awaited one after the other)
EachStepServes ==
    [][IF Handler \/ DockerAnswers
       THEN \/ phase' = "closed"
            \/ answers' = answers + 1
            \/ answers' = answers /\ HandlerWork' < HandlerWork
       ELSE phase' = "closed" \/ UNCHANGED <<answers, HandlerWork>>]_vars

\* Once a task has a channel, every step that concerns either brings the task
\* nearer to its end. (the spawned tasks; bridge_direct_tcpip)
EachStepEnds ==
    [][\A c \in Channel : tasks[c] # <<>> =>
           UNCHANGED <<tasks[c], trying[c]>> \/ TaskWork(c)' < TaskWork(c)]_vars

\* The steps of the handlers count.
LEMMA HandlerCounts ==
    ASSUME IInv, Handler
    PROVE  \/ phase' = "closed"
           \/ answers' = answers + 1
           \/ answers' = answers /\ HandlerWork' < HandlerWork
<1>1. phase = "open" /\ awaiting = "none" /\ queue # <<>>
  BY DEF Handler, TakesUp, ChannelOpenSession, ChannelOpenDirectTcpip, PtyRequest, EnvRequest,
     ShellRequest, ExecRequest, SubsystemRequest
<1>2. Candidates \in Seq(Shell) /\ Handled.channel \in Channel
  BY <1>1, CandidatesAreShells, HandledFacts DEF IInv, Shape
<1>3. Len(Candidates) \in Nat /\ HandlerWork = Len(Candidates) + 3
  BY <1>1, <1>2 DEF HandlerWork
<1>4. ASSUME NEW seen, Answer(seen)
      PROVE  answers' = answers + 1
  BY <1>4 DEF Answer
<1>5. EndConnection => phase' = "closed"
  BY DEF EndConnection
<1>6. ASSUME awaiting' \in {"look_up", "inspect"}
      PROVE  HandlerWork' < HandlerWork
  <2>1. HandlerWork' \in {1, 2}
    BY <1>6 DEF HandlerWork
  <2>2. QED  BY <1>3, <2>1
<1>7. ASSUME awaiting' = "shell", UNCHANGED queue,
             trying' = [trying EXCEPT ![Handled.channel] = Candidates]
      PROVE  HandlerWork' < HandlerWork
  <2>1. Handled' = Handled /\ trying'[Handled.channel] = Candidates
    BY <1>2, <1>7 DEF Handled, IInv, Tasks
  <2>2. HandlerWork' = Len(Candidates) + 2
    BY <1>7, <2>1 DEF HandlerWork
  <2>3. QED  BY <1>3, <2>2
<1>8. CASE ChannelOpenSession
  BY <1>4, <1>8 DEF ChannelOpenSession
<1>9. CASE ChannelOpenDirectTcpip
  BY <1>4, <1>6, <1>9 DEF ChannelOpenDirectTcpip
<1>10. CASE PtyRequest
  BY <1>4, <1>5, <1>10 DEF PtyRequest
<1>11. CASE EnvRequest
  BY <1>4, <1>11 DEF EnvRequest
<1>12. CASE ShellRequest
  BY <1>4, <1>5, <1>12 DEF ShellRequest, HandToShell
<1>13. CASE ExecRequest
  BY <1>4, <1>5, <1>6, <1>13 DEF ExecRequest, HandToShell
<1>14. CASE SubsystemRequest
  BY <1>4, <1>5, <1>7, <1>14 DEF SubsystemRequest
<1>15. QED
  BY <1>8, <1>9, <1>10, <1>11, <1>12, <1>13, <1>14 DEF Handler

\* The next shell leaves fewer to be tried.
LEMMA ProbedLeavesFewer ==
    ASSUME Tasks, NEW c \in Channel, Probed(c)
    PROVE  /\ trying'[c] \in Seq(Shell) /\ Len(trying[c]) \in Nat
           /\ Len(trying'[c]) = Len(trying[c]) - 1
<1>1. trying[c] \in Seq(Shell) /\ trying[c] # <<>> /\ trying'[c] = Tail(trying[c])
  BY DEF Tasks, Probed
<1>2. QED  BY <1>1, TailFacts

\* So do the answers of docker.
LEMMA DockerCounts ==
    ASSUME IInv, DockerAnswers
    PROVE  \/ phase' = "closed"
           \/ answers' = answers + 1
           \/ answers' = answers /\ HandlerWork' < HandlerWork
<1>1. queue # <<>> /\ awaiting # "none"
  BY DEF IInv, Awaits, DockerAnswers, LookedUp, Connected, Resolved, SftpShell, SftpServer
<1>2. Handled.channel \in Channel
  BY <1>1, HandledFacts DEF IInv
<1>3. trying[Handled.channel] \in Seq(Shell) /\ Len(trying[Handled.channel]) \in Nat
  BY <1>2 DEF IInv, Tasks
<1>4. ASSUME NEW seen, Refuse(seen)
      PROVE  answers' = answers + 1
  BY <1>4 DEF Refuse, Answer
<1>5. ASSUME NEW kind, NEW stage, HandOver(kind, stage)
      PROVE  answers' = answers + 1
  BY <1>5 DEF HandOver, Answer
<1>6. CASE LookedUp
  <2>1. CASE awaiting' = "connect"
    BY <1>6, <2>1 DEF LookedUp, HandlerWork, Refuse
  <2>2. QED  BY <1>4, <1>6, <2>1 DEF LookedUp
<1>7. CASE Connected
  BY <1>4, <1>5, <1>7 DEF Connected
<1>8. CASE Resolved
  BY <1>5, <1>8 DEF Resolved, EndConnection
<1>9. CASE SftpShell
  <2>1. awaiting = "shell" /\ HandlerWork = Len(trying[Handled.channel]) + 2
    BY <1>9 DEF SftpShell, HandlerWork
  <2>2. CASE Probed(Handled.channel) /\ UNCHANGED sessionVars
    <3>1. Handled' = Handled /\ awaiting' = "shell" /\ answers' = answers
      BY <2>1, <2>2 DEF Handled, sessionVars
    <3>2. HandlerWork' = Len(trying'[Handled.channel]) + 2
      BY <3>1 DEF HandlerWork
    <3>3. Len(trying'[Handled.channel]) = Len(trying[Handled.channel]) - 1
      BY <1>2, <2>2, ProbedLeavesFewer DEF IInv
    <3>4. QED  BY <1>3, <2>1, <3>1, <3>2, <3>3
  <2>3. CASE awaiting' = "server" /\ answers' = answers
    <3>1. HandlerWork' = 1
      BY <2>3 DEF HandlerWork
    <3>2. QED  BY <1>3, <2>1, <2>3, <3>1
  <2>4. QED  BY <1>4, <1>9, <2>2, <2>3 DEF SftpShell
<1>10. CASE SftpServer
  BY <1>4, <1>5, <1>10 DEF SftpServer
<1>11. QED  BY <1>6, <1>7, <1>8, <1>9, <1>10 DEF DockerAnswers

\* The work of a task at each of its stages, before a step and after it.
LEMMA WorkOfStage ==
    ASSUME NEW c \in Channel
    PROVE  /\ tasks[c][1].stage = "both" => TaskWork(c) = 2
           /\ tasks[c][1].stage \in {"running", "to_client", "to_upstream"} => TaskWork(c) = 1
           /\ tasks'[c][1].stage = "over" => TaskWork(c)' = 0
           /\ tasks'[c][1].stage \in {"running", "to_client", "to_upstream"} => TaskWork(c)' = 1
<1>1. tasks[c][1].stage = "both" => TaskWork(c) = 2
  BY DEF TaskWork
<1>2. ASSUME tasks[c][1].stage \in {"running", "to_client", "to_upstream"}
      PROVE  TaskWork(c) = 1
  <2>1. tasks[c][1].stage \notin {"resolve", "both", "over"}
    BY <1>2
  <2>2. QED  BY <2>1 DEF TaskWork
<1>3. tasks'[c][1].stage = "over" => TaskWork(c)' = 0
  BY DEF TaskWork
<1>4. ASSUME tasks'[c][1].stage \in {"running", "to_client", "to_upstream"}
      PROVE  TaskWork(c)' = 1
  <2>1. tasks'[c][1].stage \notin {"resolve", "both", "over"}
    BY <1>4
  <2>2. QED  BY <2>1 DEF TaskWork
<1>5. QED  BY <1>1, <1>2, <1>3, <1>4

\* A task of a channel takes a step: it has fewer before it, and no other channel
\* and no handler notices.
LEMMA TaskCounts ==
    ASSUME IInv, NEW c \in Channel, NEW i \in DOMAIN tasks[c],
           \/ TaskShell(c, i) \/ TaskEnds(c, i) \/ ClientEnds(c, i)
           \/ UpstreamEnds(c, i) \/ BridgeFails(c, i)
    PROVE  /\ TaskWork(c)' < TaskWork(c)
           /\ \A d \in Channel : d # c => tasks'[d] = tasks[d] /\ trying'[d] = trying[d]
           /\ tasks[c] # <<>> /\ UNCHANGED <<setting, queue, answers, awaiting>>
<1>1. /\ tasks[c] \in Seq(TaskType) /\ trying[c] \in Seq(Shell) /\ i = 1 /\ tasks[c] # <<>>
      /\ tasks[c][1] \in TaskType /\ Len(trying[c]) \in Nat
  BY DEF IInv, Tasks, HandedOverOnce
<1>2. /\ UNCHANGED <<setting, queue, answers, awaiting>>
      /\ \A d \in Channel : d # c => tasks'[d] = tasks[d] /\ trying'[d] = trying[d]
  BY DEF TaskShell, TaskEnds, ClientEnds, UpstreamEnds, BridgeFails, Stage, Probed, outside,
     sessionVars, IInv, Tasks
<1>. SUFFICES TaskWork(c)' < TaskWork(c)
  BY <1>1, <1>2
<1>3. ASSUME NEW stage, Stage(c, 1, stage)
      PROVE  tasks'[c][1].stage = stage
  <2>1. tasks'[c] = [tasks[c] EXCEPT ![1] = [tasks[c][1] EXCEPT !.stage = stage]]
    BY <1>3 DEF Stage, IInv, Tasks
  <2>2. tasks'[c][1] = [tasks[c][1] EXCEPT !.stage = stage]
    BY <1>1, <2>1
  <2>3. QED  BY <1>1, <2>2 DEF TaskType
<1>4. CASE TaskShell(c, 1)
  <2>1. TaskWork(c) = Len(trying[c]) + 2
    BY <1>4 DEF TaskShell, TaskWork
  <2>2. CASE Probed(c) /\ UNCHANGED tasks
    <3>1. TaskWork(c)' = Len(trying'[c]) + 2
      BY <1>4, <2>2 DEF TaskShell, TaskWork
    <3>2. Len(trying'[c]) = Len(trying[c]) - 1
      BY <2>2, ProbedLeavesFewer DEF IInv
    <3>3. QED  BY <1>1, <2>1, <3>1, <3>2
  <2>3. CASE Stage(c, 1, "running") \/ Stage(c, 1, "over")
    <3>1. tasks'[c][1].stage \in {"running", "over"}
      BY <1>3, <2>3
    <3>2. TaskWork(c)' \in {0, 1}
      BY <3>1, WorkOfStage
    <3>3. QED  BY <1>1, <2>1, <3>2
  <2>4. QED  BY <1>4, <2>2, <2>3 DEF TaskShell
<1>5. CASE TaskEnds(c, 1) \/ BridgeFails(c, 1)
  <2>1. Stage(c, 1, "over") /\ tasks[c][1].stage \in {"running", "both", "to_client", "to_upstream"}
    BY <1>5 DEF TaskEnds, BridgeFails
  <2>2. TaskWork(c)' = 0 /\ TaskWork(c) \in {1, 2}
    BY <1>3, <2>1, WorkOfStage
  <2>3. QED  BY <2>2
<1>6. CASE ClientEnds(c, 1) \/ UpstreamEnds(c, 1)
  <2>1. CASE tasks[c][1].stage = "both"
    <3>1. Stage(c, 1, "to_client") \/ Stage(c, 1, "to_upstream")
      BY <1>6, <2>1 DEF ClientEnds, UpstreamEnds
    <3>2. TaskWork(c) = 2 /\ TaskWork(c)' = 1
      BY <1>3, <2>1, <3>1, WorkOfStage
    <3>3. QED  BY <3>2
  <2>2. CASE tasks[c][1].stage # "both"
    <3>1. Stage(c, 1, "over") /\ tasks[c][1].stage \in {"to_client", "to_upstream"}
      BY <1>6, <2>2 DEF ClientEnds, UpstreamEnds
    <3>2. TaskWork(c) = 1 /\ TaskWork(c)' = 0
      BY <1>3, <3>1, WorkOfStage
    <3>3. QED  BY <3>2
  <2>3. QED  BY <2>1, <2>2
<1>7. QED  BY <1>1, <1>2, <1>4, <1>5, <1>6

\* The channel whose request is handled has no task, and the handlers leave all
\* others alone.
LEMMA HandlersSpareTasks ==
    ASSUME IInv, Handler \/ DockerAnswers, NEW d \in Channel, tasks[d] # <<>>
    PROVE  UNCHANGED <<tasks[d], trying[d]>>
<1>1. phase = "open" /\ queue # <<>>
  BY DEF Handler, TakesUp, ChannelOpenSession, ChannelOpenDirectTcpip, PtyRequest, EnvRequest,
     ShellRequest, ExecRequest, SubsystemRequest, DockerAnswers, LookedUp, Connected, Resolved,
     SftpShell, SftpServer, IInv, Awaits
<1>2. PICK c \in Channel : c = Handled.channel
  BY <1>1, HandledFacts DEF IInv
<1>3. d # c => UNCHANGED <<tasks[d], trying[d]>>
  BY <1>2 DEF Handler, ChannelOpenSession, ChannelOpenDirectTcpip, PtyRequest, EnvRequest,
     ShellRequest, ExecRequest, SubsystemRequest, DockerAnswers, LookedUp, Connected, Resolved,
     SftpShell, SftpServer, HandOver, Refuse, EndConnection, HandToShell, Spawn, Probed,
     taskVars, IInv, Tasks
<1>4. CASE d = c
  <2>1. c \notin channels /\ awaiting = "none"
    BY <1>2, <1>4 DEF IInv, HandedOverOnce, InHandler
  <2>2. Handler
    BY <2>1 DEF DockerAnswers, LookedUp, Connected, Resolved, SftpShell, SftpServer
  <2>3. QED
    BY <1>2, <1>4, <2>1, <2>2 DEF Handler, ChannelOpenSession, ChannelOpenDirectTcpip, PtyRequest,
       EnvRequest, ShellRequest, ExecRequest, SubsystemRequest, EndConnection, taskVars
<1>5. QED  BY <1>3, <1>4

\* Requests that arrive, tasks, the client and the container leave a handler the
\* work it has.
LEMMA OthersDoNotDelay ==
    ASSUME IInv, [Next]_vars, ~(Handler \/ DockerAnswers)
    PROVE  phase' = "closed" \/ UNCHANGED <<answers, HandlerWork>>
<1>0. awaiting = "shell" => queue # <<>> /\ InHandler(Handled.channel) /\ Handled.channel \in Channel
  BY HandledFacts DEF IInv, Awaits, InHandler
<1>1. ASSUME UNCHANGED <<setting, answers, awaiting>>,
             awaiting = "shell" => /\ Handled' = Handled
                                   /\ trying'[Handled.channel] = trying[Handled.channel]
      PROVE  UNCHANGED <<answers, HandlerWork>>
  BY <1>1 DEF HandlerWork, Candidates, DefaultShells
<1>2. ASSUME NEW c \in Channel, NEW i \in DOMAIN tasks[c],
             \/ TaskShell(c, i) \/ TaskEnds(c, i) \/ ClientEnds(c, i)
             \/ UpstreamEnds(c, i) \/ BridgeFails(c, i)
      PROVE  UNCHANGED <<answers, HandlerWork>>
  <2>1. /\ \A d \in Channel : d # c => trying'[d] = trying[d]
        /\ tasks[c] # <<>> /\ UNCHANGED <<setting, queue, answers, awaiting>>
    BY <1>2, TaskCounts
  <2>2. awaiting = "shell" => Handled.channel # c
    BY <1>0, <2>1 DEF IInv, HandedOverOnce
  <2>3. QED  BY <1>0, <1>1, <2>1, <2>2 DEF Handled
<1>3. ASSUME NEW r \in Request, Ask(r)
      PROVE  UNCHANGED <<answers, HandlerWork>>
  <2>1. queue # <<>> => Handled' = Handled
    BY <1>3, AppendFacts, TailFacts DEF Ask, Handled, IInv, Counts
  <2>2. QED  BY <1>0, <1>1, <1>3, <2>1 DEF Ask, taskVars
<1>4. CASE SessionEnds
  BY <1>4 DEF SessionEnds, EndConnection
<1>5. CASE \/ ContainerStops \/ ContainerStarts \/ Disconnect \/ UNCHANGED vars
           \/ AuthNone \/ (\E k \in Key : AuthPublicKey(k)) \/ (\E c \in Channel : CloseChannel(c))
  <2>1. UNCHANGED <<setting, queue, answers, awaiting, trying>>
    BY <1>5 DEF ContainerStops, ContainerStarts, Disconnect, AuthNone, AuthPublicKey, Admit, CloseChannel, vars,
       clientVars, sessionVars, taskVars
  <2>2. QED  BY <1>1, <2>1 DEF Handled
<1>6. QED  BY <1>2, <1>3, <1>4, <1>5 DEF Next

\* Whatever the client asks for meanwhile, a handler asks docker a bounded number
\* of questions, and a task that has a channel takes a bounded number of steps.
THEOREM WorkIsBounded == Spec => EachStepServes /\ EachStepEnds
<1> DEFINE Serves == IF Handler \/ DockerAnswers
                     THEN \/ phase' = "closed"
                          \/ answers' = answers + 1
                          \/ answers' = answers /\ HandlerWork' < HandlerWork
                     ELSE phase' = "closed" \/ UNCHANGED <<answers, HandlerWork>>
           Ends == \A c \in Channel : tasks[c] # <<>> =>
                      UNCHANGED <<tasks[c], trying[c]>> \/ TaskWork(c)' < TaskWork(c)
<1>1. IInv /\ [Next]_vars => [Serves]_vars
  BY HandlerCounts, DockerCounts, OthersDoNotDelay
<1>2. IInv /\ [Next]_vars => [Ends]_vars
  <2>1. SUFFICES ASSUME IInv, [Next]_vars, NEW d \in Channel, tasks[d] # <<>>
                 PROVE  UNCHANGED <<tasks[d], trying[d]>> \/ TaskWork(d)' < TaskWork(d)
    OBVIOUS
  <2>2. ASSUME NEW c \in Channel, NEW i \in DOMAIN tasks[c],
               \/ TaskShell(c, i) \/ TaskEnds(c, i) \/ ClientEnds(c, i)
               \/ UpstreamEnds(c, i) \/ BridgeFails(c, i)
        PROVE  UNCHANGED <<tasks[d], trying[d]>> \/ TaskWork(d)' < TaskWork(d)
    BY <2>1, <2>2, TaskCounts
  <2>3. CASE Handler \/ DockerAnswers
    BY <2>1, <2>3, HandlersSpareTasks
  <2>4. CASE UNCHANGED taskVars
    BY <2>4 DEF taskVars
  <2>5. QED
    BY <2>1, <2>2, <2>3, <2>4 DEF Next, ContainerStops, ContainerStarts, Disconnect, AuthNone, AuthPublicKey, Admit,
       Ask, CloseChannel, SessionEnds, EndConnection, vars
<1>3. QED  BY <1>1, <1>2, Invariance, PTL DEF Spec, EachStepServes, EachStepEnds
=============================================================================
