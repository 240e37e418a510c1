----------------------------- MODULE DockerProxy -----------------------------
(***************************************************************************)
(* The docker API of one container (src/src/proxy.rs and                   *)
(* sanitize_path_for_container in src/src/docker.rs).  A channel resolves  *)
(* its container once; every HTTP request on it is checked, rewritten to   *)
(* the id resolved and passed on to the engine, one at a time.             *)
(*                                                                         *)
(* A path is a record: how many version prefixes it has, which kind it is, *)
(* and of /containers/<ref>/<suffix> the ref and whether there is a        *)
(* suffix.  "engine" stands for the allowed prefixes, the paths of which    *)
(* are passed on as they are: there the ref is the container that the path,*)
(* the query or the body names, if any.  "other" stands for the rest.      *)
(***************************************************************************)
EXTENDS DockerEngine

CONSTANTS
    Proxy,        \* channels that ask for the docker API
    ProxyTo,      \* what mappings call their containers
    ShortLength,  \* characters of a short id (12)
    Query         \* paths of requests

ASSUME LengthAssumption == ShortLength \in Nat \ {0}
ASSUME ProxyToAssumption == ProxyTo \subseteq Seq(STRING)

Kind == {"list", "container", "engine", "root", "other"}
Path == [versions : Nat, kind : Kind, ref : Seq(STRING), suffix : BOOLEAN, query : BOOLEAN]
ASSUME QueryAssumption == Query \subseteq Path

VARIABLES
    state,    \* state[p]: "closed", "ready" or "waiting" for the engine
    resolved, \* resolved[p]: container_id, accepted_refs, and which of them is the name
    passed,   \* passed[p]: the path passed on to the engine
    status,   \* status[p]: the last answer
    acted     \* acted[p]: what the engine has done for the last request it
              \* had: of which kind it was, and on which container it acted

proxyVars == <<state, resolved, passed, status, acted>>

Unresolved == [id |-> NoId, name |-> NoId, refs |-> {}]
NoPath == [versions |-> 0, kind |-> "root", ref |-> NoId, suffix |-> FALSE, query |-> FALSE]

-----------------------------------------------------------------------------
\* What is still a version prefix after this does not pass.
StripVersionPrefix(q) == IF q.versions > 0 THEN [q EXCEPT !.versions = @ - 1] ELSE q

\* Mutant: a reference is an id or a name in full.
RefMatchesFull(ref, t) == ref \in t.refs

\* Equal, or one the beginning of the other.
ContainerRefMatches(ref, t) ==
    \/ IsPrefix(ref, t.id)
    \/ \E c \in t.refs : IsPrefix(ref, c) \/ IsPrefix(c, ref)

Passes(q, t) ==
    /\ q.versions = 0
    /\ \/ q.kind \in {"list", "engine", "root"}
       \/ q.kind = "container" /\ q.suffix /\ ContainerRefMatches(q.ref, t)

\* Mutant: the reference stays as the client wrote it.
RewrittenNot(q, t) == q

\* The list is filtered by the id, whatever was asked.
Rewritten(q, t) ==
    CASE q.kind = "list" -> [q EXCEPT !.ref = t.id, !.query = FALSE]
      [] q.kind = "container" -> [q EXCEPT !.ref = t.id]
      [] OTHER -> q

NameOf(i) == CHOOSE n \in Name : names[n] = i

ShortId(i) == SubSeq(i, 1, IF Len(i) < ShortLength THEN Len(i) ELSE ShortLength)

\* ProxyTarget::resolve, in the handler of the exec request.
Resolve(p, ref) ==
    /\ state[p] = "closed" /\ resolved[p] = Unresolved
    /\ \E i \in Id :
          /\ InspectContainer(ref, i)
          /\ resolved' = [resolved EXCEPT ![p] =
                [id |-> i, name |-> NameOf(i), refs |-> {ref, i, ShortId(i), NameOf(i)}]]
    /\ state' = [state EXCEPT ![p] = "ready"]
    /\ UNCHANGED <<passed, status, acted>>

\* handle_request: a path that does not pass is answered here.
HandleRequest(p, q) ==
    /\ state[p] = "ready"
    /\ LET n == StripVersionPrefix(q) IN
       IF Passes(n, resolved[p])
       THEN /\ passed' = [passed EXCEPT ![p] = Rewritten(n, resolved[p])]
            /\ state' = [state EXCEPT ![p] = "waiting"]
            /\ UNCHANGED status
       ELSE status' = [status EXCEPT ![p] = "forbidden"] /\ UNCHANGED <<passed, state>>
    /\ UNCHANGED <<resolved, acted>>

Respond(p, with) ==
    /\ status' = [status EXCEPT ![p] = with]
    /\ state' = [state EXCEPT ![p] = "ready"]
    /\ UNCHANGED <<resolved, passed>>

\* What the engine does for the request on its way.
Acts(p) == {[kind |-> passed[p].kind, id |-> i] : i \in {Finds(passed[p].ref)} \ {NoId}}

\* DockerBackend::request.  The engine acts on the container that is named.
BackendRequest(p) ==
    /\ state[p] = "waiting"
    /\ IF reachable
       THEN /\ acted' = [acted EXCEPT ![p] = Acts(p)]
            /\ Respond(p, "of_engine")
       ELSE UNCHANGED acted /\ Respond(p, "bad_gateway")

\* The client has no more requests.
Close(p) ==
    /\ state[p] = "ready"
    /\ state' = [state EXCEPT ![p] = "closed"]
    /\ UNCHANGED <<resolved, passed, status, acted>>

-----------------------------------------------------------------------------
ProxyInit ==
    /\ state = [p \in Proxy |-> "closed"]
    /\ resolved = [p \in Proxy |-> Unresolved]
    /\ passed = [p \in Proxy |-> NoPath]
    /\ status = [p \in Proxy |-> "none"]
    /\ acted = [p \in Proxy |-> {}]

ProxyStep(p) ==
    (\E q \in Query : HandleRequest(p, q)) \/ BackendRequest(p) \/ Close(p)

ProxyTypeOK ==
    /\ state \in [Proxy -> {"closed", "ready", "waiting"}]
    /\ resolved \in [Proxy -> [id : Id \cup {NoId}, name : Name \cup {NoId},
                              refs : SUBSET Seq(STRING)]]
    /\ passed \in [Proxy -> Path]
    /\ status \in [Proxy -> {"none", "forbidden", "of_engine", "bad_gateway"}]
    /\ acted \in [Proxy -> SUBSET [kind : Kind, id : Id]]

-----------------------------------------------------------------------------
(* Properties                                                              *)

\* For a request under /containers/ the engine acts on no container but the one
\* the channel was opened for, also when another one has come in its place under
\* its name.  (Nothing is said of the paths that are passed on as they are.)
\* (Rewritten paths in sanitize_path_for_container; src/README.md:71)
ActsOnTarget ==
    \A p \in Proxy : \A act \in acted[p] :
        act.kind \in {"list", "container"} => act.id = resolved[p].id

\* Whatever the engine would take for the container of the channel is taken
\* for it by the proxy: its name, its id, and every beginning of the id, as
\* long as it has not been renamed. (container_ref_matches)
KnowsItsOwn ==
    \A p \in Proxy : \A q \in Query :
        /\ resolved[p].id # NoId /\ q.kind = "container"
        /\ Finds(q.ref) = resolved[p].id
        /\ names[resolved[p].name] = resolved[p].id
        => ContainerRefMatches(q.ref, resolved[p])
=============================================================================
