-------------------------- MODULE ChannelContract --------------------------
(***************************************************************************)
(* What a connection promises of its channels, whatever the handlers do    *)
(* meanwhile: a channel passes from hand to hand, in one direction only.   *)
(* It is nobody's, then the session's, then perhaps in the hands of a      *)
(* handler that awaits something, then a task's, then over.  Requests are  *)
(* answered in the order they were made, each once; the answer to a        *)
(* request, and only that, may move the request's channel, and no other.   *)
(* SshSession implements this module.                                      *)
(***************************************************************************)
EXTENDS Naturals, Sequences

CONSTANTS
    Channel,   \* channels of the connection
    Request    \* requests: records with a kind and a channel, among others

VARIABLES
    phase,     \* "auth", "open" or "closed"
    queue,     \* requests not yet answered
    hands,     \* hands[c]: who has channel c
    asked,     \* requests made
    answered   \* requests answered

vars == <<phase, queue, hands, asked, answered>>

Handled == Head(queue)

\* The hands in which the handler of a request of this kind may leave the
\* channel it found in these hands.  No hands: there is no answer, and the
\* connection ends.
MayLeaveIn(kind, found) ==
    CASE kind = "session" /\ found = "nobody" -> {"session"}
      [] kind = "direct_port_too_big" /\ found = "nobody" -> {"over"}
      [] kind = "pty" /\ found = "session" -> {"session"}
      [] kind \in {"shell", "exec"} /\ found = "session" -> {"task"}
      [] kind = "dial_stdio" /\ found = "handler" -> {"task"}
      [] kind \in {"direct", "sftp"} /\ found = "handler" -> {"task", "over"}
      [] kind \in {"env", "other_subsystem"} -> {found}
      [] OTHER -> {}

Admit ==
    /\ phase = "auth"
    /\ phase' = "open"
    /\ UNCHANGED <<queue, hands, asked, answered>>

Ask(r) ==
    /\ phase = "open"
    /\ queue' = Append(queue, r)
    /\ asked' = asked + 1
    /\ UNCHANGED <<phase, hands, answered>>

\* The handler keeps the channel while it awaits something.
Keep ==
    /\ phase = "open" /\ queue # <<>>
    /\ \/ Handled.kind = "direct" /\ hands[Handled.channel] = "nobody"
       \/ Handled.kind \in {"dial_stdio", "sftp"} /\ hands[Handled.channel] = "session"
    /\ hands' = [hands EXCEPT ![Handled.channel] = "handler"]
    /\ UNCHANGED <<phase, queue, asked, answered>>

Return ==
    /\ phase = "open" /\ queue # <<>>
    /\ \E left \in MayLeaveIn(Handled.kind, hands[Handled.channel]) :
           hands' = [hands EXCEPT ![Handled.channel] = left]
    /\ queue' = Tail(queue)
    /\ answered' = answered + 1
    /\ UNCHANGED <<phase, asked>>

TaskEnds(c) ==
    /\ hands[c] = "task"
    /\ hands' = [hands EXCEPT ![c] = "over"]
    /\ UNCHANGED <<phase, queue, asked, answered>>

\* The connection ends.  Tasks go on until they notice.
End ==
    /\ phase # "closed"
    /\ phase' = "closed"
    /\ queue' = <<>>
    /\ hands' = [c \in Channel |->
                    IF hands[c] \in {"session", "handler"} THEN "over" ELSE hands[c]]
    /\ UNCHANGED <<asked, answered>>

Init ==
    /\ phase = "auth"
    /\ queue = <<>>
    /\ hands = [c \in Channel |-> "nobody"]
    /\ asked = 0
    /\ answered = 0

Next ==
    \/ Admit
    \/ \E r \in Request : Ask(r)
    \/ Keep
    \/ Return
    \/ \E c \in Channel : TaskEnds(c)
    \/ End

Spec == Init /\ [][Next]_vars
=============================================================================
