-------------------------- MODULE AttachedProcess --------------------------
(***************************************************************************)
(* A `docker exec` process attached to a channel of an SSH connection      *)
(* (run_attached_process in src/src/ssh_server.rs), with pipes or with a   *)
(* PTY.  One task carries the client's data to the process, one per output *)
(* stream carries its output to the client, and the main task waits for    *)
(* the process to exit and for the output to be carried before it sends    *)
(* the exit status, EOF and close.                                         *)
(*                                                                         *)
(* Data is counted in chunks.  A pipe, the terminal and the channel's      *)
(* window hold a bounded number of them, so every writer can block.        *)
(***************************************************************************)
EXTENDS Naturals, Sequences

CONSTANTS
    Modes,        \* of {"pipes", "pty"}: how processes are attached
    Programs,     \* of {"eof", "command", "nothing"}: what programs wait for
    PipeSize,     \* chunks a pipe or a terminal holds
    MaxWindow,    \* chunks the client lets the server send ahead
    MaxInput,     \* bound: chunks the client sends
    MaxOutput     \* bound: chunks the program writes to each stream

ASSUME SizeAssumption ==
    /\ PipeSize \in Nat \ {0}
    /\ MaxWindow \in Nat \ {0}
    /\ MaxInput \in Nat
    /\ MaxOutput \in Nat
ASSUME KindAssumption ==
    /\ Modes \subseteq {"pipes", "pty"}
    /\ Programs \subseteq {"eof", "command", "nothing"}

Stream == {"stdout", "stderr"}

VARIABLES
    mode,        \* how the process is attached
    \* the client
    connected,   \* its connection stands
    typed,       \* chunks it has sent
    eof,         \* it has sent EOF or closed the channel
    inbox,       \* chunks on their way to the stdin task
    window,      \* chunks the server may still send
    received,    \* received[s]: chunks of stream s sent to the client
    reported,    \* the messages sent to it at the end
    \* the process
    program,     \* what it waits for before it exits
    running,     \* it has not exited
    doing,       \* the call it is in
    got,         \* chunks it has read
    eof_seen,    \* it has read the end of its input
    todo,        \* todo[s]: chunks it has still to write to stream s
    written,     \* written[s]: chunks it has written to stream s
    \* the daemon and the kernel's buffers
    stdin_task, stdin_buf,   \* the stdin task, chunks in stdin
    pump, out_buf,           \* pump[s]: the task of stream s, out_buf[s]: its buffer
    main                     \* the main task

clientVars == <<connected, typed, eof>>
programVars == <<program, running, doing, got, eof_seen, todo, written>>
vars == <<mode, connected, typed, eof, inbox, window, received, reported,
          program, running, doing, got, eof_seen, todo, written,
          stdin_task, stdin_buf, pump, out_buf, main>>

-----------------------------------------------------------------------------
(* The client.                                                             *)

Type ==
    /\ connected /\ ~eof /\ typed < MaxInput
    /\ typed' = typed + 1
    /\ inbox' = inbox + 1
    /\ UNCHANGED <<mode, connected, eof, window, received, reported, programVars,
                   stdin_task, stdin_buf, pump, out_buf, main>>

SendEof ==
    /\ connected /\ ~eof
    /\ eof' = TRUE
    /\ UNCHANGED <<mode, connected, typed, inbox, window, received, reported, programVars,
                   stdin_task, stdin_buf, pump, out_buf, main>>

\* It reads what it was sent and lets the server send more.
AdjustWindow ==
    /\ connected /\ window < MaxWindow
    /\ window' = window + 1
    /\ UNCHANGED <<mode, clientVars, inbox, received, reported, programVars,
                   stdin_task, stdin_buf, pump, out_buf, main>>

Disconnect ==
    /\ connected
    /\ connected' = FALSE
    /\ UNCHANGED <<mode, typed, eof, inbox, window, received, reported, programVars,
                   stdin_task, stdin_buf, pump, out_buf, main>>

-----------------------------------------------------------------------------
(* The stdin task.                                                         *)

StdinReceive ==
    /\ stdin_task = "wait" /\ inbox > 0
    /\ inbox' = inbox - 1
    /\ stdin_task' = "write"
    /\ UNCHANGED <<mode, clientVars, window, received, reported, programVars,
                   stdin_buf, pump, out_buf, main>>

\* Mutant: a channel that is gone is taken for one without data.
StdinEofOnly ==
    /\ stdin_task = "wait" /\ inbox = 0 /\ eof
    /\ stdin_task' = "closed"
    /\ UNCHANGED <<mode, clientVars, inbox, window, received, reported, programVars,
                   stdin_buf, pump, out_buf, main>>

\* Mutant: EOF overtakes the data sent before it.
StdinEofFirst ==
    /\ stdin_task = "wait" /\ (eof \/ ~connected)
    /\ stdin_task' = "closed"
    /\ UNCHANGED <<mode, clientVars, inbox, window, received, reported, programVars,
                   stdin_buf, pump, out_buf, main>>

\* EOF, or a channel that is gone.  The pipe is closed; of a terminal only one
\* of two descriptors of the master goes, which its other side does not notice.
StdinEof ==
    /\ stdin_task = "wait" /\ inbox = 0 /\ (eof \/ ~connected)
    /\ stdin_task' = "closed"
    /\ UNCHANGED <<mode, clientVars, inbox, window, received, reported, programVars,
                   stdin_buf, pump, out_buf, main>>

\* A pipe nobody reads any more is an error; a terminal is kept open by the
\* slave descriptors in `cmd`.
StdinWrite ==
    /\ stdin_task = "write"
    /\ IF mode = "pipes" /\ ~running
       THEN stdin_task' = "closed" /\ UNCHANGED stdin_buf
       ELSE /\ stdin_buf < PipeSize
            /\ stdin_buf' = stdin_buf + 1
            /\ stdin_task' = "wait"
    /\ UNCHANGED <<mode, clientVars, inbox, window, received, reported, programVars,
                   pump, out_buf, main>>

\* The process reads the end of its input when nothing is left in a pipe whose
\* writer is gone.
InputEnded == mode = "pipes" /\ stdin_task = "closed" /\ stdin_buf = 0

-----------------------------------------------------------------------------
(* The process.                                                            *)

WaitsForInput ==
    \/ program = "eof" /\ ~eof_seen
    \/ program = "command" /\ got = 0 /\ ~eof_seen

\* It enters a system call, and stays in it until the call returns.
Call(what) ==
    /\ running /\ doing = "none"
    /\ \/ what = "read" /\ WaitsForInput
       \/ what \in Stream /\ todo[what] > 0
    /\ doing' = what
    /\ UNCHANGED <<mode, clientVars, inbox, window, received, reported,
                   program, running, got, eof_seen, todo, written,
                   stdin_task, stdin_buf, pump, out_buf, main>>

Read ==
    /\ running /\ doing = "read"
    /\ \/ stdin_buf > 0 /\ stdin_buf' = stdin_buf - 1 /\ got' = got + 1
          /\ UNCHANGED eof_seen
       \/ InputEnded /\ eof_seen' = TRUE /\ UNCHANGED <<stdin_buf, got>>
    /\ doing' = "none"
    /\ UNCHANGED <<mode, clientVars, inbox, window, received, reported,
                   program, running, todo, written, stdin_task, pump, out_buf, main>>

\* Writing to a pipe whose reader is gone kills the process.
Write(s) ==
    /\ running /\ doing = s
    /\ IF mode = "pipes" /\ pump[s] \in {"done", "failed"}
       THEN running' = FALSE /\ UNCHANGED <<todo, written, out_buf>>
       ELSE /\ out_buf[s] < PipeSize
            /\ out_buf' = [out_buf EXCEPT ![s] = @ + 1]
            /\ todo' = [todo EXCEPT ![s] = @ - 1]
            /\ written' = [written EXCEPT ![s] = @ + 1]
            /\ UNCHANGED running
    /\ doing' = "none"
    /\ UNCHANGED <<mode, clientVars, inbox, window, received, reported,
                   program, got, eof_seen, stdin_task, stdin_buf, pump, main>>

ProgramExits ==
    /\ running /\ doing = "none"
    /\ ~WaitsForInput
    /\ \A s \in Stream : todo[s] = 0
    /\ running' = FALSE
    /\ UNCHANGED <<mode, clientVars, inbox, window, received, reported,
                   program, doing, got, eof_seen, todo, written,
                   stdin_task, stdin_buf, pump, out_buf, main>>

\* The container stops, somebody kills the process, or its terminal hangs up.
ProgramKilled ==
    /\ running
    /\ running' = FALSE
    /\ doing' = "none"
    /\ UNCHANGED <<mode, clientVars, inbox, window, received, reported,
                   program, got, eof_seen, todo, written,
                   stdin_task, stdin_buf, pump, out_buf, main>>

-----------------------------------------------------------------------------
(* The stdout and stderr tasks.  With a PTY there is only the first.       *)

\* Mutant: stderr is read when stdout has ended.
ReadableInTurn(s) ==
    pump[s] = "read" /\ out_buf[s] > 0 /\ (s = "stderr" => pump["stdout"] = "done")

\* Each stream has a task of its own, which waits for this stream only.
Readable(s) == pump[s] = "read" /\ out_buf[s] > 0

PumpRead(s) ==
    /\ Readable(s)
    /\ out_buf' = [out_buf EXCEPT ![s] = @ - 1]
    /\ pump' = [pump EXCEPT ![s] = "send"]
    /\ UNCHANGED <<mode, clientVars, inbox, window, received, reported, programVars,
                   stdin_task, stdin_buf, main>>

\* Mutant: the writer does not wait for the window.
PumpSendAtOnce(s) ==
    /\ pump[s] = "send"
    /\ window' = window - 1
    /\ received' = [received EXCEPT ![s] = @ + 1]
    /\ pump' = [pump EXCEPT ![s] = "read"]
    /\ UNCHANGED <<mode, clientVars, inbox, reported, programVars,
                   stdin_task, stdin_buf, out_buf, main>>

\* The writer waits for the window, and fails when the connection is gone.
PumpSend(s) ==
    /\ pump[s] = "send"
    /\ IF connected
       THEN /\ window > 0
            /\ window' = window - 1
            /\ received' = [received EXCEPT ![s] = @ + 1]
            /\ pump' = [pump EXCEPT ![s] = "read"]
       ELSE /\ pump' = [pump EXCEPT ![s] = "failed"]
            /\ UNCHANGED <<window, received>>
    /\ UNCHANGED <<mode, clientVars, inbox, reported, programVars,
                   stdin_task, stdin_buf, out_buf, main>>

\* A pipe ends when its writer is gone; a terminal does not, because `cmd`
\* still holds descriptors of the slave.
PumpEnd(s) ==
    /\ pump[s] = "read" /\ out_buf[s] = 0
    /\ mode = "pipes" /\ ~running
    /\ pump' = [pump EXCEPT ![s] = "done"]
    /\ UNCHANGED <<mode, clientVars, inbox, window, received, reported, programVars,
                   stdin_task, stdin_buf, out_buf, main>>

-----------------------------------------------------------------------------
(* The main task.                                                          *)

MainGoto(where) == main' = where

\* child.wait() returns; the stdin task is aborted and awaited.
MainWait ==
    /\ main = "wait" /\ ~running
    /\ stdin_task' = "closed"
    /\ MainGoto("stdout")
    /\ UNCHANGED <<mode, clientVars, inbox, window, received, reported, programVars,
                   stdin_buf, pump, out_buf>>

\* Mutant: the end of stderr is not waited for.
MainJoinStdoutOnly ==
    /\ main = "stdout" /\ pump["stdout"] \in {"done", "failed"}
    /\ MainGoto(IF pump["stdout"] = "failed" THEN "failed" ELSE "status")
    /\ UNCHANGED <<mode, clientVars, inbox, window, received, reported, programVars,
                   stdin_task, stdin_buf, pump, out_buf>>

\* The stdout task is awaited; its error is the function's, and nothing is
\* reported then.
MainJoinStdout ==
    /\ main = "stdout" /\ pump["stdout"] \in {"done", "failed"}
    /\ MainGoto(IF pump["stdout"] = "failed" THEN "failed"
                ELSE IF mode = "pty" THEN "status" ELSE "stderr")
    /\ UNCHANGED <<mode, clientVars, inbox, window, received, reported, programVars,
                   stdin_task, stdin_buf, pump, out_buf>>

\* Mutant: a PTY's output is waited for like a pipe's.
MainTimeoutNever == FALSE /\ UNCHANGED vars

\* With a PTY the wait is given up after 200 ms.
MainTimeout ==
    /\ main = "stdout" /\ mode = "pty"
    /\ pump["stdout"] \notin {"done", "failed"}
    /\ pump' = [pump EXCEPT !["stdout"] = "aborted"]
    /\ MainGoto("status")
    /\ UNCHANGED <<mode, clientVars, inbox, window, received, reported, programVars,
                   stdin_task, stdin_buf, out_buf>>

MainJoinStderr ==
    /\ main = "stderr" /\ pump["stderr"] \in {"done", "failed"}
    /\ MainGoto(IF pump["stderr"] = "failed" THEN "failed" ELSE "status")
    /\ UNCHANGED <<mode, clientVars, inbox, window, received, reported, programVars,
                   stdin_task, stdin_buf, pump, out_buf>>

\* exit_status, eof and close; their errors are ignored.
After == [status |-> "eof", eof |-> "close", close |-> "done"]

MainReport ==
    /\ main \in {"status", "eof", "close"}
    /\ reported' = IF connected THEN Append(reported, main) ELSE reported
    /\ MainGoto(After[main])
    /\ UNCHANGED <<mode, clientVars, inbox, window, received, programVars,
                   stdin_task, stdin_buf, pump, out_buf>>

-----------------------------------------------------------------------------
Init ==
    /\ mode \in Modes
    /\ connected = TRUE
    /\ typed = 0
    /\ eof = FALSE
    /\ inbox = 0
    /\ window = MaxWindow
    /\ received = [s \in Stream |-> 0]
    /\ reported = <<>>
    /\ program \in Programs
    /\ running = TRUE
    /\ doing = "none"
    /\ got = 0
    /\ eof_seen = FALSE
    /\ todo \in [Stream -> 0 .. MaxOutput]
    /\ mode = "pty" => todo["stderr"] = 0     \* one terminal takes both
    /\ written = [s \in Stream |-> 0]
    /\ stdin_task = "wait"
    /\ stdin_buf = 0
    /\ pump = [s \in Stream |-> "read"]
    /\ out_buf = [s \in Stream |-> 0]
    /\ main = "wait"

Client == Type \/ SendEof \/ AdjustWindow \/ Disconnect

StdinStep == StdinReceive \/ StdinEof \/ StdinWrite

ProgramStep ==
    \/ \E what \in Stream \cup {"read"} : Call(what)
    \/ Read
    \/ \E s \in Stream : Write(s)
    \/ ProgramExits

PumpStep(s) == PumpRead(s) \/ PumpSend(s) \/ PumpEnd(s)

MainStep == MainWait \/ MainJoinStdout \/ MainTimeout \/ MainJoinStderr \/ MainReport

Next ==
    \/ Client
    \/ StdinStep
    \/ ProgramStep
    \/ ProgramKilled
    \/ \E s \in Stream : PumpStep(s)
    \/ MainStep

\* The runtime runs every task that can go on, and the kernel the process.
Fairness ==
    /\ WF_vars(StdinStep)
    /\ WF_vars(ProgramStep)
    /\ \A s \in Stream : WF_vars(PumpStep(s))
    /\ WF_vars(MainStep)

Spec == Init /\ [][Next]_vars /\ Fairness

-----------------------------------------------------------------------------
(* Properties                                                              *)

\* Every variable keeps its type.
TypeOK ==
    /\ mode \in Modes
    /\ connected \in BOOLEAN /\ eof \in BOOLEAN
    /\ typed \in 0 .. MaxInput /\ inbox \in 0 .. MaxInput
    /\ window \in 0 .. MaxWindow
    /\ received \in [Stream -> 0 .. MaxOutput]
    /\ reported \in Seq({"status", "eof", "close"})
    /\ program \in Programs
    /\ running \in BOOLEAN /\ eof_seen \in BOOLEAN
    /\ doing \in {"none", "read"} \cup Stream
    /\ got \in 0 .. MaxInput
    /\ todo \in [Stream -> 0 .. MaxOutput]
    /\ written \in [Stream -> 0 .. MaxOutput]
    /\ stdin_task \in {"wait", "write", "closed"}
    /\ stdin_buf \in 0 .. PipeSize
    /\ pump \in [Stream -> {"read", "send", "done", "failed", "aborted"}]
    /\ out_buf \in [Stream -> 0 .. PipeSize]
    /\ main \in {"wait", "stdout", "stderr", "status", "eof", "close", "done", "failed"}

\* With pipes the exit status comes after all output: whatever the process
\* wrote to either stream before it exited has been sent when it is reported.
\* (run_attached_process_with_pipes joins both tasks first)
StatusAfterOutput ==
    mode = "pipes" /\ reported # <<>> => received = written

\* The process reads the end of its input only behind everything the client
\* sent before its EOF or before its connection was lost.
\* (the stdin task)
EofAfterInput == eof_seen => got = typed

\* What can go on without the client: a task of the daemon, or the process.
StdinCanStep ==
    \/ stdin_task = "wait" /\ (inbox > 0 \/ eof \/ ~connected)
    \/ stdin_task = "write" /\ (stdin_buf < PipeSize \/ (mode = "pipes" /\ ~running))

ProgramCanStep ==
    /\ running
    /\ \/ doing = "none"
       \/ doing = "read" /\ (stdin_buf > 0 \/ InputEnded)
       \/ doing \in Stream /\ \/ out_buf[doing] < PipeSize
                              \/ mode = "pipes" /\ pump[doing] \in {"done", "failed"}

PumpCanStep(s) ==
    \/ Readable(s)
    \/ pump[s] = "read" /\ out_buf[s] = 0 /\ mode = "pipes" /\ ~running
    \/ pump[s] = "send" /\ (connected => window > 0)

MainCanStep ==
    \/ main = "wait" /\ ~running
    \/ main = "stdout" /\ (mode = "pty" \/ pump["stdout"] \in {"done", "failed"})
    \/ main = "stderr" /\ pump["stderr"] \in {"done", "failed"}
    \/ main \in {"status", "eof", "close"}

CanStep == StdinCanStep \/ ProgramCanStep \/ MainCanStep \/ \E s \in Stream : PumpCanStep(s)

\* The client can end the wait: the output waits for its window, or the process
\* for its input.
ClientsTurn ==
    /\ connected
    /\ \/ window = 0 /\ \E s \in Stream : pump[s] = "send"
       \/ doing = "read" /\ stdin_task = "wait" /\ inbox = 0 /\ ~eof

\* Nobody waits for each other: when neither a task nor a process attached with
\* pipes can go on before the end, it is a connected client that all wait for.
\* (the three tasks of run_attached_process_with_pipes and the order they are
\* joined in)
StallsOnlyForClient ==
    mode = "pipes" /\ main \notin {"done", "failed"} /\ ~CanStep => ClientsTurn

\* A client that keeps reading and ends its input gets the end of a command
\* that runs with pipes, however its output is spread over the two streams.
\* (the two tasks of run_attached_process_with_pipes)
PipesFinish ==
    /\ mode = "pipes"
    /\ []connected /\ <>eof
    /\ WF_vars(AdjustWindow)
    => <>(reported = <<"status", "eof", "close">>)

\* When the process is gone the session of a PTY is torn down, also when the
\* client neither reads nor ends its input.
\* (the timeout of run_attached_process_with_pty)
PtyTornDown ==
    mode = "pty" /\ ~running ~> main \in {"done", "failed"}

\* A process with pipes does not outlive the connection, if it still reads its
\* input, or writes, or exits by itself.
\* (the stdin task ends with the channel, and the writers fail)
DisconnectReaps == mode = "pipes" /\ ~connected ~> ~running

\* What the test shell_request_attaches_to_container takes for granted: a shell
\* that reads to the end of its input on a PTY ends after the client's EOF.
PtyEofEnds ==
    mode = "pty" /\ program = "eof" /\ []connected /\ <>eof /\ WF_vars(AdjustWindow)
    => <>(reported = <<"status", "eof", "close">>)
=============================================================================
