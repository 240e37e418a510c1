----------------------- MODULE AttachedProcessProofs -----------------------
(***************************************************************************)
(* Theorems about AttachedProcess, for every size of the buffers and every *)
(* amount of input and output.                                             *)
(*                                                                         *)
(* The invariant counts chunks.  Those the client has sent are on their    *)
(* way, in the hands of the stdin task, in the buffer or read; those the   *)
(* program has written are in the buffer, in the hands of their task or    *)
(* sent.  As long as the process runs no chunk of the input is lost, and   *)
(* as long as a task has not failed none of its output is.                 *)
(***************************************************************************)
EXTENDS AttachedProcess, TLAPS

\* Chunks in the hands of a task.
StdinHeld == IF stdin_task = "write" THEN 1 ELSE 0
PumpHeld(s) == IF pump[s] = "send" THEN 1 ELSE 0

\* TypeOK with the bounds left to the counting.
Places ==
    /\ mode \in Modes
    /\ connected \in BOOLEAN /\ eof \in BOOLEAN
    /\ reported \in Seq({"status", "eof", "close"})
    /\ program \in Programs
    /\ running \in BOOLEAN /\ eof_seen \in BOOLEAN
    /\ doing \in {"none", "read"} \cup Stream
    /\ stdin_task \in {"wait", "write", "closed"}
    /\ pump \in [Stream -> {"read", "send", "done", "failed", "aborted"}]
    /\ main \in {"wait", "stdout", "stderr", "status", "eof", "close", "done", "failed"}

Numbers ==
    /\ typed \in Nat /\ inbox \in Nat /\ got \in Nat
    /\ stdin_buf \in Nat /\ window \in Nat
    /\ typed <= MaxInput /\ stdin_buf <= PipeSize /\ window <= MaxWindow

Counters ==
    /\ received \in [Stream -> Nat]
    /\ todo \in [Stream -> Nat]
    /\ written \in [Stream -> Nat]
    /\ out_buf \in [Stream -> Nat]

Shape == Places /\ Numbers /\ Counters

\* The input: nothing is lost while the process runs, the stdin task ends with
\* the input, and the end is read behind everything else.
InputCounted ==
    /\ got + stdin_buf + StdinHeld + inbox <= typed
    /\ running => got + stdin_buf + StdinHeld + inbox = typed
    /\ running /\ stdin_task = "closed" => inbox = 0 /\ (eof \/ ~connected)
    /\ doing = "read" => ~eof_seen
    /\ eof_seen => /\ stdin_task = "closed" /\ stdin_buf = 0
                   /\ eof \/ ~connected
                   /\ got = typed

\* The output of a stream.
OutputCounted(s) ==
    /\ written[s] + todo[s] <= MaxOutput
    /\ doing = s => todo[s] > 0
    /\ out_buf[s] <= PipeSize
    /\ received[s] + PumpHeld(s) + out_buf[s] <= written[s]
    /\ pump[s] \in {"read", "send", "done"}
          => received[s] + PumpHeld(s) + out_buf[s] = written[s]
    /\ pump[s] = "done" => ~running /\ out_buf[s] = 0
    /\ pump[s] = "aborted" => mode = "pty"

\* The main task: where it is tells what has ended.
MainInPlace ==
    /\ main # "wait" => ~running
    /\ main = "stderr" => mode = "pipes" /\ pump["stdout"] = "done"
    /\ mode = "pipes" /\ main \in {"status", "eof", "close", "done"}
          => \A s \in Stream : pump[s] = "done"
    /\ main \in {"wait", "stdout", "stderr", "status", "failed"} => reported = <<>>

IInv ==
    /\ Shape
    /\ InputCounted
    /\ \A s \in Stream : OutputCounted(s)
    /\ MainInPlace
-----------------------------------------------------------------------------
(* The invariant is inductive.                                             *)

\* The initial states have nothing anywhere.
LEMMA InitInvariant == Init => IInv
<1>1. SUFFICES ASSUME Init
               PROVE  IInv
  OBVIOUS
<1>2. Shape
  <2>1. Places
    <3>1. reported \in Seq({"status", "eof", "close"})
      BY <1>1 DEF Init
    <3>2. pump \in [Stream -> {"read", "send", "done", "failed", "aborted"}]
      BY <1>1 DEF Init
    <3>3. QED  BY <1>1, <3>1, <3>2 DEF Init, Places
  <2>2. Numbers
    BY <1>1, SizeAssumption DEF Init, Numbers
  <2>3. Counters
    <3>1. todo \in [Stream -> Nat]
      <4>1. 0 .. MaxOutput \subseteq Nat
        BY SizeAssumption
      <4>2. QED  BY <1>1, <4>1 DEF Init
    <3>2. QED  BY <1>1, <3>1 DEF Init, Counters
  <2>4. QED  BY <2>1, <2>2, <2>3 DEF Shape
<1>3. InputCounted
  BY <1>1, SizeAssumption DEF Init, InputCounted, StdinHeld
<1>4. ASSUME NEW s \in Stream
      PROVE  OutputCounted(s)
  BY <1>1, SizeAssumption DEF Init, OutputCounted, PumpHeld, Stream
<1>5. MainInPlace
  BY <1>1 DEF Init, MainInPlace
<1>6. QED  BY <1>2, <1>3, <1>4, <1>5 DEF IInv

\* Every step keeps the counts.
LEMMA StepInvariant == IInv /\ [Next]_vars => IInv'
<1> SUFFICES ASSUME IInv, [Next]_vars
             PROVE  IInv'
  OBVIOUS
<1> USE SizeAssumption, KindAssumption
<1>0. /\ Places /\ Numbers /\ Counters /\ InputCounted /\ MainInPlace
      /\ \A s \in Stream : OutputCounted(s)
  BY DEF IInv, Shape
<1> USE <1>0
<1>1. ASSUME Type
      PROVE  IInv'
  <2>1. Shape'
    <3>1. Places'
      BY <1>1 DEF Type, Places, Stream, clientVars, programVars
    <3>2. Numbers'
      BY <1>1 DEF Type, Numbers, clientVars, programVars
    <3>3. Counters'
      BY <1>1 DEF Type, Counters, OutputCounted, Stream, clientVars, programVars
    <3>4. QED  BY <3>1, <3>2, <3>3 DEF Shape
  <2>2. InputCounted'
    BY <1>1 DEF Type, Places, Numbers, InputCounted, StdinHeld, clientVars, programVars
  <2>3. ASSUME NEW s \in Stream
        PROVE  OutputCounted(s)'
    BY <1>1 DEF Type, Places, Counters, OutputCounted, PumpHeld, Stream, clientVars, programVars
  <2>4. MainInPlace'
    BY <1>1 DEF Type, Places, MainInPlace, OutputCounted, Stream, clientVars, programVars
  <2>5. QED  BY <2>1, <2>2, <2>3, <2>4 DEF IInv
<1>2. ASSUME SendEof
      PROVE  IInv'
  <2>1. Shape'
    <3>1. Places'
      BY <1>2 DEF SendEof, Places, Stream, clientVars, programVars
    <3>2. Numbers'
      BY <1>2 DEF SendEof, Numbers, clientVars, programVars
    <3>3. Counters'
      BY <1>2 DEF SendEof, Counters, OutputCounted, Stream, clientVars, programVars
    <3>4. QED  BY <3>1, <3>2, <3>3 DEF Shape
  <2>2. InputCounted'
    BY <1>2 DEF SendEof, Places, Numbers, InputCounted, StdinHeld, clientVars, programVars
  <2>3. ASSUME NEW s \in Stream
        PROVE  OutputCounted(s)'
    BY <1>2 DEF SendEof, Places, Counters, OutputCounted, PumpHeld, Stream, clientVars, programVars
  <2>4. MainInPlace'
    BY <1>2 DEF SendEof, Places, MainInPlace, OutputCounted, Stream, clientVars, programVars
  <2>5. QED  BY <2>1, <2>2, <2>3, <2>4 DEF IInv
<1>3. ASSUME AdjustWindow
      PROVE  IInv'
  <2>1. Shape'
    <3>1. Places'
      BY <1>3 DEF AdjustWindow, Places, Stream, clientVars, programVars
    <3>2. Numbers'
      BY <1>3 DEF AdjustWindow, Numbers, clientVars, programVars
    <3>3. Counters'
      BY <1>3 DEF AdjustWindow, Counters, OutputCounted, Stream, clientVars, programVars
    <3>4. QED  BY <3>1, <3>2, <3>3 DEF Shape
  <2>2. InputCounted'
    BY <1>3 DEF AdjustWindow, Places, Numbers, InputCounted, StdinHeld, clientVars, programVars
  <2>3. ASSUME NEW s \in Stream
        PROVE  OutputCounted(s)'
    BY <1>3 DEF AdjustWindow, Places, Counters, OutputCounted, PumpHeld, Stream, clientVars, programVars
  <2>4. MainInPlace'
    BY <1>3 DEF AdjustWindow, Places, MainInPlace, OutputCounted, Stream, clientVars, programVars
  <2>5. QED  BY <2>1, <2>2, <2>3, <2>4 DEF IInv
<1>4. ASSUME Disconnect
      PROVE  IInv'
  <2>1. Shape'
    <3>1. Places'
      BY <1>4 DEF Disconnect, Places, Stream, clientVars, programVars
    <3>2. Numbers'
      BY <1>4 DEF Disconnect, Numbers, clientVars, programVars
    <3>3. Counters'
      BY <1>4 DEF Disconnect, Counters, OutputCounted, Stream, clientVars, programVars
    <3>4. QED  BY <3>1, <3>2, <3>3 DEF Shape
  <2>2. InputCounted'
    BY <1>4 DEF Disconnect, Places, Numbers, InputCounted, StdinHeld, clientVars, programVars
  <2>3. ASSUME NEW s \in Stream
        PROVE  OutputCounted(s)'
    BY <1>4 DEF Disconnect, Places, Counters, OutputCounted, PumpHeld, Stream, clientVars, programVars
  <2>4. MainInPlace'
    BY <1>4 DEF Disconnect, Places, MainInPlace, OutputCounted, Stream, clientVars, programVars
  <2>5. QED  BY <2>1, <2>2, <2>3, <2>4 DEF IInv
<1>5. ASSUME StdinReceive
      PROVE  IInv'
  <2>1. Shape'
    <3>1. Places'
      BY <1>5 DEF StdinReceive, Places, Stream, clientVars, programVars
    <3>2. Numbers'
      BY <1>5 DEF StdinReceive, Numbers, clientVars, programVars
    <3>3. Counters'
      BY <1>5 DEF StdinReceive, Counters, OutputCounted, Stream, clientVars, programVars
    <3>4. QED  BY <3>1, <3>2, <3>3 DEF Shape
  <2>2. InputCounted'
    BY <1>5 DEF StdinReceive, Places, Numbers, InputCounted, StdinHeld, clientVars, programVars
  <2>3. ASSUME NEW s \in Stream
        PROVE  OutputCounted(s)'
    BY <1>5 DEF StdinReceive, Places, Counters, OutputCounted, PumpHeld, Stream, clientVars, programVars
  <2>4. MainInPlace'
    BY <1>5 DEF StdinReceive, Places, MainInPlace, OutputCounted, Stream, clientVars, programVars
  <2>5. QED  BY <2>1, <2>2, <2>3, <2>4 DEF IInv
<1>6. ASSUME StdinEof
      PROVE  IInv'
  <2>1. Shape'
    <3>1. Places'
      BY <1>6 DEF StdinEof, Places, Stream, clientVars, programVars
    <3>2. Numbers'
      BY <1>6 DEF StdinEof, Numbers, clientVars, programVars
    <3>3. Counters'
      BY <1>6 DEF StdinEof, Counters, OutputCounted, Stream, clientVars, programVars
    <3>4. QED  BY <3>1, <3>2, <3>3 DEF Shape
  <2>2. InputCounted'
    BY <1>6 DEF StdinEof, Places, Numbers, InputCounted, StdinHeld, clientVars, programVars
  <2>3. ASSUME NEW s \in Stream
        PROVE  OutputCounted(s)'
    BY <1>6 DEF StdinEof, Places, Counters, OutputCounted, PumpHeld, Stream, clientVars, programVars
  <2>4. MainInPlace'
    BY <1>6 DEF StdinEof, Places, MainInPlace, OutputCounted, Stream, clientVars, programVars
  <2>5. QED  BY <2>1, <2>2, <2>3, <2>4 DEF IInv
<1>7. ASSUME StdinWrite
      PROVE  IInv'
  <2>1. Shape'
    <3>1. Places'
      BY <1>7 DEF StdinWrite, Places, Stream, clientVars, programVars
    <3>2. Numbers'
      BY <1>7 DEF StdinWrite, Numbers, clientVars, programVars
    <3>3. Counters'
      BY <1>7 DEF StdinWrite, Counters, OutputCounted, Stream, clientVars, programVars
    <3>4. QED  BY <3>1, <3>2, <3>3 DEF Shape
  <2>2. InputCounted'
    BY <1>7 DEF StdinWrite, Places, Numbers, InputCounted, StdinHeld, clientVars, programVars
  <2>3. ASSUME NEW s \in Stream
        PROVE  OutputCounted(s)'
    BY <1>7 DEF StdinWrite, Places, Counters, OutputCounted, PumpHeld, Stream, clientVars, programVars
  <2>4. MainInPlace'
    BY <1>7 DEF StdinWrite, Places, MainInPlace, OutputCounted, Stream, clientVars, programVars
  <2>5. QED  BY <2>1, <2>2, <2>3, <2>4 DEF IInv
<1>8. ASSUME NEW what \in Stream \cup {"read"}, Call(what)
      PROVE  IInv'
  <2>1. Shape'
    <3>1. Places'
      BY <1>8 DEF Call, WaitsForInput, Places, Stream, clientVars, programVars
    <3>2. Numbers'
      BY <1>8 DEF Call, WaitsForInput, Numbers, clientVars, programVars
    <3>3. Counters'
      BY <1>8 DEF Call, WaitsForInput, Counters, OutputCounted, Stream, clientVars, programVars
    <3>4. QED  BY <3>1, <3>2, <3>3 DEF Shape
  <2>2. InputCounted'
    <3>1. doing' = "read" => ~eof_seen
      BY <1>8 DEF Call, WaitsForInput, Stream
    <3>2. QED  BY <1>8, <3>1 DEF Call, InputCounted, StdinHeld, clientVars
  <2>3. ASSUME NEW s \in Stream
        PROVE  OutputCounted(s)'
    BY <1>8 DEF Call, WaitsForInput, Places, Counters, OutputCounted, PumpHeld, Stream, clientVars, programVars
  <2>4. MainInPlace'
    BY <1>8 DEF Call, WaitsForInput, Places, MainInPlace, OutputCounted, Stream, clientVars, programVars
  <2>5. QED  BY <2>1, <2>2, <2>3, <2>4 DEF IInv
<1>9. ASSUME Read
      PROVE  IInv'
  <2>1. Shape'
    <3>1. Places'
      BY <1>9 DEF Read, InputEnded, Places, Stream, clientVars, programVars
    <3>2. Numbers'
      BY <1>9 DEF Read, InputEnded, Numbers, clientVars, programVars
    <3>3. Counters'
      BY <1>9 DEF Read, InputEnded, Counters, OutputCounted, Stream, clientVars, programVars
    <3>4. QED  BY <3>1, <3>2, <3>3 DEF Shape
  <2>2. InputCounted'
    BY <1>9 DEF Read, InputEnded, Places, Numbers, InputCounted, StdinHeld, clientVars, programVars
  <2>3. ASSUME NEW s \in Stream
        PROVE  OutputCounted(s)'
    BY <1>9 DEF Read, InputEnded, Places, Counters, OutputCounted, PumpHeld, Stream, clientVars, programVars
  <2>4. MainInPlace'
    BY <1>9 DEF Read, InputEnded, Places, MainInPlace, OutputCounted, Stream, clientVars, programVars
  <2>5. QED  BY <2>1, <2>2, <2>3, <2>4 DEF IInv
<1>10. ASSUME NEW t \in Stream, Write(t)
      PROVE  IInv'
  <2>1. Shape'
    <3>1. Places'
      BY <1>10 DEF Write, Places, Stream, clientVars, programVars
    <3>2. Numbers'
      BY <1>10 DEF Write, Numbers, clientVars, programVars
    <3>3. Counters'
      <4>1. todo[t] \in Nat /\ todo[t] > 0 /\ out_buf[t] \in Nat /\ written[t] \in Nat
        BY <1>10 DEF Write, Counters, OutputCounted
      <4>2. todo[t] - 1 \in Nat /\ out_buf[t] + 1 \in Nat /\ written[t] + 1 \in Nat
        BY <4>1
      <4>3. QED  BY <1>10, <4>2 DEF Write, Counters
    <3>4. QED  BY <3>1, <3>2, <3>3 DEF Shape
  <2>2. InputCounted'
    BY <1>10 DEF Write, Places, Numbers, InputCounted, StdinHeld, clientVars, programVars
  <2>3. ASSUME NEW s \in Stream
        PROVE  OutputCounted(s)'
    <3>1. /\ written[s] \in Nat /\ todo[s] \in Nat
          /\ received[s] \in Nat /\ out_buf[s] \in Nat
          /\ PumpHeld(s) \in Nat /\ OutputCounted(s)
      BY <2>3 DEF Counters, PumpHeld
    <3>2. CASE s = t
      <4>1. CASE mode = "pipes" /\ pump[s] \in {"done", "failed"}
        BY <1>10, <2>3, <3>1, <3>2, <4>1 DEF Write, OutputCounted, PumpHeld, Stream
      <4>2. CASE ~(mode = "pipes" /\ pump[s] \in {"done", "failed"})
        <5>1. /\ todo'[s] = todo[s] - 1 /\ written'[s] = written[s] + 1
              /\ out_buf'[s] = out_buf[s] + 1 /\ out_buf[s] < PipeSize
              /\ UNCHANGED <<mode, running, pump, received>> /\ running
              /\ doing' = "none" /\ todo[s] > 0
          BY <1>10, <2>3, <3>1, <3>2, <4>2 DEF Write, Counters, OutputCounted
        <5>2. PumpHeld(s)' = PumpHeld(s)
          BY <5>1 DEF PumpHeld
        <5>3. QED  BY <2>3, <3>1, <5>1, <5>2 DEF OutputCounted, Stream
      <4>3. QED  BY <4>1, <4>2
    <3>3. CASE s # t
      BY <1>10, <2>3, <3>1, <3>3
         DEF Write, Places, Counters, OutputCounted, PumpHeld, Stream, clientVars, programVars
    <3>4. QED  BY <3>2, <3>3
  <2>4. MainInPlace'
    BY <1>10 DEF Write, Places, MainInPlace, OutputCounted, Stream, clientVars, programVars
  <2>5. QED  BY <2>1, <2>2, <2>3, <2>4 DEF IInv
<1>11. ASSUME ProgramExits
      PROVE  IInv'
  <2>1. Shape'
    <3>1. Places'
      BY <1>11 DEF ProgramExits, WaitsForInput, Places, Stream, clientVars, programVars
    <3>2. Numbers'
      BY <1>11 DEF ProgramExits, WaitsForInput, Numbers, clientVars, programVars
    <3>3. Counters'
      BY <1>11 DEF ProgramExits, WaitsForInput, Counters, OutputCounted, Stream, clientVars, programVars
    <3>4. QED  BY <3>1, <3>2, <3>3 DEF Shape
  <2>2. InputCounted'
    BY <1>11 DEF ProgramExits, WaitsForInput, Places, Numbers, InputCounted, StdinHeld, clientVars, programVars
  <2>3. ASSUME NEW s \in Stream
        PROVE  OutputCounted(s)'
    BY <1>11 DEF ProgramExits, WaitsForInput, Places, Counters, OutputCounted, PumpHeld, Stream, clientVars, programVars
  <2>4. MainInPlace'
    BY <1>11 DEF ProgramExits, WaitsForInput, Places, MainInPlace, OutputCounted, Stream, clientVars, programVars
  <2>5. QED  BY <2>1, <2>2, <2>3, <2>4 DEF IInv
<1>12. ASSUME ProgramKilled
      PROVE  IInv'
  <2>1. Shape'
    <3>1. Places'
      BY <1>12 DEF ProgramKilled, Places, Stream, clientVars, programVars
    <3>2. Numbers'
      BY <1>12 DEF ProgramKilled, Numbers, clientVars, programVars
    <3>3. Counters'
      BY <1>12 DEF ProgramKilled, Counters, OutputCounted, Stream, clientVars, programVars
    <3>4. QED  BY <3>1, <3>2, <3>3 DEF Shape
  <2>2. InputCounted'
    BY <1>12 DEF ProgramKilled, Places, Numbers, InputCounted, StdinHeld, clientVars, programVars
  <2>3. ASSUME NEW s \in Stream
        PROVE  OutputCounted(s)'
    BY <1>12 DEF ProgramKilled, Places, Counters, OutputCounted, PumpHeld, Stream, clientVars, programVars
  <2>4. MainInPlace'
    BY <1>12 DEF ProgramKilled, Places, MainInPlace, OutputCounted, Stream, clientVars, programVars
  <2>5. QED  BY <2>1, <2>2, <2>3, <2>4 DEF IInv
<1>13. ASSUME NEW t \in Stream, PumpRead(t)
      PROVE  IInv'
  <2>1. Shape'
    <3>1. Places'
      BY <1>13 DEF PumpRead, Readable, Places, Stream, clientVars, programVars
    <3>2. Numbers'
      BY <1>13 DEF PumpRead, Readable, Numbers, clientVars, programVars
    <3>3. Counters'
      BY <1>13 DEF PumpRead, Readable, Counters, OutputCounted, Stream, clientVars, programVars
    <3>4. QED  BY <3>1, <3>2, <3>3 DEF Shape
  <2>2. InputCounted'
    BY <1>13 DEF PumpRead, Readable, Places, Numbers, InputCounted, StdinHeld, clientVars, programVars
  <2>3. ASSUME NEW s \in Stream
        PROVE  OutputCounted(s)'
    <3>1. /\ written[s] \in Nat /\ todo[s] \in Nat
          /\ received[s] \in Nat /\ out_buf[s] \in Nat
          /\ PumpHeld(s) \in Nat /\ OutputCounted(s)
      BY <2>3 DEF Counters, PumpHeld
    <3>2. CASE s = t
      <4>1. /\ out_buf[s] > 0 /\ out_buf'[s] = out_buf[s] - 1
            /\ pump[s] = "read" /\ pump'[s] = "send"
            /\ UNCHANGED <<mode, running, doing, todo, written, received>>
        BY <1>13, <3>2 DEF PumpRead, Readable, Places, Counters, programVars
      <4>2. PumpHeld(s) = 0 /\ PumpHeld(s)' = 1
        BY <4>1 DEF PumpHeld
      <4>3. QED  BY <3>1, <4>1, <4>2 DEF OutputCounted
    <3>3. CASE s # t
      BY <1>13, <2>3, <3>1, <3>3
         DEF PumpRead, Readable, Places, Counters, OutputCounted, PumpHeld, Stream, clientVars, programVars
    <3>4. QED  BY <3>2, <3>3
  <2>4. MainInPlace'
    BY <1>13 DEF PumpRead, Readable, Places, MainInPlace, OutputCounted, Stream, clientVars, programVars
  <2>5. QED  BY <2>1, <2>2, <2>3, <2>4 DEF IInv
<1>14. ASSUME NEW t \in Stream, PumpSend(t)
      PROVE  IInv'
  <2>1. Shape'
    <3>1. Places'
      BY <1>14 DEF PumpSend, Places, Stream, clientVars, programVars
    <3>2. Numbers'
      BY <1>14 DEF PumpSend, Numbers, clientVars, programVars
    <3>3. Counters'
      BY <1>14 DEF PumpSend, Counters, OutputCounted, Stream, clientVars, programVars
    <3>4. QED  BY <3>1, <3>2, <3>3 DEF Shape
  <2>2. InputCounted'
    BY <1>14 DEF PumpSend, Places, Numbers, InputCounted, StdinHeld, clientVars, programVars
  <2>3. ASSUME NEW s \in Stream
        PROVE  OutputCounted(s)'
    <3>1. /\ written[s] \in Nat /\ todo[s] \in Nat
          /\ received[s] \in Nat /\ out_buf[s] \in Nat
          /\ PumpHeld(s) \in Nat /\ OutputCounted(s)
      BY <2>3 DEF Counters, PumpHeld
    <3>2. CASE s = t
      <4>1. /\ pump[s] = "send" /\ pump'[s] \in {"read", "failed"}
            /\ received'[s] = IF pump'[s] = "read" THEN received[s] + 1 ELSE received[s]
            /\ UNCHANGED <<mode, running, doing, todo, written, out_buf>>
        BY <1>14, <3>1, <3>2 DEF PumpSend, Places, Counters, programVars
      <4>2. PumpHeld(s) = 1 /\ PumpHeld(s)' = 0
        BY <4>1 DEF PumpHeld
      <4>3. QED  BY <3>1, <4>1, <4>2 DEF OutputCounted
    <3>3. CASE s # t
      BY <1>14, <2>3, <3>1, <3>3
         DEF PumpSend, Places, Counters, OutputCounted, PumpHeld, Stream, clientVars, programVars
    <3>4. QED  BY <3>2, <3>3
  <2>4. MainInPlace'
    BY <1>14 DEF PumpSend, Places, MainInPlace, OutputCounted, Stream, clientVars, programVars
  <2>5. QED  BY <2>1, <2>2, <2>3, <2>4 DEF IInv
<1>15. ASSUME NEW t \in Stream, PumpEnd(t)
      PROVE  IInv'
  <2>1. Shape'
    <3>1. Places'
      BY <1>15 DEF PumpEnd, Places, Stream, clientVars, programVars
    <3>2. Numbers'
      BY <1>15 DEF PumpEnd, Numbers, clientVars, programVars
    <3>3. Counters'
      BY <1>15 DEF PumpEnd, Counters, OutputCounted, Stream, clientVars, programVars
    <3>4. QED  BY <3>1, <3>2, <3>3 DEF Shape
  <2>2. InputCounted'
    BY <1>15 DEF PumpEnd, Places, Numbers, InputCounted, StdinHeld, clientVars, programVars
  <2>3. ASSUME NEW s \in Stream
        PROVE  OutputCounted(s)'
    BY <1>15 DEF PumpEnd, Places, Counters, OutputCounted, PumpHeld, Stream, clientVars, programVars
  <2>4. MainInPlace'
    BY <1>15 DEF PumpEnd, Places, MainInPlace, OutputCounted, Stream, clientVars, programVars
  <2>5. QED  BY <2>1, <2>2, <2>3, <2>4 DEF IInv
<1>16. ASSUME MainWait
      PROVE  IInv'
  <2>1. Shape'
    <3>1. Places'
      BY <1>16 DEF MainWait, MainGoto, Places, Stream, clientVars, programVars
    <3>2. Numbers'
      BY <1>16 DEF MainWait, MainGoto, Numbers, clientVars, programVars
    <3>3. Counters'
      BY <1>16 DEF MainWait, MainGoto, Counters, OutputCounted, Stream, clientVars, programVars
    <3>4. QED  BY <3>1, <3>2, <3>3 DEF Shape
  <2>2. InputCounted'
    BY <1>16 DEF MainWait, MainGoto, Places, Numbers, InputCounted, StdinHeld, clientVars, programVars
  <2>3. ASSUME NEW s \in Stream
        PROVE  OutputCounted(s)'
    BY <1>16 DEF MainWait, MainGoto, Places, Counters, OutputCounted, PumpHeld, Stream, clientVars, programVars
  <2>4. MainInPlace'
    BY <1>16 DEF MainWait, MainGoto, Places, MainInPlace, OutputCounted, Stream, clientVars, programVars
  <2>5. QED  BY <2>1, <2>2, <2>3, <2>4 DEF IInv
<1>17. ASSUME MainJoinStdout
      PROVE  IInv'
  <2>1. Shape'
    <3>1. Places'
      BY <1>17 DEF MainJoinStdout, MainGoto, Places, Stream, clientVars, programVars
    <3>2. Numbers'
      BY <1>17 DEF MainJoinStdout, MainGoto, Numbers, clientVars, programVars
    <3>3. Counters'
      BY <1>17 DEF MainJoinStdout, MainGoto, Counters, OutputCounted, Stream, clientVars, programVars
    <3>4. QED  BY <3>1, <3>2, <3>3 DEF Shape
  <2>2. InputCounted'
    BY <1>17 DEF MainJoinStdout, MainGoto, Places, Numbers, InputCounted, StdinHeld, clientVars, programVars
  <2>3. ASSUME NEW s \in Stream
        PROVE  OutputCounted(s)'
    BY <1>17 DEF MainJoinStdout, MainGoto, Places, Counters, OutputCounted, PumpHeld, Stream, clientVars, programVars
  <2>4. MainInPlace'
    BY <1>17 DEF MainJoinStdout, MainGoto, Places, MainInPlace, OutputCounted, Stream, clientVars, programVars
  <2>5. QED  BY <2>1, <2>2, <2>3, <2>4 DEF IInv
<1>18. ASSUME MainTimeout
      PROVE  IInv'
  <2>1. Shape'
    <3>1. Places'
      BY <1>18 DEF MainTimeout, MainGoto, Places, Stream, clientVars, programVars
    <3>2. Numbers'
      BY <1>18 DEF MainTimeout, MainGoto, Numbers, clientVars, programVars
    <3>3. Counters'
      BY <1>18 DEF MainTimeout, MainGoto, Counters, OutputCounted, Stream, clientVars, programVars
    <3>4. QED  BY <3>1, <3>2, <3>3 DEF Shape
  <2>2. InputCounted'
    BY <1>18 DEF MainTimeout, MainGoto, Places, Numbers, InputCounted, StdinHeld, clientVars, programVars
  <2>3. ASSUME NEW s \in Stream
        PROVE  OutputCounted(s)'
    BY <1>18 DEF MainTimeout, MainGoto, Places, Counters, OutputCounted, PumpHeld, Stream, clientVars, programVars
  <2>4. MainInPlace'
    BY <1>18 DEF MainTimeout, MainGoto, Places, MainInPlace, OutputCounted, Stream, clientVars, programVars
  <2>5. QED  BY <2>1, <2>2, <2>3, <2>4 DEF IInv
<1>19. ASSUME MainJoinStderr
      PROVE  IInv'
  <2>1. Shape'
    <3>1. Places'
      BY <1>19 DEF MainJoinStderr, MainGoto, Places, Stream, clientVars, programVars
    <3>2. Numbers'
      BY <1>19 DEF MainJoinStderr, MainGoto, Numbers, clientVars, programVars
    <3>3. Counters'
      BY <1>19 DEF MainJoinStderr, MainGoto, Counters, OutputCounted, Stream, clientVars, programVars
    <3>4. QED  BY <3>1, <3>2, <3>3 DEF Shape
  <2>2. InputCounted'
    BY <1>19 DEF MainJoinStderr, MainGoto, Places, Numbers, InputCounted, StdinHeld, clientVars, programVars
  <2>3. ASSUME NEW s \in Stream
        PROVE  OutputCounted(s)'
    BY <1>19 DEF MainJoinStderr, MainGoto, Places, Counters, OutputCounted, PumpHeld, Stream, clientVars, programVars
  <2>4. MainInPlace'
    BY <1>19 DEF MainJoinStderr, MainGoto, Places, MainInPlace, OutputCounted, Stream, clientVars, programVars
  <2>5. QED  BY <2>1, <2>2, <2>3, <2>4 DEF IInv
<1>20. ASSUME MainReport
      PROVE  IInv'
  <2>1. Shape'
    <3>1. Places'
      BY <1>20 DEF MainReport, MainGoto, After, Places, Stream, clientVars, programVars
    <3>2. Numbers'
      BY <1>20 DEF MainReport, MainGoto, After, Numbers, clientVars, programVars
    <3>3. Counters'
      BY <1>20 DEF MainReport, MainGoto, After, Counters, OutputCounted, Stream, clientVars, programVars
    <3>4. QED  BY <3>1, <3>2, <3>3 DEF Shape
  <2>2. InputCounted'
    BY <1>20 DEF MainReport, MainGoto, After, Places, Numbers, InputCounted, StdinHeld, clientVars, programVars
  <2>3. ASSUME NEW s \in Stream
        PROVE  OutputCounted(s)'
    BY <1>20 DEF MainReport, MainGoto, After, Places, Counters, OutputCounted, PumpHeld, Stream, clientVars, programVars
  <2>4. MainInPlace'
    BY <1>20 DEF MainReport, MainGoto, After, Places, MainInPlace, OutputCounted, Stream, clientVars, programVars
  <2>5. QED  BY <2>1, <2>2, <2>3, <2>4 DEF IInv
<1>21. CASE UNCHANGED vars
  BY <1>21 DEF vars, IInv, Shape, Places, Numbers, Counters, InputCounted, StdinHeld, OutputCounted, PumpHeld, MainInPlace
<1>22. QED
  BY <1>1, <1>2, <1>3, <1>4, <1>5, <1>6, <1>7, <1>8, <1>9, <1>10, <1>11, <1>12, <1>13, <1>14, <1>15, <1>16, <1>17, <1>18, <1>19, <1>20, <1>21
     DEF Next, Client, StdinStep, ProgramStep, PumpStep, MainStep

\* The counts bound every number.
LEMMA InvariantImpliesType == IInv => TypeOK
<1>1. SUFFICES ASSUME IInv
               PROVE  TypeOK
  OBVIOUS
<1>2. inbox <= MaxInput /\ got <= MaxInput
  BY <1>1, SizeAssumption DEF IInv, Shape, Places, Numbers, Counters, InputCounted, StdinHeld
<1>3. ASSUME NEW s \in Stream
      PROVE  /\ received[s] \in 0 .. MaxOutput
             /\ todo[s] \in 0 .. MaxOutput
             /\ written[s] \in 0 .. MaxOutput
             /\ out_buf[s] \in 0 .. PipeSize
  <2>1. /\ received[s] \in Nat /\ todo[s] \in Nat
        /\ written[s] \in Nat /\ out_buf[s] \in Nat
        /\ PumpHeld(s) \in Nat /\ OutputCounted(s)
    BY <1>1 DEF IInv, Shape, Counters, PumpHeld
  <2>2. QED  BY <2>1, SizeAssumption DEF OutputCounted
<1>4. /\ received \in [Stream -> 0 .. MaxOutput]
      /\ todo \in [Stream -> 0 .. MaxOutput]
      /\ written \in [Stream -> 0 .. MaxOutput]
      /\ out_buf \in [Stream -> 0 .. PipeSize]
  BY <1>1, <1>3 DEF IInv, Shape, Places, Numbers, Counters
<1>5. QED
  BY <1>1, <1>2, <1>4, SizeAssumption DEF TypeOK, IInv, Shape, Places, Numbers, Counters

\* The invariant holds in every reachable state.
LEMMA Invariance == Spec => []IInv
<1>1. QED  BY InitInvariant, StepInvariant, PTL DEF Spec

-----------------------------------------------------------------------------
(* The theorems.                                                           *)

\* Every reachable state has the declared type: no buffer and no window is
\* ever overrun.
THEOREM TypeCorrect == Spec => []TypeOK
<1>1. QED  BY Invariance, InvariantImpliesType, PTL

\* With pipes, all that a process wrote to either stream has been sent when its
\* exit status is reported, however long it is and whatever the sizes of the
\* pipes and the window.
THEOREM NothingReportedEarly == Spec => []StatusAfterOutput
<1>1. ASSUME IInv
      PROVE  StatusAfterOutput
  <2>1. SUFFICES ASSUME mode = "pipes", reported # <<>>
                 PROVE  received = written
    BY DEF StatusAfterOutput
  <2>2. ASSUME NEW s \in Stream
        PROVE  pump[s] = "done"
    BY <1>1, <2>1 DEF IInv, MainInPlace, Shape, Places, Numbers, Counters
  <2>3. ASSUME NEW s \in Stream
        PROVE  received[s] = written[s]
    <3>1. /\ received[s] \in Nat /\ written[s] \in Nat /\ out_buf[s] \in Nat
          /\ OutputCounted(s)
      BY <1>1 DEF IInv, Shape, Counters
    <3>2. PumpHeld(s) = 0 /\ out_buf[s] = 0
      BY <2>2, <3>1 DEF PumpHeld, OutputCounted
    <3>3. QED  BY <2>2, <3>1, <3>2 DEF OutputCounted
  <2>4. QED  BY <1>1, <2>3 DEF IInv, Shape, Places, Numbers, Counters
<1>2. QED  BY <1>1, Invariance, PTL

\* The end of the input is read behind everything the client sent, whatever the
\* size of the pipe.
THEOREM InputComesWhole == Spec => []EofAfterInput
<1>1. IInv => EofAfterInput
  BY DEF IInv, InputCounted, EofAfterInput
<1>2. QED  BY <1>1, Invariance, PTL

-----------------------------------------------------------------------------
(* What is left of liveness without fairness: the tasks and the process    *)
(* cannot go on for ever (FiniteWork), and where they stop before the end  *)
(* it is the client they wait for (OnlyTheClientIsWaitedFor).  Fairness    *)
(* adds that they do not stop while they can go on.                        *)

\* Where the tasks are, as steps they have still to take.
StdinLeft == IF stdin_task = "write" THEN 4 ELSE IF stdin_task = "wait" THEN 1 ELSE 0
PumpLeft(s) == IF pump[s] = "send" THEN 2 ELSE IF pump[s] = "read" THEN 1 ELSE 0
MainLeft ==
    [wait |-> 6, stdout |-> 5, stderr |-> 4, status |-> 3, eof |-> 2, close |-> 1,
     done |-> 0, failed |-> 0][main]
InputLeft == 4 * inbox + StdinLeft + 2 * stdin_buf + (IF eof_seen THEN 0 ELSE 2)
OutputLeft(s) == 4 * todo[s] + 2 * out_buf[s] + PumpLeft(s)
ProgramLeft == (IF running THEN 2 ELSE 0) + (IF doing = "none" THEN 1 ELSE 0)

Remaining == InputLeft + OutputLeft("stdout") + OutputLeft("stderr") + ProgramLeft + MainLeft

\* A step of the daemon, the process or the container.
Work == StdinStep \/ ProgramStep \/ ProgramKilled \/ MainStep \/ \E s \in Stream : PumpStep(s)

\* Every step of a task or of the process leaves less to be done; the client
\* adds to it by what it types, and by nothing else.
Dwindles ==
    /\ Work => Remaining' < Remaining
    /\ Type => Remaining' = Remaining + 4
    /\ SendEof \/ AdjustWindow \/ Disconnect => Remaining' = Remaining

\* The terms are numbers, before a step and after it.
TermsOK ==
    /\ InputLeft \in Nat /\ ProgramLeft \in Nat /\ MainLeft \in Nat
    /\ \A s \in Stream : OutputLeft(s) \in Nat
    /\ Remaining \in Nat

LEMMA TermsAreNumbers == IInv => TermsOK
<1>1. SUFFICES ASSUME IInv
               PROVE  TermsOK
  OBVIOUS
<1>2. InputLeft \in Nat
  BY <1>1 DEF IInv, Shape, Numbers, StdinLeft, InputLeft
<1>3. ASSUME NEW s \in Stream
      PROVE  OutputLeft(s) \in Nat
  BY <1>1 DEF IInv, Shape, Counters, PumpLeft, OutputLeft
<1>4. ProgramLeft \in Nat /\ MainLeft \in Nat
  BY <1>1 DEF IInv, Shape, Places, ProgramLeft, MainLeft
<1>5. Remaining \in Nat
  BY <1>2, <1>3, <1>4 DEF Remaining, Stream
<1>6. QED  BY <1>2, <1>3, <1>4, <1>5 DEF TermsOK

LEMMA TermsStayNumbers == IInv' => TermsOK'
<1>1. QED  BY TermsAreNumbers, PTL

\* A term stays when its variables do.
LEMMA TermsKept ==
    /\ UNCHANGED <<inbox, stdin_task, stdin_buf, eof_seen>> => InputLeft' = InputLeft
    /\ UNCHANGED <<running, doing>> => ProgramLeft' = ProgramLeft
    /\ UNCHANGED main => MainLeft' = MainLeft
    /\ UNCHANGED <<todo, out_buf, pump>> => \A s \in Stream : OutputLeft(s)' = OutputLeft(s)
BY DEF InputLeft, StdinLeft, ProgramLeft, MainLeft, OutputLeft, PumpLeft

\* The sum drops with a stream's term, whatever the program's term gains by less.
LEMMA SumDrops ==
    ASSUME IInv, IInv', NEW s \in Stream,
           InputLeft' = InputLeft, MainLeft' = MainLeft,
           \A t \in Stream \ {s} : OutputLeft(t)' = OutputLeft(t),
           OutputLeft(s)' + ProgramLeft' < OutputLeft(s) + ProgramLeft
    PROVE  Remaining' < Remaining
<1>1. /\ InputLeft \in Nat /\ MainLeft \in Nat
      /\ ProgramLeft \in Nat /\ ProgramLeft' \in Nat
      /\ \A t \in Stream : OutputLeft(t) \in Nat /\ OutputLeft(t)' \in Nat
  BY TermsAreNumbers, TermsStayNumbers DEF TermsOK
<1>2. CASE s = "stdout"
  BY <1>1, <1>2 DEF Remaining, Stream
<1>3. CASE s = "stderr"
  BY <1>1, <1>3 DEF Remaining, Stream
<1>4. QED  BY <1>2, <1>3 DEF Stream

\* The stdin task: a chunk is worth less at each place on its way.
LEMMA StdinDwindles ==
    ASSUME IInv, IInv', StdinStep
    PROVE  Remaining' < Remaining
<1>1. /\ ProgramLeft' = ProgramLeft /\ MainLeft' = MainLeft
      /\ \A s \in Stream : OutputLeft(s)' = OutputLeft(s)
  BY TermsKept DEF StdinStep, StdinReceive, StdinEof, StdinWrite, programVars
<1>2. inbox \in Nat /\ stdin_buf \in Nat /\ eof_seen \in BOOLEAN
  BY DEF IInv, Shape, Places, Numbers
<1>3. InputLeft' < InputLeft
  <2>1. CASE StdinReceive
    BY <1>2, <2>1 DEF StdinReceive, programVars, InputLeft, StdinLeft
  <2>2. CASE StdinEof
    BY <1>2, <2>2 DEF StdinEof, programVars, InputLeft, StdinLeft
  <2>3. CASE StdinWrite
    BY <1>2, <2>3 DEF StdinWrite, programVars, InputLeft, StdinLeft
  <2>4. QED  BY <2>1, <2>2, <2>3 DEF StdinStep
<1>4. QED
  BY <1>1, <1>3, TermsAreNumbers, TermsStayNumbers DEF TermsOK, Remaining, Stream

\* The process: a chunk it reads is gone, a chunk it writes is worth less in the
\* buffer, and it enters a call only to leave it with one of the two.
LEMMA ProgramDwindles ==
    ASSUME IInv, IInv', ProgramStep \/ ProgramKilled
    PROVE  Remaining' < Remaining
<1>1. /\ InputLeft \in Nat /\ MainLeft \in Nat /\ ProgramLeft \in Nat
      /\ InputLeft' \in Nat /\ ProgramLeft' \in Nat
      /\ \A s \in Stream : OutputLeft(s) \in Nat /\ OutputLeft(s)' \in Nat
  BY TermsAreNumbers, TermsStayNumbers DEF TermsOK
<1>2. MainLeft' = MainLeft
  BY TermsKept DEF ProgramStep, Call, Read, Write, ProgramExits, ProgramKilled
<1>3. ASSUME NEW what \in Stream \cup {"read"}, Call(what)
      PROVE  Remaining' < Remaining
  <2>1. /\ InputLeft' = InputLeft
        /\ \A s \in Stream : OutputLeft(s)' = OutputLeft(s)
    BY <1>3, TermsKept DEF Call
  <2>2. ProgramLeft' < ProgramLeft
    BY <1>3 DEF Call, ProgramLeft, Stream
  <2>3. QED  BY <1>1, <1>2, <2>1, <2>2 DEF Remaining, Stream
<1>4. ASSUME Read
      PROVE  Remaining' < Remaining
  <2>1. \A s \in Stream : OutputLeft(s)' = OutputLeft(s)
    BY <1>4, TermsKept DEF Read
  <2>2. ProgramLeft' = ProgramLeft + 1
    BY <1>4 DEF Read, ProgramLeft
  <2>3. InputLeft' = InputLeft - 2
    <3>1. ~eof_seen /\ inbox \in Nat /\ stdin_buf \in Nat
      BY <1>4 DEF Read, IInv, InputCounted, Shape, Numbers
    <3>2. QED  BY <1>4, <3>1 DEF Read, InputLeft, StdinLeft
  <2>4. QED  BY <1>1, <1>2, <2>1, <2>2, <2>3 DEF Remaining, Stream
<1>5. ASSUME NEW s \in Stream, Write(s)
      PROVE  Remaining' < Remaining
  <2>1. InputLeft' = InputLeft
    BY <1>5, TermsKept DEF Write
  <2>2. CASE mode = "pipes" /\ pump[s] \in {"done", "failed"}
    <3>1. \A t \in Stream : OutputLeft(t)' = OutputLeft(t)
      BY <1>5, <2>2, TermsKept DEF Write
    <3>2. ProgramLeft' = ProgramLeft - 1
      <4>1. running /\ doing # "none" /\ ~running' /\ doing' = "none"
        BY <1>5, <2>2 DEF Write, Stream
      <4>2. QED  BY <4>1 DEF ProgramLeft
    <3>3. QED  BY <1>1, <1>2, <2>1, <3>1, <3>2 DEF Remaining, Stream
  <2>3. CASE ~(mode = "pipes" /\ pump[s] \in {"done", "failed"})
    <3>1. ProgramLeft' = ProgramLeft + 1
      <4>1. UNCHANGED running /\ doing # "none" /\ doing' = "none"
        BY <1>5, <2>3 DEF Write, Stream
      <4>2. QED  BY <4>1 DEF ProgramLeft
    <3>2. /\ todo \in [Stream -> Nat] /\ out_buf \in [Stream -> Nat]
          /\ pump' = pump
          /\ todo' = [todo EXCEPT ![s] = @ - 1]
          /\ out_buf' = [out_buf EXCEPT ![s] = @ + 1]
      BY <1>5, <2>3 DEF Write, IInv, Shape, Counters
    <3>3. OutputLeft(s)' = OutputLeft(s) - 2
      BY <1>5, <3>2 DEF OutputLeft, PumpLeft
    <3>4. \A t \in Stream \ {s} : OutputLeft(t)' = OutputLeft(t)
      BY <3>2 DEF OutputLeft, PumpLeft
    <3>5. QED  BY <1>1, <1>2, <1>5, <2>1, <3>1, <3>3, <3>4, SumDrops
  <2>4. QED  BY <2>2, <2>3
<1>6. ASSUME ProgramExits \/ ProgramKilled
      PROVE  Remaining' < Remaining
  <2>1. /\ InputLeft' = InputLeft
        /\ \A s \in Stream : OutputLeft(s)' = OutputLeft(s)
    BY <1>6, TermsKept DEF ProgramExits, ProgramKilled
  <2>2. ProgramLeft' < ProgramLeft
    BY <1>6 DEF ProgramExits, ProgramKilled, ProgramLeft
  <2>3. QED  BY <1>1, <1>2, <2>1, <2>2 DEF Remaining, Stream
<1>7. QED  BY <1>3, <1>4, <1>5, <1>6 DEF ProgramStep

\* The task of a stream: what it reads is worth less in its hands, and nothing
\* once it is sent.
LEMMA PumpDwindles ==
    ASSUME IInv, IInv', NEW s \in Stream, PumpStep(s)
    PROVE  Remaining' < Remaining
<1>1. InputLeft' = InputLeft /\ ProgramLeft' = ProgramLeft /\ MainLeft' = MainLeft
  BY TermsKept DEF PumpStep, PumpRead, PumpSend, PumpEnd, programVars
<1>2. /\ todo \in [Stream -> Nat] /\ out_buf \in [Stream -> Nat]
      /\ pump \in [Stream -> {"read", "send", "done", "failed", "aborted"}]
  BY DEF IInv, Shape, Places, Counters
<1>3. \A t \in Stream \ {s} : OutputLeft(t)' = OutputLeft(t)
  BY <1>2 DEF PumpStep, PumpRead, PumpSend, PumpEnd, programVars, OutputLeft, PumpLeft
<1>4. OutputLeft(s)' < OutputLeft(s)
  <2>1. CASE PumpRead(s)
    BY <1>2, <2>1 DEF PumpRead, Readable, programVars, OutputLeft, PumpLeft
  <2>2. CASE PumpSend(s)
    BY <1>2, <2>2 DEF PumpSend, programVars, OutputLeft, PumpLeft
  <2>3. CASE PumpEnd(s)
    BY <1>2, <2>3 DEF PumpEnd, programVars, OutputLeft, PumpLeft
  <2>4. QED  BY <2>1, <2>2, <2>3 DEF PumpStep
<1>5. OutputLeft(s)' + ProgramLeft' < OutputLeft(s) + ProgramLeft
  <2>1. OutputLeft(s) \in Nat /\ OutputLeft(s)' \in Nat /\ ProgramLeft \in Nat
    BY TermsAreNumbers, TermsStayNumbers DEF TermsOK
  <2>2. QED  BY <1>1, <1>4, <2>1
<1>6. QED  BY <1>1, <1>3, <1>5, SumDrops

\* The main task: it goes on from each wait to a later one; what it aborts has
\* nothing left to do.
LEMMA MainDwindles ==
    ASSUME IInv, IInv', MainStep
    PROVE  Remaining' < Remaining
<1>1. /\ InputLeft \in Nat /\ MainLeft \in Nat /\ ProgramLeft \in Nat
      /\ InputLeft' \in Nat /\ MainLeft' \in Nat
      /\ \A s \in Stream : OutputLeft(s) \in Nat /\ OutputLeft(s)' \in Nat
  BY TermsAreNumbers, TermsStayNumbers DEF TermsOK
<1>2. ProgramLeft' = ProgramLeft
  BY TermsKept DEF MainStep, MainWait, MainJoinStdout, MainTimeout, MainJoinStderr,
                   MainReport, programVars
<1>3. MainLeft' < MainLeft
  BY DEF MainStep, MainWait, MainJoinStdout, MainTimeout, MainJoinStderr, MainReport,
         MainGoto, After, MainLeft
<1>4. InputLeft' <= InputLeft
  <2>1. CASE MainWait
    BY <2>1 DEF MainWait, programVars, InputLeft, StdinLeft, IInv, Shape, Places, Numbers
  <2>2. CASE ~MainWait
    BY <1>1, <2>2, TermsKept
       DEF MainStep, MainJoinStdout, MainTimeout, MainJoinStderr, MainReport, programVars
  <2>3. QED  BY <2>1, <2>2
<1>5. \A s \in Stream : OutputLeft(s)' <= OutputLeft(s)
  <2>1. CASE MainTimeout
    BY <2>1 DEF MainTimeout, programVars, OutputLeft, PumpLeft, IInv, Shape, Places, Counters, Stream
  <2>2. CASE ~MainTimeout
    BY <1>1, <2>2, TermsKept
       DEF MainStep, MainWait, MainJoinStdout, MainJoinStderr, MainReport, programVars
  <2>3. QED  BY <2>1, <2>2
<1>6. QED  BY <1>1, <1>2, <1>3, <1>4, <1>5 DEF Remaining, Stream

\* What the client does.
LEMMA ClientAdds ==
    ASSUME IInv
    PROVE  /\ Type => Remaining' = Remaining + 4
           /\ SendEof \/ AdjustWindow \/ Disconnect => Remaining' = Remaining
<1>1. ASSUME Type
      PROVE  Remaining' = Remaining + 4
  <2>1. /\ ProgramLeft' = ProgramLeft /\ MainLeft' = MainLeft
        /\ \A s \in Stream : OutputLeft(s)' = OutputLeft(s)
    BY <1>1, TermsKept DEF Type, programVars
  <2>2. InputLeft' = InputLeft + 4
    BY <1>1 DEF Type, programVars, InputLeft, StdinLeft, IInv, Shape, Numbers
  <2>3. QED  BY <2>1, <2>2, TermsAreNumbers DEF TermsOK, Remaining, Stream
<1>2. ASSUME SendEof \/ AdjustWindow \/ Disconnect
      PROVE  Remaining' = Remaining
  <2>1. /\ ProgramLeft' = ProgramLeft /\ MainLeft' = MainLeft
        /\ \A s \in Stream : OutputLeft(s)' = OutputLeft(s)
        /\ InputLeft' = InputLeft
    BY <1>2, TermsKept DEF SendEof, AdjustWindow, Disconnect, programVars, clientVars
  <2>2. QED  BY <2>1 DEF Remaining, Stream
<1>3. QED  BY <1>1, <1>2

\* Whatever the sizes and the amounts, the tasks and the process have only
\* finitely many steps between two chunks of input: each of them leaves less of
\* a natural number, to which the client adds only by typing.
THEOREM FiniteWork == Spec => [](Remaining \in Nat) /\ [][Dwindles]_vars
<1>1. IInv /\ IInv' /\ [Next]_vars => [Dwindles]_vars
  <2>1. SUFFICES ASSUME IInv, IInv'
                 PROVE  Dwindles
    OBVIOUS
  <2>2. ASSUME Work
        PROVE  Remaining' < Remaining
    BY <2>1, <2>2, StdinDwindles, ProgramDwindles, PumpDwindles, MainDwindles DEF Work
  <2>3. QED  BY <2>1, <2>2, ClientAdds DEF Dwindles
<1>2. IInv => Remaining \in Nat
  BY TermsAreNumbers DEF TermsOK
<1>3. QED  BY <1>1, <1>2, Invariance, PTL DEF Spec

\* With pipes of any size, and any window, a session that neither a task nor the
\* process can carry on before its end waits for a connected client: there is no
\* circle of waits among the three tasks, the process and the pipes.
THEOREM OnlyTheClientIsWaitedFor == Spec => []StallsOnlyForClient
<1>1. ASSUME IInv
      PROVE  StallsOnlyForClient
  <2>1. SUFFICES ASSUME mode = "pipes", main \notin {"done", "failed"}, ~CanStep
                 PROVE  ClientsTurn
    BY DEF StallsOnlyForClient
  <2>2. /\ ~StdinCanStep /\ ~ProgramCanStep /\ ~MainCanStep
        /\ \A s \in Stream : ~PumpCanStep(s)
    BY <2>1 DEF CanStep
  <2>3. /\ Places /\ Numbers /\ Counters /\ InputCounted /\ MainInPlace
        /\ \A s \in Stream : OutputCounted(s)
    BY <1>1 DEF IInv, Shape
  \* A stream's task that is neither over nor sending waits for a process that
  \* runs, with nothing in the pipe.
  <2>4. ASSUME NEW s \in Stream, pump[s] \notin {"done", "failed"}, pump[s] # "send"
        PROVE  running /\ out_buf[s] = 0
    <3>1. pump[s] = "read"
      BY <2>1, <2>3, <2>4 DEF Places, OutputCounted
    <3>2. out_buf[s] \in Nat
      BY <2>3 DEF Counters
    <3>3. QED  BY <2>1, <2>2, <3>1, <3>2 DEF PumpCanStep, Readable
  <2>5. ASSUME NEW s \in Stream, pump[s] = "send"
        PROVE  ClientsTurn
    BY <2>2, <2>3, <2>5 DEF PumpCanStep, ClientsTurn, Numbers
  <2>6. CASE main = "wait"
    <3>1. running /\ doing # "none"
      BY <2>2, <2>3, <2>6 DEF MainCanStep, ProgramCanStep, Places
    <3>2. CASE doing = "read"
      <4>1. stdin_buf = 0 /\ stdin_task # "closed"
        BY <2>1, <2>2, <2>3, <3>1, <3>2 DEF ProgramCanStep, InputEnded, Numbers
      <4>2. stdin_task = "wait"
        BY <2>2, <2>3, <4>1, SizeAssumption DEF StdinCanStep, Places
      <4>3. QED  BY <2>2, <2>3, <3>2, <4>2 DEF StdinCanStep, ClientsTurn, Numbers, Places
    <3>3. CASE doing \in Stream
      <4>1. ~(out_buf[doing] < PipeSize) /\ pump[doing] \notin {"done", "failed"}
        BY <2>1, <2>2, <3>1, <3>3 DEF ProgramCanStep
      <4>2. pump[doing] = "send"
        BY <2>4, <3>3, <4>1, SizeAssumption
      <4>3. QED  BY <2>5, <3>3, <4>2
    <3>4. QED  BY <2>3, <3>1, <3>2, <3>3 DEF Places
  <2>7. CASE main \in {"stdout", "stderr"}
    <3>1. ~running /\ pump[main] \notin {"done", "failed"}
      BY <2>2, <2>3, <2>7 DEF MainCanStep, MainInPlace
    <3>2. pump[main] = "send"
      BY <2>4, <2>7, <3>1 DEF Stream
    <3>3. QED  BY <2>5, <2>7, <3>2 DEF Stream
  <2>8. QED  BY <2>1, <2>2, <2>3, <2>6, <2>7 DEF MainCanStep, Places
<1>2. QED  BY <1>1, Invariance, PTL
=============================================================================
