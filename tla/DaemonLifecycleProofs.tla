----------------------- MODULE DaemonLifecycleProofs -----------------------
(***************************************************************************)
(* Theorems about DaemonLifecycle for commands that are run one at a time, *)
(* for every number of pids, config paths and commands.                    *)
(*                                                                         *)
(* The argument: call a daemon a guest as long as it was started by hand   *)
(* and has not passed the check of the pid file, and an owner after that.  *)
(* A daemon that `serve` forked is an owner from the beginning, since      *)
(* `serve` has checked the file for it.  There is never more than one      *)
(* owner, and whoever is about to act on what the file said, a guest, a    *)
(* launcher or a `stop`, has read the owner's pid in it if there is one.   *)
(*                                                                         *)
(* That the pid it read counts as running rests on OneServeUser: whoever   *)
(* looks may signal the owner.                                             *)
(***************************************************************************)
EXTENDS DaemonLifecycle, Naturals, TLAPS

Guest(p) == proc[p].byhand /\ proc[p].at \in {"read", "check"}

Owner(p) == IsDaemon(p) /\ proc[p].at # "exit" /\ ~Guest(p)

\* The commands a user waits for.
Serving(l) == serve[l] # NoServe
Stopping(s) == stop[s] # NoStop
Starting(p) == proc[p].byhand /\ proc[p].at \in Early

\* At most one command runs.
OneCommand ==
    /\ \A l, k \in Launcher : Serving(l) /\ Serving(k) => l = k
    /\ \A s, t \in Stopper : Stopping(s) /\ Stopping(t) => s = t
    /\ \A p, q \in Pid : Starting(p) /\ Starting(q) => p = q
    /\ \A l \in Launcher, s \in Stopper : ~(Serving(l) /\ Stopping(s))
    /\ \A l \in Launcher, p \in Pid : ~(Serving(l) /\ Starting(p))
    /\ \A s \in Stopper, p \in Pid : ~(Stopping(s) /\ Starting(p))

OneOwner == \A p, q \in Pid : Owner(p) /\ Owner(q) => p = q

\* `serve` is about to write the file, or an owner started by hand is, or the
\* owner and its `serve` have both written it.
Writing == \E l \in Launcher : serve[l].at \in {"truncate", "write"}
Fresh(h) == proc[h].byhand /\ proc[h].at = "truncate"

Settled(h) ==
    /\ proc[h].at \in {"start", "remove"} \cup Listening
    /\ \A l \in Launcher : serve[l].at # "write"

\* What the file says of the owner.
FileNames(h) ==
    /\ ~Writing /\ ~Fresh(h) => pid_file \in {h, Empty}
    /\ Settled(h) => pid_file = h

\* What the others have read of it.
GuestKnows(h) ==
    \A g \in Pid : Guest(g) /\ proc[g].at = "check" => proc[g].existing \in {h, Empty}

LauncherKnows(h) ==
    \A l \in Launcher :
        /\ serve[l].at \notin {"unlink", "spawn"}
        /\ serve[l].at = "check" => serve[l].existing = h
        /\ serve[l].at \in {"truncate", "write"} => serve[l].child = h

StopperKnows(h) ==
    \A s \in Stopper :
        /\ stop[s].at # "unlink"
        /\ stop[s].at = "kill" => stop[s].target = h

OwnerKnown == \A h \in Pid : Owner(h) => /\ FileNames(h) /\ GuestKnows(h)
                                         /\ LauncherKnows(h) /\ StopperKnows(h)

-----------------------------------------------------------------------------
(* Types.                                                                  *)

\* A command that is about to use a pid has one.
ChildNamed == \A l \in Launcher : serve[l].at \in {"truncate", "write"} => serve[l].child \in Pid
TargetNamed == \A s \in Stopper : stop[s].at = "kill" => stop[s].target \in Pid

Typed == TypeOK /\ ChildNamed /\ TargetNamed

\* The initial state is typed.
LEMMA TypeInit == Init => Typed
BY DEF Init, Free, NoServe, NoStop, Typed, TypeOK, ChildNamed, TargetNamed,
       Process, ServeCommand, StopCommand

\* Every step keeps the types.
LEMMA TypeStep == Typed /\ [Next]_vars => Typed'
<1> SUFFICES ASSUME Typed, [Next]_vars
             PROVE  Typed'
  OBVIOUS
<1> USE NamesAssumption, UserAssumption DEF Early, Listening, Ending
<1>1. ASSUME NEW p \in Pid, DaemonRead(p)
      PROVE  Typed'
  BY <1>1 DEF DaemonRead, Goto, Process, Typed, TypeOK, ChildNamed, TargetNamed
<1>2. ASSUME NEW p \in Pid, DaemonCheck(p)
      PROVE  Typed'
  <2>1. proc' \in [Pid -> Process]
    <3>1. Free \in Process
      BY DEF Free, Process
    <3>2. CASE Occupied(p)
      BY <1>2, <3>1, <3>2 DEF DaemonCheck, Die, Typed, TypeOK
    <3>3. CASE ~Occupied(p)
      BY <1>2, <3>3 DEF DaemonCheck, Goto, Process, Typed, TypeOK
    <3>4. QED  BY <3>2, <3>3
  <2>2. QED  BY <1>2, <2>1 DEF DaemonCheck, Typed, TypeOK, ChildNamed, TargetNamed
<1>3. ASSUME NEW p \in Pid, DaemonTruncate(p)
      PROVE  Typed'
  <2>1. Free \in Process
    BY DEF Free, Process
  <2>2. proc' \in [Pid -> Process]
    BY <1>3, <2>1 DEF DaemonTruncate, Goto, Die, Process, Typed, TypeOK
  <2>3. proc[p].user \in User \cup {NoUser}
    BY DEF Process, Typed, TypeOK
  <2>4. QED
    BY <1>3, <2>2, <2>3 DEF DaemonTruncate, Truncate, Typed, TypeOK, ChildNamed, TargetNamed
<1>4. ASSUME NEW p \in Pid, DaemonWrite(p)
      PROVE  Typed'
  BY <1>4 DEF DaemonWrite, Write, Goto, Process, Typed, TypeOK, ChildNamed, TargetNamed
<1>5. ASSUME NEW p \in Pid, StartListeners(p)
      PROVE  Typed'
  BY <1>5 DEF StartListeners, Goto, Process, Typed, TypeOK, ChildNamed, TargetNamed
<1>6. ASSUME NEW p \in Pid, StartListenersFails(p)
      PROVE  Typed'
  BY <1>6 DEF StartListenersFails, Die, Free, Process, Typed, TypeOK, ChildNamed, TargetNamed
<1>7. ASSUME NEW p \in Pid, RegisterHandler(p)
      PROVE  Typed'
  BY <1>7 DEF RegisterHandler, Goto, Process, Typed, TypeOK, ChildNamed, TargetNamed
<1>8. ASSUME NEW p \in Pid, Shutdown(p)
      PROVE  Typed'
  BY <1>8 DEF Shutdown, Goto, Process, Typed, TypeOK, ChildNamed, TargetNamed
<1>9. ASSUME NEW p \in Pid, RemovePidFile(p)
      PROVE  Typed'
  BY <1>9 DEF RemovePidFile, Remove, Goto, Process, Typed, TypeOK, ChildNamed, TargetNamed
<1>10. ASSUME NEW p \in Pid, Exit(p)
      PROVE  Typed'
  BY <1>10 DEF Exit, Die, Free, Process, Typed, TypeOK, ChildNamed, TargetNamed
<1>11. ASSUME NEW l \in Launcher, EnsureRead(l)
      PROVE  Typed'
  BY <1>11 DEF EnsureRead, ServeReturns, NoServe, ServeCommand, Typed, TypeOK, ChildNamed, TargetNamed
<1>12. ASSUME NEW l \in Launcher, EnsureCheck(l)
      PROVE  Typed'
  BY <1>12 DEF EnsureCheck, ServeReturns, NoServe, ServeCommand, Typed, TypeOK, ChildNamed, TargetNamed
<1>13. ASSUME NEW l \in Launcher, EnsureUnlink(l)
      PROVE  Typed'
  BY <1>13 DEF EnsureUnlink, Remove, ServeCommand, Typed, TypeOK, ChildNamed, TargetNamed
<1>14. ASSUME NEW l \in Launcher, NEW p \in Pid, Spawn(l, p)
      PROVE  Typed'
  <2>1. proc' \in [Pid -> Process]
    BY <1>14 DEF Spawn, Fork, Process, ServeCommand, Typed, TypeOK
  <2>2. serve[l] \in ServeCommand /\ serve' = [serve EXCEPT ![l].at = "truncate", ![l].child = p]
    BY <1>14 DEF Spawn, Typed, TypeOK
  <2>3. [serve[l] EXCEPT !.at = "truncate", !.child = p] \in ServeCommand
    BY <2>2 DEF ServeCommand
  <2>4. /\ serve' \in [Launcher -> ServeCommand]
        /\ serve'[l].child = p /\ \A k \in Launcher \ {l} : serve'[k] = serve[k]
    BY <2>2, <2>3 DEF Typed, TypeOK, ServeCommand
  <2>5. QED  BY <1>14, <2>1, <2>4 DEF Spawn, Typed, TypeOK, ChildNamed, TargetNamed
<1>15. ASSUME NEW l \in Launcher, LauncherTruncate(l)
      PROVE  Typed'
  BY <1>15 DEF LauncherTruncate, Truncate, ServeReturns, NoServe, ServeCommand, Typed, TypeOK, ChildNamed, TargetNamed
<1>16. ASSUME NEW l \in Launcher, LauncherWrite(l)
      PROVE  Typed'
  BY <1>16 DEF LauncherWrite, Write, ServeReturns, NoServe, ServeCommand, Typed, TypeOK, ChildNamed, TargetNamed
<1>17. ASSUME NEW s \in Stopper, StopRead(s)
      PROVE  Typed'
  BY <1>17 DEF StopRead, StopReturns, NoStop, StopCommand, Typed, TypeOK, ChildNamed, TargetNamed
<1>18. ASSUME NEW s \in Stopper, StopKill(s)
      PROVE  Typed'
  <2>1. stop[s].target \in Pid
    BY <1>18 DEF StopKill, Typed, TargetNamed
  <2>2. proc' \in [Pid -> Process]
    <3>1. Free \in Process
      BY DEF Free, Process
    <3>2. CASE UNCHANGED proc
      BY <3>2 DEF Typed, TypeOK
    <3>3. CASE Die(stop[s].target)
      BY <3>1, <3>3 DEF Die, Typed, TypeOK
    <3>4. CASE proc' = [proc EXCEPT ![stop[s].target].term = TRUE]
      <4>1. proc[stop[s].target] \in Process
        BY <2>1 DEF Typed, TypeOK
      <4>2. [proc[stop[s].target] EXCEPT !.term = TRUE] \in Process
        BY <4>1 DEF Process
      <4>3. QED  BY <3>4, <4>2 DEF Typed, TypeOK
    <3>5. QED  BY <1>18, <3>2, <3>3, <3>4 DEF StopKill, Signal
  <2>3. stop' \in [Stopper -> StopCommand] /\ TargetNamed'
    BY <1>18 DEF StopKill, StopReturns, NoStop, StopCommand, Typed, TypeOK, TargetNamed
  <2>4. QED  BY <1>18, <2>2, <2>3 DEF StopKill, Typed, TypeOK, ChildNamed
<1>19. ASSUME NEW s \in Stopper, StopUnlink(s)
      PROVE  Typed'
  BY <1>19 DEF StopUnlink, Remove, StopReturns, NoStop, StopCommand, Typed, TypeOK, ChildNamed, TargetNamed
<1>20. ASSUME NEW p \in Pid, NEW u \in ServeUser, NEW c \in Config,
             ServeForeground(p, u, c)
      PROVE  Typed'
  BY <1>20 DEF ServeForeground, Fork, Process, Typed, TypeOK, ChildNamed, TargetNamed
<1>21. ASSUME NEW l \in Launcher, NEW u \in ServeUser, NEW c \in Config,
             Serve(l, u, c)
      PROVE  Typed'
  <2>1. serve[l] \in ServeCommand
    BY <1>21 DEF Typed, TypeOK
  <2>2. [serve[l] EXCEPT !.at = "read", !.user = u, !.config = c] \in ServeCommand
    BY <2>1 DEF ServeCommand
  <2>3. /\ serve' \in [Launcher -> ServeCommand]
        /\ serve'[l].at = "read" /\ \A k \in Launcher \ {l} : serve'[k] = serve[k]
    BY <1>21, <2>1, <2>2 DEF Serve, Typed, TypeOK, ServeCommand
  <2>4. QED  BY <1>21, <2>3 DEF Serve, Typed, TypeOK, ChildNamed, TargetNamed
<1>22. ASSUME NEW s \in Stopper, NEW u \in StopUser, NEW c \in Config,
             Stop(s, u, c)
      PROVE  Typed'
  <2>1. stop[s] \in StopCommand
    BY <1>22 DEF Typed, TypeOK
  <2>2. [stop[s] EXCEPT !.at = "read", !.user = u, !.config = c] \in StopCommand
    BY <2>1 DEF StopCommand
  <2>3. /\ stop' \in [Stopper -> StopCommand]
        /\ stop'[s].at = "read" /\ \A t \in Stopper \ {s} : stop'[t] = stop[t]
    BY <1>22, <2>1, <2>2 DEF Stop, Typed, TypeOK, StopCommand
  <2>4. QED  BY <1>22, <2>3 DEF Stop, Typed, TypeOK, ChildNamed, TargetNamed
<1>23. ASSUME NEW p \in Pid, Crash(p)
      PROVE  Typed'
  BY <1>23 DEF Crash, Die, Free, Process, Typed, TypeOK, ChildNamed, TargetNamed
<1>24. ASSUME NEW p \in Pid, NEW u \in OtherUser, OtherStarts(p, u)
      PROVE  Typed'
  BY <1>24 DEF OtherStarts, Other, Free, Process, Typed, TypeOK, ChildNamed, TargetNamed
<1>25. ASSUME NEW p \in Pid, OtherExits(p)
      PROVE  Typed'
  BY <1>25 DEF OtherExits, Die, Free, Process, Typed, TypeOK, ChildNamed, TargetNamed
<1>26. CASE UNCHANGED vars
  BY <1>26 DEF vars, Typed, TypeOK, ChildNamed, TargetNamed
<1>27. QED
  BY <1>1, <1>2, <1>3, <1>4, <1>5, <1>6, <1>7, <1>8, <1>9, <1>10, <1>11, <1>12, <1>13,
     <1>14, <1>15, <1>16, <1>17, <1>18, <1>19, <1>20, <1>21, <1>22, <1>23, <1>24, <1>25, <1>26
     DEF Next, DaemonStep, LauncherStep, StopperStep, Commands, Host

\* Only a user who serves has daemons and `serve` commands and creates the file,
\* and only one who stops has `stop` commands.
UsersNamed ==
    /\ \A l \in Launcher : serve[l].at # "idle" => serve[l].user \in ServeUser
    /\ \A s \in Stopper : stop[s].at # "idle" => stop[s].user \in StopUser
    /\ \A p \in Pid : IsDaemon(p) => proc[p].user \in ServeUser
    /\ pid_file # NoFile => pid_owner \in ServeUser

\* Nothing has a user at first.
LEMMA UsersInit == Init => UsersNamed
BY DEF Init, Free, NoServe, NoStop, UsersNamed, IsDaemon, Early, Listening, Ending

\* A process that stays a daemon keeps its user, and no other process changes.
LEMMA UserKept ==
    ASSUME Typed, UsersNamed, NEW p \in Pid, \A q \in Pid \ {p} : proc'[q] = proc[q],
           IsDaemon(p)' => proc'[p].user \in ServeUser
    PROVE  \A q \in Pid : IsDaemon(q)' => proc'[q].user \in ServeUser
  BY DEF UsersNamed, IsDaemon

\* Every step keeps the users.
LEMMA UsersStep == Typed /\ UsersNamed /\ [Next]_vars => UsersNamed'
<1> SUFFICES ASSUME Typed, UsersNamed, [Next]_vars
             PROVE  UsersNamed'
  OBVIOUS
<1> USE NamesAssumption DEF Early, Listening, Ending
<1>1. ASSUME NEW p \in Pid, DaemonStep(p)
      PROVE  UsersNamed'
  <2>1. IsDaemon(p)
    BY <1>1 DEF DaemonStep, DaemonRead, DaemonCheck, DaemonTruncate, DaemonWrite,
                StartListeners, StartListenersFails, RegisterHandler, Shutdown,
                RemovePidFile, Exit, IsDaemon
  <2>2. proc[p].user \in ServeUser /\ UNCHANGED <<serve, stop>>
    BY <1>1, <2>1 DEF UsersNamed, DaemonStep, DaemonRead, DaemonCheck, DaemonTruncate,
                DaemonWrite, StartListeners, StartListenersFails, RegisterHandler, Shutdown,
                RemovePidFile, Exit
  <2>3. /\ \A q \in Pid \ {p} : proc'[q] = proc[q]
        /\ proc'[p].user = proc[p].user \/ proc'[p] = Free
    <3>1. ASSUME NEW where, Goto(p, where)
          PROVE  /\ \A q \in Pid \ {p} : proc'[q] = proc[q]
                 /\ proc'[p].user = proc[p].user
      BY <3>1 DEF Goto, Typed, TypeOK, Process
    <3>2. ASSUME Die(p)
          PROVE  proc'[p] = Free /\ \A q \in Pid \ {p} : proc'[q] = proc[q]
      BY <3>2 DEF Die, Typed, TypeOK
    <3>3. CASE DaemonRead(p)
      BY <3>1, <3>3 DEF DaemonRead, Typed, TypeOK, Process
    <3>4. QED
      BY <1>1, <3>1, <3>2, <3>3 DEF DaemonStep, DaemonCheck, DaemonTruncate, DaemonWrite,
         StartListeners, StartListenersFails, RegisterHandler, Shutdown, RemovePidFile, Exit
  <2>4. \A q \in Pid : IsDaemon(q)' => proc'[q].user \in ServeUser
    BY <2>2, <2>3, UserKept DEF Free, IsDaemon
  <2>5. pid_file' # NoFile => pid_owner' \in ServeUser
    BY <1>1, <2>2 DEF UsersNamed, DaemonStep, DaemonRead, DaemonCheck, DaemonTruncate, Truncate,
                DaemonWrite, Write, StartListeners, StartListenersFails, RegisterHandler, Shutdown,
                RemovePidFile, Remove, Exit
  <2>6. QED  BY <2>2, <2>4, <2>5 DEF UsersNamed
<1>2. ASSUME NEW l \in Launcher, LauncherStep(l)
      PROVE  UsersNamed'
  <2>1. serve[l].user \in ServeUser /\ UNCHANGED stop
    BY <1>2 DEF UsersNamed, LauncherStep, EnsureRead, EnsureCheck, EnsureUnlink, Spawn,
                LauncherTruncate, LauncherWrite
  <2>2. /\ \A k \in Launcher \ {l} : serve'[k] = serve[k]
        /\ serve'[l].user = serve[l].user \/ serve'[l] = NoServe
    <3>1. serve \in [Launcher -> ServeCommand]
      BY DEF Typed, TypeOK
    <3>2. CASE EnsureRead(l) \/ EnsureCheck(l) \/ EnsureUnlink(l)
      BY <3>1, <3>2 DEF EnsureRead, EnsureCheck, EnsureUnlink, ServeReturns, ServeCommand
    <3>3. ASSUME NEW p \in Pid, Spawn(l, p)
          PROVE  /\ \A k \in Launcher \ {l} : serve'[k] = serve[k]
                 /\ serve'[l].user = serve[l].user
      BY <3>1, <3>3 DEF Spawn, ServeCommand
    <3>4. CASE LauncherTruncate(l) \/ LauncherWrite(l)
      BY <3>1, <3>4 DEF LauncherTruncate, LauncherWrite, ServeReturns, ServeCommand
    <3>5. QED  BY <1>2, <3>2, <3>3, <3>4 DEF LauncherStep
  <2>3. \A q \in Pid : IsDaemon(q)' => proc'[q].user \in ServeUser
    <3>1. CASE UNCHANGED proc
      BY <3>1 DEF UsersNamed, IsDaemon
    <3>2. ASSUME NEW p \in Pid, Fork(p, serve[l].user, serve[l].config, FALSE)
          PROVE  \A q \in Pid : IsDaemon(q)' => proc'[q].user \in ServeUser
      <4>1. /\ \A q \in Pid \ {p} : proc'[q] = proc[q]
            /\ proc'[p].user = serve[l].user
        BY <3>2 DEF Fork, Typed, TypeOK
      <4>2. QED  BY <2>1, <4>1, UserKept
    <3>3. QED
      BY <1>2, <3>1, <3>2 DEF LauncherStep, EnsureRead, EnsureCheck, EnsureUnlink, Spawn,
                LauncherTruncate, LauncherWrite
  <2>4. pid_file' # NoFile => pid_owner' \in ServeUser
    BY <1>2, <2>1 DEF UsersNamed, LauncherStep, EnsureRead, EnsureCheck, EnsureUnlink, Remove,
                Spawn, LauncherTruncate, Truncate, LauncherWrite, Write
  <2>5. QED  BY <2>1, <2>2, <2>3, <2>4 DEF UsersNamed, NoServe
<1>3. ASSUME NEW s \in Stopper, StopperStep(s)
      PROVE  UsersNamed'
  <2>1. UNCHANGED serve
    BY <1>3 DEF StopperStep, StopRead, StopKill, StopUnlink
  <2>2. /\ \A t \in Stopper \ {s} : stop'[t] = stop[t]
        /\ stop[s].at # "idle"
        /\ stop'[s].user = stop[s].user \/ stop'[s] = NoStop
    BY <1>3 DEF StopperStep, StopRead, StopKill, StopUnlink, StopReturns, Typed, TypeOK, StopCommand
  <2>3. \A q \in Pid : IsDaemon(q)' => proc'[q].user \in ServeUser
    <3>1. CASE UNCHANGED proc
      BY <3>1 DEF UsersNamed, IsDaemon
    <3>2. ASSUME stop[s].target \in Pid, Signal(stop[s].target)
          PROVE  \A q \in Pid : IsDaemon(q)' => proc'[q].user \in ServeUser
      <4>1. /\ \A q \in Pid \ {stop[s].target} : proc'[q] = proc[q]
            /\ LET p == stop[s].target IN
                  \/ proc'[p] = Free
                  \/ proc'[p].user = proc[p].user /\ proc'[p].at = proc[p].at
        BY <3>2 DEF Signal, Die, Typed, TypeOK, Process
      <4>2. QED  BY <3>2, <4>1, UserKept DEF Free, IsDaemon, UsersNamed
    <3>3. QED
      BY <1>3, <3>1, <3>2 DEF StopperStep, StopRead, StopKill, StopUnlink, Typed, TargetNamed
  <2>4. pid_file' # NoFile => pid_owner' \in ServeUser
    BY <1>3 DEF UsersNamed, StopperStep, StopRead, StopKill, StopUnlink, Remove
  <2>5. QED  BY <2>1, <2>2, <2>3, <2>4 DEF UsersNamed, NoStop
<1>4. ASSUME NEW p \in Pid, NEW u \in ServeUser, NEW c \in Config, ServeForeground(p, u, c)
      PROVE  UsersNamed'
  <2>1. /\ \A q \in Pid \ {p} : proc'[q] = proc[q]
        /\ proc'[p].user = u
    BY <1>4 DEF ServeForeground, Fork, Typed, TypeOK
  <2>2. \A q \in Pid : IsDaemon(q)' => proc'[q].user \in ServeUser
    BY <2>1, UserKept
  <2>3. QED  BY <1>4, <2>2 DEF ServeForeground, UsersNamed
<1>5. ASSUME NEW l \in Launcher, NEW u \in ServeUser, NEW c \in Config, Serve(l, u, c)
      PROVE  UsersNamed'
  BY <1>5 DEF Serve, UsersNamed, IsDaemon, Typed, TypeOK, ServeCommand
<1>6. ASSUME NEW s \in Stopper, NEW u \in StopUser, NEW c \in Config, Stop(s, u, c)
      PROVE  UsersNamed'
  BY <1>6 DEF Stop, UsersNamed, IsDaemon, Typed, TypeOK, StopCommand
<1>7. ASSUME NEW p \in Pid, Crash(p) \/ OtherExits(p)
      PROVE  UsersNamed'
  <2>1. proc'[p] = Free /\ \A q \in Pid \ {p} : proc'[q] = proc[q]
    BY <1>7 DEF Crash, OtherExits, Die, Typed, TypeOK
  <2>2. \A q \in Pid : IsDaemon(q)' => proc'[q].user \in ServeUser
    BY <2>1, UserKept DEF Free, IsDaemon
  <2>3. QED  BY <1>7, <2>2 DEF Crash, OtherExits, UsersNamed
<1>8. ASSUME NEW p \in Pid, NEW u \in OtherUser, OtherStarts(p, u)
      PROVE  UsersNamed'
  <2>1. proc'[p].at = "other" /\ \A q \in Pid \ {p} : proc'[q] = proc[q]
    BY <1>8 DEF OtherStarts, Other, Free, Typed, TypeOK
  <2>2. \A q \in Pid : IsDaemon(q)' => proc'[q].user \in ServeUser
    BY <2>1, UserKept DEF IsDaemon
  <2>3. QED  BY <1>8, <2>2 DEF OtherStarts, UsersNamed
<1>9. CASE UNCHANGED vars
  BY <1>9 DEF vars, UsersNamed, IsDaemon
<1>10. QED
  BY <1>1, <1>2, <1>3, <1>4, <1>5, <1>6, <1>7, <1>8, <1>9 DEF Next, Commands, Host

\* Every reachable state is typed.
LEMMA TypeInvariance == Spec => []Typed
<1>1. QED  BY TypeInit, TypeStep, PTL DEF Spec

-----------------------------------------------------------------------------
(* One owner.                                                              *)

Kept == OneCommand /\ OneOwner /\ OwnerKnown

\* Whoever is about to write the file has it open, and nobody has removed it since;
\* nor has the child that a `serve` is about to name been signalled.
Opened ==
    /\ \A p \in Pid : proc[p].at = "write" => pid_file # NoFile
    /\ \A l \in Launcher : serve[l].at = "write" => pid_file # NoFile
    /\ \A l \in Launcher : serve[l].at \in {"truncate", "write"} =>
          ~proc[serve[l].child].term /\ proc[serve[l].child].at # "remove"

\* Nobody runs at first.
LEMMA OwnerInit == Init => Kept
BY NamesAssumption
   DEF Init, Free, NoServe, NoStop, Early, Listening, Ending,
       Kept, OwnerKnown, OneOwner, Owner, Guest, IsDaemon, OneCommand,
       Serving, Stopping, Starting

\* A process that ends, or one that has nothing to do with d2s, changes nothing.
LEMMA OwnerLeaves ==
    ASSUME Kept, NEW p \in Pid, \A q \in Pid \ {p} : proc'[q] = proc[q],
           proc'[p].at \in {"free", "other"}, ~proc'[p].byhand,
           UNCHANGED <<pid_file, pid_owner, serve, stop>>
    PROVE  Kept'
<1> USE DEF Early, Listening, Ending
<1>1. OneCommand' /\ OneOwner'
  BY DEF Kept, OneCommand, Serving, Stopping, Starting, OneOwner, Owner, Guest, IsDaemon
<1>2. OwnerKnown'
  BY DEF Kept, OwnerKnown, FileNames, GuestKnows, LauncherKnows, StopperKnows,
         Writing, Fresh, Settled, Owner, Guest, IsDaemon
<1>3. QED  BY <1>1, <1>2 DEF Kept

\* Nor does an owner that goes on once the pid file is written.
LEMMA OwnerAdvances ==
    ASSUME Kept, NEW p \in Pid, \A q \in Pid \ {p} : proc'[q] = proc[q],
           proc[p].at \in {"start"} \cup Listening,
           proc'[p].at \in {"remove"} \cup Listening, proc'[p].byhand = proc[p].byhand,
           UNCHANGED <<pid_file, pid_owner, serve, stop>>
    PROVE  Kept'
<1> USE DEF Early, Listening, Ending
<1>1. OneCommand' /\ OneOwner'
  BY DEF Kept, OneCommand, Serving, Stopping, Starting, OneOwner, Owner, Guest, IsDaemon
<1>2. OwnerKnown'
  BY DEF Kept, OwnerKnown, FileNames, GuestKnows, LauncherKnows, StopperKnows,
         Writing, Fresh, Settled, Owner, Guest, IsDaemon
<1>3. QED  BY <1>1, <1>2 DEF Kept

\* Every step keeps one owner, and what everybody knows of it.
LEMMA OwnerStep ==
    ASSUME OneAtATime, OneServeUser, Typed, UsersNamed, Kept, Opened, [Next]_vars
    PROVE  Kept'
<1> USE NamesAssumption DEF Early, Listening, Ending
<1>0. OneCommand /\ OneOwner /\ OwnerKnown
  BY DEF Kept
<1> USE <1>0
<1>00. ASSUME NEW u \in ServeUser \cup StopUser, NEW h \in Pid, Owner(h)
       PROVE  ProcessIsRunning(u, h)
  BY <1>00 DEF OneServeUser, UsersNamed, Owner, IsDaemon, ProcessIsRunning
<1>1. ASSUME NEW p \in Pid, DaemonRead(p)
      PROVE  Kept'
  <2>1. /\ \A q \in Pid \ {p} : proc'[q] = proc[q]
        /\ proc[p].at = "read"
        /\ proc'[p].byhand = proc[p].byhand
        /\ \/ pid_file = NoFile /\ proc'[p].at = "truncate"
           \/ pid_file # NoFile /\ proc'[p].at = "check" /\ proc'[p].existing = pid_file
        /\ UNCHANGED <<pid_file, pid_owner, serve, stop>>
    BY <1>1 DEF DaemonRead, Goto, Process, Typed, TypeOK, ChildNamed, TargetNamed
  <2>2. OneCommand'
    BY <2>1 DEF OneCommand, Serving, Stopping, Starting, NoServe, NoStop, Idle
  <2>3. OneOwner'
    <3>1. ASSUME NEW h \in Pid \ {p}, Guest(p), pid_file = NoFile
          PROVE  ~Owner(h)
      BY <2>1, <3>1 DEF OwnerKnown, FileNames, Writing, Fresh, Owner, Guest, OneCommand,
                        Serving, Starting, NoServe
    <3>2. QED  BY <2>1, <3>1 DEF OneOwner, Owner, Guest, IsDaemon
  <2>4. OwnerKnown'
    BY <2>1 DEF OwnerKnown, FileNames, GuestKnows, LauncherKnows,
              StopperKnows, Writing, Fresh, Settled, OneOwner, Owner, Guest, IsDaemon, OneCommand,
              Serving, Stopping, Starting, NoServe, NoStop, Idle
  <2>5. QED  BY <2>2, <2>3, <2>4 DEF Kept
<1>2. ASSUME NEW p \in Pid, DaemonCheck(p)
      PROVE  Kept'
  <2>1. ASSUME Occupied(p)
        PROVE  Kept'
    <3>1. /\ \A q \in Pid \ {p} : proc'[q] = proc[q]
          /\ proc'[p].at = "free" /\ ~proc'[p].byhand
          /\ UNCHANGED <<pid_file, pid_owner, serve, stop>>
      BY <1>2, <2>1 DEF DaemonCheck, Die, Free, Typed, TypeOK
    <3>2. QED  BY <3>1, OwnerLeaves
  <2>2. ASSUME ~Occupied(p)
        PROVE  Kept'
    <3>1. /\ proc[p].at = "check" /\ proc'[p].at = "truncate"
          /\ \A q \in Pid \ {p} : proc'[q] = proc[q]
          /\ proc'[p].byhand = proc[p].byhand
          /\ UNCHANGED <<pid_file, pid_owner, serve, stop>>
      BY <1>2, <2>2 DEF DaemonCheck, Goto, Process, Typed, TypeOK
    <3>2. ASSUME NEW h \in Pid \ {p}, Guest(p)
          PROVE  ~Owner(h)
      BY <1>00, <2>2, <3>1, <3>2 DEF OwnerKnown, GuestKnows, Occupied, UsersNamed, IsDaemon
    <3>3. OneCommand'
      BY <3>1 DEF OneCommand, Serving, Stopping, Starting
    <3>4. OneOwner'
      BY <3>1, <3>2 DEF OneOwner, Owner, Guest, IsDaemon
    <3>5. OwnerKnown'
      BY <3>1, <3>2 DEF OwnerKnown, FileNames, GuestKnows, LauncherKnows,
                StopperKnows, Writing, Fresh, Settled, OneOwner, Owner, Guest, IsDaemon, OneCommand,
                Serving, Stopping, Starting, NoServe, NoStop
    <3>6. QED  BY <3>3, <3>4, <3>5 DEF Kept
  <2>3. QED  BY <2>1, <2>2
<1>3. ASSUME NEW p \in Pid, DaemonTruncate(p)
      PROVE  Kept'
  <2>0. CASE MayWrite(proc[p].user)
    <3>1. /\ \A q \in Pid \ {p} : proc'[q] = proc[q]
          /\ proc[p].at = "truncate" /\ proc'[p].at = "write"
          /\ proc'[p].byhand = proc[p].byhand /\ proc'[p].existing = proc[p].existing
          /\ pid_file' = Empty /\ UNCHANGED <<serve, stop>>
      BY <1>3, <2>0 DEF DaemonTruncate, Truncate, Goto, Process, Typed, TypeOK, ChildNamed, TargetNamed
    <3>2. OneCommand'
      BY <3>1 DEF OneCommand, Serving, Stopping, Starting, NoServe, NoStop, Idle
    <3>3. OneOwner'
      BY <3>1 DEF OneOwner, Owner, Guest, IsDaemon, OwnerKnown, FileNames, GuestKnows, LauncherKnows,
                StopperKnows, Writing, Fresh, Settled
    <3>4. OwnerKnown'
      BY <3>1 DEF OwnerKnown, FileNames, GuestKnows, LauncherKnows,
                StopperKnows, Writing, Fresh, Settled, OneOwner, Owner, Guest, IsDaemon, OneCommand,
                Serving, Stopping, Starting, NoServe, NoStop, Idle
    <3>5. QED  BY <3>2, <3>3, <3>4 DEF Kept
  <2>1. CASE ~MayWrite(proc[p].user)
    <3>1. /\ \A q \in Pid \ {p} : proc'[q] = proc[q]
          /\ proc'[p].at = "free" /\ ~proc'[p].byhand
          /\ UNCHANGED <<pid_file, pid_owner, serve, stop>>
      BY <1>3, <2>1 DEF DaemonTruncate, Die, Free, Typed, TypeOK
    <3>2. QED  BY <3>1, OwnerLeaves
  <2>2. QED  BY <2>0, <2>1
<1>4. ASSUME NEW p \in Pid, DaemonWrite(p)
      PROVE  Kept'
  <2>1. /\ \A q \in Pid \ {p} : proc'[q] = proc[q]
        /\ proc[p].at = "write" /\ proc'[p].at = "start"
        /\ proc'[p].byhand = proc[p].byhand /\ proc'[p].existing = proc[p].existing
        /\ pid_file' = p /\ UNCHANGED <<serve, stop>>
    BY <1>4, NamesAssumption DEF Opened, DaemonWrite, Write, Goto, Process, Typed, TypeOK, ChildNamed, TargetNamed
  <2>2. OneCommand'
    BY <2>1 DEF OneCommand, Serving, Stopping, Starting, NoServe, NoStop, Idle
  <2>3. OneOwner'
    BY <2>1 DEF OneOwner, Owner, Guest, IsDaemon, OwnerKnown, FileNames, GuestKnows, LauncherKnows,
              StopperKnows, Writing, Fresh, Settled
  <2>4. OwnerKnown'
    BY <2>1 DEF OwnerKnown, FileNames, GuestKnows, LauncherKnows,
              StopperKnows, Writing, Fresh, Settled, OneOwner, Owner, Guest, IsDaemon, OneCommand,
              Serving, Stopping, Starting, NoServe, NoStop, Idle
  <2>5. QED  BY <2>2, <2>3, <2>4 DEF Kept
<1>5. ASSUME NEW p \in Pid, StartListeners(p)
      PROVE  Kept'
  <2>1. /\ \A q \in Pid \ {p} : proc'[q] = proc[q]
        /\ proc[p].at = "start" /\ proc'[p].at = "unregistered"
        /\ proc'[p].byhand = proc[p].byhand
        /\ UNCHANGED <<pid_file, pid_owner, serve, stop>>
    BY <1>5 DEF StartListeners, Goto, Process, Typed, TypeOK, ChildNamed, TargetNamed
  <2>2. QED  BY <2>1, OwnerAdvances
<1>6. ASSUME NEW p \in Pid, StartListenersFails(p)
      PROVE  Kept'
  <2>1. /\ \A q \in Pid \ {p} : proc'[q] = proc[q]
        /\ proc'[p].at = "free"
        /\ ~proc'[p].byhand
        /\ UNCHANGED <<pid_file, pid_owner, serve, stop>>
    BY <1>6 DEF StartListenersFails, Die, Free, Process, Typed, TypeOK, ChildNamed, TargetNamed
  <2>2. QED  BY <2>1, OwnerLeaves
<1>7. ASSUME NEW p \in Pid, RegisterHandler(p)
      PROVE  Kept'
  <2>1. /\ \A q \in Pid \ {p} : proc'[q] = proc[q]
        /\ proc[p].at = "unregistered" /\ proc'[p].at = "serving"
        /\ proc'[p].byhand = proc[p].byhand
        /\ UNCHANGED <<pid_file, pid_owner, serve, stop>>
    BY <1>7 DEF RegisterHandler, Goto, Process, Typed, TypeOK, ChildNamed, TargetNamed
  <2>2. QED  BY <2>1, OwnerAdvances
<1>8. ASSUME NEW p \in Pid, Shutdown(p)
      PROVE  Kept'
  <2>1. /\ \A q \in Pid \ {p} : proc'[q] = proc[q]
        /\ proc[p].at = "serving" /\ proc'[p].at = "remove"
        /\ proc'[p].byhand = proc[p].byhand
        /\ UNCHANGED <<pid_file, pid_owner, serve, stop>>
    BY <1>8 DEF Shutdown, Goto, Process, Typed, TypeOK, ChildNamed, TargetNamed
  <2>2. QED  BY <2>1, OwnerAdvances
<1>9. ASSUME NEW p \in Pid, RemovePidFile(p)
      PROVE  Kept'
  <2>1. /\ \A q \in Pid \ {p} : proc'[q] = proc[q]
        /\ proc[p].at = "remove" /\ proc'[p].at = "exit"
        /\ proc'[p].byhand = proc[p].byhand /\ proc'[p].existing = proc[p].existing
        /\ UNCHANGED <<serve, stop>>
    BY <1>9 DEF RemovePidFile, Remove, Goto, Process, Typed, TypeOK, ChildNamed, TargetNamed
  <2>2. OneCommand'
    BY <2>1 DEF OneCommand, Serving, Stopping, Starting, NoServe, NoStop, Idle
  <2>3. OneOwner'
    BY <2>1 DEF OneOwner, Owner, Guest, IsDaemon, OwnerKnown, FileNames, GuestKnows, LauncherKnows,
              StopperKnows, Writing, Fresh, Settled
  <2>4. OwnerKnown'
    BY <2>1 DEF OwnerKnown, FileNames, GuestKnows, LauncherKnows,
              StopperKnows, Writing, Fresh, Settled, OneOwner, Owner, Guest, IsDaemon, OneCommand,
              Serving, Stopping, Starting, NoServe, NoStop, Idle
  <2>5. QED  BY <2>2, <2>3, <2>4 DEF Kept
<1>10. ASSUME NEW p \in Pid, Exit(p)
      PROVE  Kept'
  <2>1. /\ \A q \in Pid \ {p} : proc'[q] = proc[q]
        /\ proc'[p].at = "free"
        /\ ~proc'[p].byhand
        /\ UNCHANGED <<pid_file, pid_owner, serve, stop>>
    BY <1>10 DEF Exit, Die, Free, Process, Typed, TypeOK, ChildNamed, TargetNamed
  <2>2. QED  BY <2>1, OwnerLeaves
<1>11. ASSUME NEW l \in Launcher, EnsureRead(l)
      PROVE  Kept'
  <2>1. /\ \A k \in Launcher \ {l} : serve'[k] = serve[k]
        /\ serve[l].at = "read"
        /\ \/ pid_file = NoFile /\ serve'[l].at = "spawn"
           \/ pid_file = Empty /\ serve'[l] = NoServe /\ serve'[l].at = "idle"
           \/ /\ pid_file \in Pid /\ serve'[l].at = "check"
              /\ serve'[l].existing = pid_file
        /\ UNCHANGED <<pid_file, pid_owner>> /\ UNCHANGED <<proc, stop>>
    BY <1>11 DEF EnsureRead, ServeReturns, NoServe, ServeCommand, Typed, TypeOK, ChildNamed, TargetNamed
  <2>2. OneCommand'
    BY <2>1 DEF OneCommand, Serving, Stopping, Starting, NoServe, NoStop, Idle
  <2>3. OneOwner'
    BY <2>1 DEF OneOwner, Owner, Guest, IsDaemon, OwnerKnown, FileNames, GuestKnows, LauncherKnows,
              StopperKnows, Writing, Fresh, Settled
  <2>4. OwnerKnown'
    BY <2>1 DEF OwnerKnown, FileNames, GuestKnows, LauncherKnows,
              StopperKnows, Writing, Fresh, Settled, OneOwner, Owner, Guest, IsDaemon, OneCommand,
              Serving, Stopping, Starting, NoServe, NoStop, Idle
  <2>5. QED  BY <2>2, <2>3, <2>4 DEF Kept
<1>12. ASSUME NEW l \in Launcher, EnsureCheck(l)
      PROVE  Kept'
  <2>1. /\ \A k \in Launcher \ {l} : serve'[k] = serve[k]
        /\ serve[l].at = "check"
        /\ \/ serve'[l] = NoServe /\ serve'[l].at = "idle"
           \/ ~ProcessIsRunning(serve[l].user, serve[l].existing) /\ serve'[l].at = "unlink"
        /\ UNCHANGED <<pid_file, pid_owner>> /\ UNCHANGED <<proc, stop>>
    BY <1>12 DEF EnsureCheck, ServeReturns, NoServe, ServeCommand, Typed, TypeOK, ChildNamed, TargetNamed
  <2>2. OneCommand'
    BY <2>1 DEF OneCommand, Serving, Stopping, Starting, NoServe, NoStop, Idle
  <2>3. OneOwner'
    BY <2>1 DEF OneOwner, Owner, Guest, IsDaemon, OwnerKnown, FileNames, GuestKnows, LauncherKnows,
              StopperKnows, Writing, Fresh, Settled
  <2>4. OwnerKnown'
    <3>1. ASSUME NEW h \in Pid, Owner(h)
          PROVE  serve'[l].at # "unlink"
      BY <1>00, <2>1, <3>1 DEF OwnerKnown, LauncherKnows, UsersNamed
    <3>2. QED
      BY <2>1, <3>1 DEF OwnerKnown, FileNames, GuestKnows, LauncherKnows,
              StopperKnows, Writing, Fresh, Settled, OneOwner, Owner, Guest, IsDaemon, OneCommand,
              Serving, Stopping, Starting, NoServe, NoStop
  <2>5. QED  BY <2>2, <2>3, <2>4 DEF Kept
<1>13. ASSUME NEW l \in Launcher, EnsureUnlink(l)
      PROVE  Kept'
  <2>1. /\ \A k \in Launcher \ {l} : serve'[k] = serve[k]
        /\ serve[l].at = "unlink" /\ serve'[l].at = "spawn"
        /\ UNCHANGED <<proc, stop>>
    BY <1>13 DEF EnsureUnlink, Remove, ServeCommand, Typed, TypeOK, ChildNamed, TargetNamed
  <2>2. OneCommand'
    BY <2>1 DEF OneCommand, Serving, Stopping, Starting, NoServe, NoStop, Idle
  <2>3. OneOwner'
    BY <2>1 DEF OneOwner, Owner, Guest, IsDaemon, OwnerKnown, FileNames, GuestKnows, LauncherKnows,
              StopperKnows, Writing, Fresh, Settled
  <2>4. OwnerKnown'
    BY <2>1 DEF OwnerKnown, FileNames, GuestKnows, LauncherKnows,
              StopperKnows, Writing, Fresh, Settled, OneOwner, Owner, Guest, IsDaemon, OneCommand,
              Serving, Stopping, Starting, NoServe, NoStop, Idle
  <2>5. QED  BY <2>2, <2>3, <2>4 DEF Kept
<1>14. ASSUME NEW l \in Launcher, NEW p \in Pid, Spawn(l, p)
      PROVE  Kept'
  <2>1. /\ \A k \in Launcher \ {l} : serve'[k] = serve[k]
        /\ serve[l].at = "spawn" /\ serve'[l].at = "truncate" /\ serve'[l].child = p
        /\ UNCHANGED <<pid_file, pid_owner>> /\ UNCHANGED stop
        /\ \A q \in Pid \ {p} : proc'[q] = proc[q]
        /\ proc[p].at = "free" /\ proc'[p].at = "read"
        /\ ~proc'[p].byhand
    BY <1>14 DEF Spawn, Fork, Free, ServeCommand, Process, Typed, TypeOK, ChildNamed, TargetNamed
  <2>2. OneCommand'
    BY <2>1 DEF OneCommand, Serving, Stopping, Starting, NoServe, NoStop, Idle
  <2>3. OneOwner'
    BY <2>1 DEF OneOwner, Owner, Guest, IsDaemon, OwnerKnown, FileNames, GuestKnows, LauncherKnows,
              StopperKnows, Writing, Fresh, Settled
  <2>4. OwnerKnown'
    <3>1. \A h \in Pid : ~Owner(h)
      BY <2>1 DEF OwnerKnown, LauncherKnows
    <3>2. /\ \A k \in Launcher \ {l} : serve[k] = NoServe
          /\ \A t \in Stopper : stop[t] = NoStop
          /\ \A q \in Pid : ~Guest(q)
      BY <2>1 DEF OneCommand, Serving, Stopping, Starting, Guest, NoServe
    <3>3. \A q \in Pid : ~Guest(q)'
      BY <2>1, <3>2 DEF Guest
    <3>4. ASSUME NEW h \in Pid, Owner(h)'
          PROVE  h = p
      BY <2>1, <3>1, <3>4 DEF Owner, Guest, IsDaemon
    <3>5. Writing' /\ ~Settled(p)'
      BY <2>1 DEF Writing, Settled
    <3>6. FileNames(p)' /\ GuestKnows(p)'
      BY <3>3, <3>5 DEF FileNames, GuestKnows
    <3>7. LauncherKnows(p)' /\ StopperKnows(p)'
      BY <2>1, <3>2 DEF LauncherKnows, StopperKnows, NoServe, NoStop
    <3>8. QED  BY <3>4, <3>6, <3>7 DEF OwnerKnown
  <2>5. QED  BY <2>2, <2>3, <2>4 DEF Kept
<1>15. ASSUME NEW l \in Launcher, LauncherTruncate(l)
      PROVE  Kept'
  <2>1. /\ \A k \in Launcher \ {l} : serve'[k] = serve[k]
        /\ serve[l].at = "truncate" /\ serve'[l].at = "write"
        /\ serve'[l].child = serve[l].child
        /\ pid_file' = Empty /\ UNCHANGED <<proc, stop>>
    <3>1. MayWrite(serve[l].user)
      BY <1>15 DEF LauncherTruncate, MayWrite, OneServeUser, UsersNamed
    <3>2. QED
      BY <1>15, <3>1 DEF LauncherTruncate, Truncate, ServeCommand, Typed, TypeOK, ChildNamed, TargetNamed
  <2>2. OneCommand'
    BY <2>1 DEF OneCommand, Serving, Stopping, Starting, NoServe, NoStop, Idle
  <2>3. OneOwner'
    BY <2>1 DEF OneOwner, Owner, Guest, IsDaemon, OwnerKnown, FileNames, GuestKnows, LauncherKnows,
              StopperKnows, Writing, Fresh, Settled
  <2>4. OwnerKnown'
    BY <2>1 DEF OwnerKnown, FileNames, GuestKnows, LauncherKnows,
              StopperKnows, Writing, Fresh, Settled, OneOwner, Owner, Guest, IsDaemon, OneCommand,
              Serving, Stopping, Starting, NoServe, NoStop, Idle
  <2>5. QED  BY <2>2, <2>3, <2>4 DEF Kept
<1>16. ASSUME NEW l \in Launcher, LauncherWrite(l)
      PROVE  Kept'
  <2>1. /\ \A k \in Launcher \ {l} : serve'[k] = serve[k]
        /\ serve[l].at = "write"
        /\ serve'[l] = NoServe /\ serve'[l].at = "idle"
        /\ pid_file' = serve[l].child /\ UNCHANGED <<proc, stop>>
    BY <1>16 DEF Opened, LauncherWrite, Write, ServeReturns, NoServe, ServeCommand, Typed, TypeOK, ChildNamed, TargetNamed
  <2>2. OneCommand'
    BY <2>1 DEF OneCommand, Serving, Stopping, Starting, NoServe, NoStop, Idle
  <2>3. OneOwner'
    BY <2>1 DEF OneOwner, Owner, Guest, IsDaemon, OwnerKnown, FileNames, GuestKnows, LauncherKnows,
              StopperKnows, Writing, Fresh, Settled
  <2>4. OwnerKnown'
    BY <2>1 DEF OwnerKnown, FileNames, GuestKnows, LauncherKnows,
              StopperKnows, Writing, Fresh, Settled, OneOwner, Owner, Guest, IsDaemon, OneCommand,
              Serving, Stopping, Starting, NoServe, NoStop, Idle
  <2>5. QED  BY <2>2, <2>3, <2>4 DEF Kept
<1>17. ASSUME NEW s \in Stopper, StopRead(s)
      PROVE  Kept'
  <2>1. /\ \A t \in Stopper \ {s} : stop'[t] = stop[t]
        /\ stop[s].at = "read"
        /\ \/ stop'[s] = NoStop /\ stop'[s].at = "idle"
           \/ /\ pid_file \in Pid /\ stop'[s].at = "kill"
              /\ stop'[s].target = pid_file
        /\ UNCHANGED <<pid_file, pid_owner>> /\ UNCHANGED <<proc, serve>>
    BY <1>17 DEF StopRead, StopReturns, NoStop, StopCommand, Typed, TypeOK, ChildNamed, TargetNamed
  <2>2. OneCommand'
    BY <2>1 DEF OneCommand, Serving, Stopping, Starting, NoServe, NoStop, Idle
  <2>3. OneOwner'
    BY <2>1 DEF OneOwner, Owner, Guest, IsDaemon, OwnerKnown, FileNames, GuestKnows, LauncherKnows,
              StopperKnows, Writing, Fresh, Settled
  <2>4. OwnerKnown'
    BY <2>1 DEF OwnerKnown, FileNames, GuestKnows, LauncherKnows,
              StopperKnows, Writing, Fresh, Settled, OneOwner, Owner, Guest, IsDaemon, OneCommand,
              Serving, Stopping, Starting, NoServe, NoStop, Idle
  <2>5. QED  BY <2>2, <2>3, <2>4 DEF Kept
<1>18. ASSUME NEW s \in Stopper, StopKill(s)
      PROVE  Kept'
  <2>1. stop[s].at = "kill" /\ stop[s].target \in Pid
    BY <1>18 DEF StopKill, Typed, TargetNamed
  <2>2. ASSUME proc[stop[s].target] # Free
        PROVE  Kept'
    <3>1. /\ \A t \in Stopper \ {s} : stop'[t] = stop[t]
          /\ stop'[s] = NoStop /\ stop'[s].at = "idle"
          /\ UNCHANGED <<pid_file, pid_owner, serve>>
      BY <1>18, <2>2 DEF StopKill, StopReturns, NoStop, Typed, TypeOK
    <3>2. ASSUME NEW q \in Pid
          PROVE  \/ /\ proc'[q].at = proc[q].at /\ proc'[q].byhand = proc[q].byhand
                    /\ proc'[q].existing = proc[q].existing
                 \/ proc'[q].at = "free" /\ ~proc'[q].byhand
      BY <1>18, <2>1, <2>2, <3>2 DEF StopKill, Signal, Die, Free, Process, Typed, TypeOK
    <3>3. OneCommand' /\ OneOwner'
      BY <3>1, <3>2 DEF OneOwner, Owner, Guest, IsDaemon, OneCommand, Serving, Stopping, Starting
    <3>4. OwnerKnown'
      BY <3>1, <3>2 DEF OwnerKnown, FileNames, GuestKnows, LauncherKnows,
                StopperKnows, Writing, Fresh, Settled, OneOwner, Owner, Guest, IsDaemon, OneCommand,
                Serving, Stopping, Starting, NoServe, NoStop
    <3>5. QED  BY <3>3, <3>4 DEF Kept
  <2>3. ASSUME proc[stop[s].target] = Free
        PROVE  Kept'
    <3>1. /\ \A t \in Stopper \ {s} : stop'[t] = stop[t]
          /\ stop'[s].at = "unlink"
          /\ UNCHANGED <<pid_file, pid_owner, proc, serve>>
      <4>1. stop' = [stop EXCEPT ![s].at = "unlink"] /\ UNCHANGED <<pid_file, pid_owner, proc, serve>>
        BY <1>18, <2>3 DEF StopKill, ProcessIsRunning, Free
      <4>2. QED  BY <4>1 DEF StopCommand, Typed, TypeOK
    <3>2. ASSUME NEW h \in Pid
          PROVE  ~Owner(h)
      BY <2>1, <2>3, <3>2 DEF OwnerKnown, StopperKnows, Owner, IsDaemon, Free
    <3>3. OneCommand' /\ OneOwner'
      BY <2>1, <3>1 DEF OneOwner, Owner, Guest, IsDaemon, OneCommand, Serving, Stopping, Starting, NoStop
    <3>4. OwnerKnown'
      BY <3>1, <3>2 DEF OwnerKnown, Owner, Guest, IsDaemon
    <3>5. QED  BY <3>3, <3>4 DEF Kept
  <2>4. QED  BY <2>2, <2>3
<1>19. ASSUME NEW s \in Stopper, StopUnlink(s)
      PROVE  Kept'
  <2>1. /\ \A t \in Stopper \ {s} : stop'[t] = stop[t]
        /\ stop[s].at = "unlink"
        /\ stop'[s] = NoStop /\ stop'[s].at = "idle"
        /\ UNCHANGED <<proc, serve>>
    BY <1>19 DEF StopUnlink, Remove, StopReturns, NoStop, StopCommand, Typed, TypeOK, ChildNamed, TargetNamed
  <2>2. OneCommand'
    BY <2>1 DEF OneCommand, Serving, Stopping, Starting, NoServe, NoStop, Idle
  <2>3. OneOwner'
    BY <2>1 DEF OneOwner, Owner, Guest, IsDaemon, OwnerKnown, FileNames, GuestKnows, LauncherKnows,
              StopperKnows, Writing, Fresh, Settled
  <2>4. OwnerKnown'
    BY <2>1 DEF OwnerKnown, FileNames, GuestKnows, LauncherKnows,
              StopperKnows, Writing, Fresh, Settled, OneOwner, Owner, Guest, IsDaemon, OneCommand,
              Serving, Stopping, Starting, NoServe, NoStop, Idle
  <2>5. QED  BY <2>2, <2>3, <2>4 DEF Kept
<1>20. ASSUME NEW p \in Pid, NEW u \in ServeUser, NEW c \in Config,
             ServeForeground(p, u, c)
      PROVE  Kept'
  <2>1. /\ \A q \in Pid \ {p} : proc'[q] = proc[q]
        /\ proc[p].at = "free" /\ proc'[p].at = "read"
        /\ proc'[p].byhand
        /\ UNCHANGED <<pid_file, pid_owner, serve, stop>> /\ Idle
    BY <1>20 DEF ServeForeground, Fork, Free, MayStart, Process, Typed, TypeOK, ChildNamed, TargetNamed
  <2>2. OneCommand'
    BY <2>1 DEF OneCommand, Serving, Stopping, Starting, NoServe, NoStop, Idle
  <2>3. OneOwner'
    BY <2>1 DEF OneOwner, Owner, Guest, IsDaemon, OwnerKnown, FileNames, GuestKnows, LauncherKnows,
              StopperKnows, Writing, Fresh, Settled
  <2>4. OwnerKnown'
    BY <2>1 DEF OwnerKnown, FileNames, GuestKnows, LauncherKnows,
              StopperKnows, Writing, Fresh, Settled, OneOwner, Owner, Guest, IsDaemon, OneCommand,
              Serving, Stopping, Starting, NoServe, NoStop, Idle
  <2>5. QED  BY <2>2, <2>3, <2>4 DEF Kept
<1>21. ASSUME NEW l \in Launcher, NEW u \in ServeUser, NEW c \in Config,
             Serve(l, u, c)
      PROVE  Kept'
  <2>1. /\ \A k \in Launcher \ {l} : serve'[k] = serve[k]
        /\ Idle /\ serve[l].at = "idle" /\ serve'[l].at = "read"
        /\ UNCHANGED <<pid_file, pid_owner>> /\ UNCHANGED <<proc, stop>>
    BY <1>21 DEF Serve, NoServe, MayStart, ServeCommand, Typed, TypeOK, ChildNamed, TargetNamed
  <2>2. OneCommand'
    BY <2>1 DEF OneCommand, Serving, Stopping, Starting, NoServe, NoStop, Idle
  <2>3. OneOwner'
    BY <2>1 DEF OneOwner, Owner, Guest, IsDaemon, OwnerKnown, FileNames, GuestKnows, LauncherKnows,
              StopperKnows, Writing, Fresh, Settled
  <2>4. OwnerKnown'
    BY <2>1 DEF OwnerKnown, FileNames, GuestKnows, LauncherKnows,
              StopperKnows, Writing, Fresh, Settled, OneOwner, Owner, Guest, IsDaemon, OneCommand,
              Serving, Stopping, Starting, NoServe, NoStop, Idle
  <2>5. QED  BY <2>2, <2>3, <2>4 DEF Kept
<1>22. ASSUME NEW s \in Stopper, NEW u \in StopUser, NEW c \in Config,
             Stop(s, u, c)
      PROVE  Kept'
  <2>1. /\ \A t \in Stopper \ {s} : stop'[t] = stop[t]
        /\ Idle /\ stop[s].at = "idle" /\ stop'[s].at = "read"
        /\ UNCHANGED <<pid_file, pid_owner>> /\ UNCHANGED <<proc, serve>>
    BY <1>22 DEF Stop, NoStop, MayStart, StopCommand, Typed, TypeOK, ChildNamed, TargetNamed
  <2>2. OneCommand'
    BY <2>1 DEF OneCommand, Serving, Stopping, Starting, NoServe, NoStop, Idle
  <2>3. OneOwner'
    BY <2>1 DEF OneOwner, Owner, Guest, IsDaemon, OwnerKnown, FileNames, GuestKnows, LauncherKnows,
              StopperKnows, Writing, Fresh, Settled
  <2>4. OwnerKnown'
    BY <2>1 DEF OwnerKnown, FileNames, GuestKnows, LauncherKnows,
              StopperKnows, Writing, Fresh, Settled, OneOwner, Owner, Guest, IsDaemon, OneCommand,
              Serving, Stopping, Starting, NoServe, NoStop, Idle
  <2>5. QED  BY <2>2, <2>3, <2>4 DEF Kept
<1>23. ASSUME NEW p \in Pid, Crash(p)
      PROVE  Kept'
  <2>1. /\ \A q \in Pid \ {p} : proc'[q] = proc[q]
        /\ proc'[p].at = "free"
        /\ ~proc'[p].byhand
        /\ UNCHANGED <<pid_file, pid_owner, serve, stop>>
    BY <1>23 DEF Crash, Die, Free, Process, Typed, TypeOK, ChildNamed, TargetNamed
  <2>2. QED  BY <2>1, OwnerLeaves
<1>24. ASSUME NEW p \in Pid, NEW u \in OtherUser, OtherStarts(p, u)
      PROVE  Kept'
  <2>1. /\ \A q \in Pid \ {p} : proc'[q] = proc[q]
        /\ proc'[p].at = "other"
        /\ ~proc'[p].byhand
        /\ UNCHANGED <<pid_file, pid_owner, serve, stop>>
    BY <1>24 DEF OtherStarts, Other, Free, Process, Typed, TypeOK, ChildNamed, TargetNamed
  <2>2. QED  BY <2>1, OwnerLeaves
<1>25. ASSUME NEW p \in Pid, OtherExits(p)
      PROVE  Kept'
  <2>1. /\ \A q \in Pid \ {p} : proc'[q] = proc[q]
        /\ proc'[p].at = "free"
        /\ ~proc'[p].byhand
        /\ UNCHANGED <<pid_file, pid_owner, serve, stop>>
    BY <1>25 DEF OtherExits, Die, Free, Process, Typed, TypeOK, ChildNamed, TargetNamed
  <2>2. QED  BY <2>1, OwnerLeaves
<1>26. ASSUME UNCHANGED vars
      PROVE  Kept'
  BY <1>26 DEF vars, Kept, OwnerKnown, FileNames, GuestKnows, LauncherKnows,
          StopperKnows, Writing, Fresh, Settled, OneOwner, Owner, Guest, IsDaemon, OneCommand,
          Serving, Stopping, Starting
<1>27. QED
  BY <1>1, <1>2, <1>3, <1>4, <1>5, <1>6, <1>7, <1>8, <1>9, <1>10, <1>11, <1>12, <1>13,
     <1>14, <1>15, <1>16, <1>17, <1>18, <1>19, <1>20, <1>21, <1>22, <1>23, <1>24, <1>25, <1>26
     DEF Next, DaemonStep, LauncherStep, StopperStep, Commands, Host

\* Every step keeps the file open for those who write it.
LEMMA OpenStep ==
    ASSUME Typed, Kept, Opened, [Next]_vars
    PROVE  Opened'
<1> USE NamesAssumption DEF Early, Listening, Ending
<1>1. ASSUME NEW p \in Pid, DaemonStep(p)
      PROVE  Opened'
  <2>1. UNCHANGED serve
    BY <1>1 DEF DaemonStep, DaemonRead, DaemonCheck, DaemonTruncate, DaemonWrite,
                StartListeners, StartListenersFails, RegisterHandler, Shutdown,
                RemovePidFile, Exit
  <2>2. /\ \A q \in Pid \ {p} : proc'[q] = proc[q]
        /\ proc'[p].term => proc[p].term
        /\ proc'[p].at = "remove" => proc[p].term
        /\ proc'[p].at = "write" => pid_file' # NoFile
    <3>1. ASSUME NEW where, Goto(p, where)
          PROVE  /\ \A q \in Pid \ {p} : proc'[q] = proc[q]
                 /\ proc'[p].term = proc[p].term /\ proc'[p].at = where
      BY <3>1 DEF Goto, Typed, TypeOK, Process
    <3>2. ASSUME Die(p)
          PROVE  proc'[p] = Free /\ \A q \in Pid \ {p} : proc'[q] = proc[q]
      BY <3>2 DEF Die, Typed, TypeOK
    <3>3. CASE DaemonRead(p)
      BY <3>1, <3>3 DEF DaemonRead, Typed, TypeOK, Process
    <3>4. CASE DaemonTruncate(p)
      BY <3>1, <3>2, <3>4 DEF DaemonTruncate, Truncate, Free
    <3>5. CASE Shutdown(p)
      BY <3>1, <3>5 DEF Shutdown, Opened
    <3>6. QED
      BY <1>1, <3>1, <3>2, <3>3, <3>4, <3>5 DEF DaemonStep, DaemonCheck, DaemonWrite, Free,
         StartListeners, StartListenersFails, RegisterHandler, RemovePidFile, Exit
  <2>3. \A l \in Launcher : serve[l].at \in {"truncate", "write"} =>
          ~proc'[serve[l].child].term /\ proc'[serve[l].child].at # "remove"
    BY <2>2 DEF Opened, Typed, ChildNamed
  <2>4. CASE RemovePidFile(p)
    <3>1. proc[p].at = "remove" /\ Owner(p)
      BY <2>4 DEF RemovePidFile, Owner, Guest, IsDaemon
    <3>2. \A q \in Pid : proc[q].at # "write"
      BY <3>1 DEF Kept, OneOwner, Owner, Guest, IsDaemon
    <3>3. \A l \in Launcher : serve[l].at # "write"
      BY <3>1 DEF Kept, OwnerKnown, LauncherKnows, Opened
    <3>4. proc'[p].at # "write"
      BY <2>4 DEF RemovePidFile, Goto, Typed, TypeOK, Process
    <3>5. QED  BY <2>1, <2>2, <2>3, <3>2, <3>3, <3>4 DEF Opened
  <2>5. CASE pid_file' = NoFile => pid_file = NoFile
    BY <2>1, <2>2, <2>3, <2>5 DEF Opened
  <2>6. QED
    BY <1>1, <2>4, <2>5 DEF DaemonStep, DaemonRead, DaemonCheck, DaemonTruncate, Truncate,
                DaemonWrite, Write, StartListeners, StartListenersFails, RegisterHandler,
                Shutdown, Exit
<1>2. ASSUME NEW l \in Launcher, LauncherStep(l)
      PROVE  Opened'
  <2>1. Serving(l) /\ \A k \in Launcher \ {l} : serve[k] = NoServe
    <3>1. serve[l].at # "idle"
      BY <1>2 DEF LauncherStep, EnsureRead, EnsureCheck, EnsureUnlink, Spawn, LauncherTruncate,
                LauncherWrite
    <3>2. QED  BY <3>1 DEF Serving, NoServe, Kept, OneCommand
  <2>2. serve[l] \in ServeCommand /\ \A k \in Launcher \ {l} : serve'[k] = NoServe
    BY <1>2, <2>1 DEF LauncherStep, EnsureRead, EnsureCheck, EnsureUnlink, Spawn,
                LauncherTruncate, LauncherWrite, ServeReturns, Typed, TypeOK
  <2>3. CASE EnsureRead(l) \/ EnsureCheck(l)
    <3>1. serve'[l].at \notin {"truncate", "write"} /\ UNCHANGED <<pid_file, proc>>
      BY <2>2, <2>3 DEF EnsureRead, EnsureCheck, ServeReturns, NoServe, Typed, TypeOK, ServeCommand
    <3>2. QED  BY <2>2, <3>1 DEF Opened, NoServe
  <2>4. CASE EnsureUnlink(l)
    <3>1. \A q \in Pid : proc[q].at # "write"
      BY <2>4 DEF EnsureUnlink, Kept, OwnerKnown, LauncherKnows, Owner, Guest, IsDaemon
    <3>2. serve'[l].at = "spawn" /\ UNCHANGED proc
      BY <2>2, <2>4 DEF EnsureUnlink, Typed, TypeOK, ServeCommand
    <3>3. QED  BY <2>2, <3>1, <3>2 DEF Opened, NoServe
  <2>5. ASSUME NEW p \in Pid, Spawn(l, p)
        PROVE  Opened'
    <3>1. /\ serve'[l].at = "truncate" /\ serve'[l].child = p
          /\ ~proc'[p].term /\ proc'[p].at = "read"
          /\ \A q \in Pid \ {p} : proc'[q] = proc[q]
          /\ UNCHANGED pid_file
      BY <2>2, <2>5 DEF Spawn, Fork, Typed, TypeOK, ServeCommand
    <3>2. QED  BY <2>2, <3>1 DEF Opened, NoServe
  <2>6. CASE LauncherTruncate(l)
    <3>1. /\ serve'[l].at = "write" => serve'[l].child = serve[l].child /\ pid_file' = Empty
          /\ serve'[l].at # "truncate" /\ serve[l].at = "truncate"
          /\ pid_file' \in {Empty, pid_file} /\ UNCHANGED proc
      BY <2>2, <2>6 DEF LauncherTruncate, Truncate, ServeReturns, NoServe, Typed, TypeOK, ServeCommand
    <3>2. QED  BY <2>2, <3>1 DEF Opened, NoServe
  <2>7. CASE LauncherWrite(l)
    <3>1. serve'[l].at = "idle" /\ UNCHANGED proc
      BY <2>2, <2>7 DEF LauncherWrite, ServeReturns, NoServe, Typed, TypeOK
    <3>2. pid_file' # NoFile
      BY <2>7 DEF LauncherWrite, Write, Opened, Typed, ChildNamed
    <3>3. QED  BY <2>2, <3>1, <3>2 DEF Opened, NoServe
  <2>8. QED  BY <1>2, <2>3, <2>4, <2>5, <2>6, <2>7 DEF LauncherStep
<1>3. ASSUME NEW s \in Stopper, StopperStep(s)
      PROVE  Opened'
  <2>1. \A l \in Launcher : serve[l] = NoServe /\ serve'[l] = NoServe
    BY <1>3 DEF StopperStep, StopRead, StopKill, StopUnlink, Kept, OneCommand, Serving,
                Stopping, NoStop
  <2>2. CASE StopRead(s)
    BY <2>1, <2>2 DEF StopRead, Opened, NoServe
  <2>3. CASE StopKill(s)
    <3>1. ASSUME NEW q \in Pid, proc'[q].at = "write"
          PROVE  proc[q].at = "write"
      BY <2>3, <3>1 DEF StopKill, Signal, Die, Free, Typed, TypeOK, TargetNamed, Process
    <3>2. UNCHANGED pid_file
      BY <2>3 DEF StopKill
    <3>3. QED  BY <2>1, <3>1, <3>2 DEF Opened, NoServe
  <2>4. CASE StopUnlink(s)
    <3>1. \A q \in Pid : proc[q].at # "write"
      BY <2>4 DEF StopUnlink, Kept, OwnerKnown, StopperKnows, Owner, Guest, IsDaemon
    <3>2. QED  BY <2>1, <2>4, <3>1 DEF StopUnlink, Opened, NoServe
  <2>5. QED  BY <1>3, <2>2, <2>3, <2>4 DEF StopperStep
<1>4. ASSUME NEW p \in Pid, NEW u \in ServeUser, NEW c \in Config, ServeForeground(p, u, c)
      PROVE  Opened'
  <2>1. /\ \A q \in Pid \ {p} : proc'[q] = proc[q]
        /\ proc'[p].at = "read" /\ ~proc'[p].term
        /\ UNCHANGED <<pid_file, serve>>
    BY <1>4 DEF ServeForeground, Fork, Typed, TypeOK
  <2>2. QED  BY <2>1 DEF Opened, Typed, ChildNamed
<1>5. ASSUME NEW l \in Launcher, NEW u \in ServeUser, NEW c \in Config, Serve(l, u, c)
      PROVE  Opened'
  <2>1. /\ serve'[l].at = "read" /\ \A k \in Launcher \ {l} : serve'[k] = serve[k]
        /\ UNCHANGED <<pid_file, proc>>
    BY <1>5 DEF Serve, Typed, TypeOK, ServeCommand
  <2>2. QED  BY <2>1 DEF Opened
<1>6. ASSUME NEW s \in Stopper, NEW u \in StopUser, NEW c \in Config, Stop(s, u, c)
      PROVE  Opened'
  BY <1>6 DEF Stop, Opened
<1>7. ASSUME Host
      PROVE  Opened'
  <2>1. \A q \in Pid : proc'[q] = proc[q] \/ (proc'[q].at \in {"free", "other"} /\ ~proc'[q].term)
    <3>1. ASSUME NEW r \in Pid, Die(r)
          PROVE  \A q \in Pid : proc'[q] = proc[q] \/ (proc'[q].at = "free" /\ ~proc'[q].term)
      BY <3>1 DEF Die, Free, Typed, TypeOK
    <3>2. ASSUME NEW r \in Pid, NEW u \in OtherUser, OtherStarts(r, u)
          PROVE  \A q \in Pid : proc'[q] = proc[q] \/ (proc'[q].at = "other" /\ ~proc'[q].term)
      BY <3>2 DEF OtherStarts, Other, Free, Typed, TypeOK
    <3>3. QED  BY <1>7, <3>1, <3>2 DEF Host, Crash, OtherExits
  <2>2. UNCHANGED <<pid_file, serve>>
    BY <1>7 DEF Host, Crash, OtherStarts, OtherExits
  <2>3. QED  BY <2>1, <2>2 DEF Opened, Typed, ChildNamed
<1>8. CASE UNCHANGED vars
  BY <1>8 DEF vars, Opened
<1>9. QED
  BY <1>1, <1>2, <1>3, <1>4, <1>5, <1>6, <1>7, <1>8 DEF Next, Commands, Host

\* Nobody has the file open at first.
LEMMA OpenInit == Init => Opened
BY DEF Init, Free, NoServe, Opened

\* One owner in every reachable state.
LEMMA OwnerInvariance ==
    ASSUME OneAtATime, OneServeUser PROVE Spec => [](Typed /\ UsersNamed /\ Kept)
<1>1. Typed /\ UsersNamed /\ Kept /\ Opened /\ [Next]_vars => Kept' /\ Opened'
  BY OwnerStep, OpenStep
<1>2. QED
  BY TypeInit, TypeStep, UsersInit, UsersStep, OwnerInit, OpenInit, <1>1, PTL DEF Spec

-----------------------------------------------------------------------------
(* The theorems.                                                           *)

\* Every reachable state has the declared type, whatever runs at the same time.
THEOREM TypeCorrect == Spec => []TypeOK
<1>1. Typed => TypeOK
  BY DEF Typed
<1>2. QED  BY <1>1, TypeInvariance, PTL

\* Commands that are run one at a time never bring two daemons of a directory
\* past the check of the pid file, whatever crashes and pids are reused.
THEOREM OnlyOneDaemon == ASSUME OneAtATime, OneServeUser PROVE Spec => []OneDaemon
<1>1. Kept => OneDaemon
  BY DEF Kept, OneOwner, OneDaemon, Claims, Owner, Guest, IsDaemon, Early, Listening, Ending
<1>2. QED  BY <1>1, OwnerInvariance, PTL

\* When no command is under way, `stop` finds the daemon that serves.
THEOREM DaemonIsTracked == ASSUME OneAtATime, OneServeUser PROVE Spec => []Tracked
<1>1. ASSUME Typed, Kept, NEW p \in Pid, Idle, proc[p].at = "serving"
      PROVE  pid_file = p
  <2>1. Owner(p)
    BY <1>1 DEF Owner, Guest, IsDaemon, Early, Listening, Ending
  <2>2. Settled(p)
    BY <1>1 DEF Settled, Listening, Idle, NoServe
  <2>3. QED  BY <1>1, <2>1, <2>2 DEF Kept, OwnerKnown, FileNames
<1>2. Typed /\ Kept => Tracked
  BY <1>1 DEF Tracked
<1>3. QED  BY <1>2, OwnerInvariance, PTL

\* Nobody removes the pid file of a daemon that listens.
THEOREM LiveFileStays == ASSUME OneAtATime, OneServeUser PROVE Spec => NoLiveFileRemoved
<1> DEFINE Stays == \A p \in Pid :
                       pid_file = p /\ proc[p].at \in Listening => pid_file' # NoFile
<1>1. ASSUME Typed, UsersNamed, Kept, [Next]_vars
      PROVE  [Stays]_vars
  <2>1. SUFFICES ASSUME Next, NEW p \in Pid, pid_file = p, proc[p].at \in Listening,
                        pid_file' = NoFile
                 PROVE  FALSE
    BY <1>1
  <2>2. Owner(p)
    BY <2>1 DEF Owner, Guest, IsDaemon, Early, Listening, Ending
  <2>3. ASSUME NEW q \in Pid, RemovePidFile(q)
        PROVE  FALSE
    <3>1. Owner(q) /\ q # p
      BY <2>1, <2>3 DEF RemovePidFile, Owner, Guest, IsDaemon, Early, Listening, Ending
    <3>2. QED  BY <1>1, <2>2, <3>1 DEF Kept, OneOwner
  <2>4. ASSUME NEW l \in Launcher, EnsureUnlink(l)
        PROVE  FALSE
    BY <1>1, <2>2, <2>4 DEF EnsureUnlink, Kept, OwnerKnown, LauncherKnows
  <2>5. ASSUME NEW s \in Stopper, StopUnlink(s)
        PROVE  FALSE
    BY <1>1, <2>2, <2>5 DEF StopUnlink, Kept, OwnerKnown, StopperKnows
  <2>6. CASE pid_file' \in Pid \cup {Empty, pid_file}
    BY <2>1, <2>6, NamesAssumption
  <2>7. QED
    BY <1>1, <2>1, <2>3, <2>4, <2>5, <2>6, NamesAssumption
       DEF Next, DaemonStep, LauncherStep, StopperStep, Commands, Host,
           DaemonRead, DaemonCheck, DaemonTruncate, Truncate, DaemonWrite, Write, StartListeners,
           StartListenersFails, RegisterHandler, Shutdown, Exit,
           EnsureRead, EnsureCheck, Spawn, LauncherTruncate, LauncherWrite, Typed, ChildNamed,
           StopRead, StopKill, ServeForeground, Serve, Stop, Crash, OtherStarts, OtherExits
<1>2. Typed /\ UsersNamed /\ Kept /\ [Next]_vars => [Stays]_vars
  BY <1>1
<1>3. Spec => [](Typed /\ UsersNamed /\ Kept)
  BY OwnerInvariance
<1>4. QED  BY <1>2, <1>3, PTL DEF Spec, NoLiveFileRemoved

-----------------------------------------------------------------------------
(* What `stop` achieves.                                                   *)

\* While a `stop` runs, the file names the daemon that listens.
LEMMA FileNamesListener ==
    ASSUME Typed, Kept, NEW s \in Stopper, stop[s] # NoStop,
           NEW p \in Pid, proc[p].at \in Listening
    PROVE  Owner(p) /\ pid_file = p
<1>1. Owner(p)
  BY DEF Owner, Guest, IsDaemon, Early, Listening, Ending
<1>2. \A l \in Launcher : serve[l].at # "write"
  BY DEF Kept, OneCommand, Serving, Stopping, NoServe
<1>3. Settled(p)
  BY <1>2 DEF Settled
<1>4. QED  BY <1>1, <1>3 DEF Kept, OwnerKnown, FileNames

\* A `stop` that returns while a daemon listens was about to signal it.
LEMMA StopReturnsByKill ==
    ASSUME Typed, Kept, Next, NEW s \in Stopper, stop[s] # NoStop, stop'[s] = NoStop,
           NEW p \in Pid, proc[p].at \in Listening
    PROVE  StopKill(s) /\ stop[s].target = p
<1>1. Owner(p) /\ pid_file = p
  BY FileNamesListener
<1>2. ASSUME NEW t \in Stopper, StopRead(t)
      PROVE  FALSE
  <2>1. t = s
    BY <1>2 DEF StopRead, StopReturns, Typed, TypeOK
  <2>2. stop'[s].at = "kill"
    BY <1>1, <1>2, <2>1 DEF StopRead, Typed, TypeOK, StopCommand
  <2>3. QED  BY <2>2 DEF NoStop
<1>3. ASSUME NEW t \in Stopper, StopUnlink(t)
      PROVE  FALSE
  BY <1>1, <1>3 DEF StopUnlink, Kept, OwnerKnown, StopperKnows
<1>4. ASSUME NEW t \in Stopper, StopKill(t)
      PROVE  t = s /\ stop[s].target = p
  <2>1. t = s
    BY <1>4 DEF StopKill, StopReturns, Typed, TypeOK
  <2>2. QED  BY <1>1, <1>4, <2>1 DEF StopKill, Kept, OwnerKnown, StopperKnows
<1>5. ASSUME NEW t \in Stopper, NEW u \in StopUser, NEW c \in Config, Stop(t, u, c)
      PROVE  FALSE
  BY <1>5 DEF Stop, Typed, TypeOK
<1>6. UNCHANGED stop \/ StopKill(s)
  BY <1>2, <1>3, <1>4, <1>5
     DEF Next, DaemonStep, LauncherStep, StopperStep, Commands, Host,
         DaemonRead, DaemonCheck, DaemonTruncate, DaemonWrite, StartListeners,
         StartListenersFails, RegisterHandler, Shutdown, RemovePidFile, Exit,
         EnsureRead, EnsureCheck, EnsureUnlink, Spawn, LauncherTruncate, LauncherWrite,
         ServeForeground, Serve, Crash, OtherStarts, OtherExits
<1>7. QED  BY <1>4, <1>6

\* Commands that are run one at a time, daemons of one user: no `stop` misses a
\* daemon that listens.
THEOREM StopNeverMisses == ASSUME OneAtATime, OneServeUser PROVE Spec => StopReaches
<1> DEFINE Reaches == \A s \in Stopper, p \in Pid :
                         (/\ stop[s] # NoStop /\ stop'[s] = NoStop
                          /\ proc[p].at \in Listening
                          /\ proc[p].config = stop[s].config
                          /\ MayActFor(stop[s].user, proc[p].user))
                            => proc'[p] = Free \/ proc'[p].term
<1>1. ASSUME Typed, UsersNamed, Kept, [Next]_vars
      PROVE  [Reaches]_vars
  <2>1. SUFFICES ASSUME Next, NEW s \in Stopper, NEW p \in Pid,
                        stop[s] # NoStop, stop'[s] = NoStop, proc[p].at \in Listening
                 PROVE  proc'[p] = Free \/ proc'[p].term
    BY <1>1
  <2>2. StopKill(s) /\ stop[s].target = p
    BY <1>1, <2>1, StopReturnsByKill
  <2>3. MayActFor(stop[s].user, proc[p].user)
    BY <1>1, <2>1, <2>2 DEF UsersNamed, OneServeUser, StopKill, IsDaemon, Early, Listening, Ending
  <2>4. ProcessIsRunning(stop[s].user, p) /\ proc[p] # Free
    BY <2>1, <2>3 DEF ProcessIsRunning, Listening, Free
  <2>5. Signal(p)
    BY <2>2, <2>4 DEF StopKill
  <2>6. QED  BY <1>1, <2>5 DEF Signal, Die, Typed, TypeOK, Process
<1>2. Typed /\ UsersNamed /\ Kept /\ [Next]_vars => [Reaches]_vars
  BY <1>1
<1>3. Spec => [](Typed /\ UsersNamed /\ Kept)
  BY OwnerInvariance
<1>4. QED  BY <1>2, <1>3, PTL DEF Spec, StopReaches

-----------------------------------------------------------------------------
(* What a signal achieves.                                                 *)

\* The steps a daemon has before it once its loop has the signal.
StepsLeft(process) ==
    CASE process.at = "serving" -> 3
      [] process.at = "remove"  -> 2
      [] process.at = "exit"    -> 1
      [] OTHER -> 0

\* A daemon whose handler has the signal has its end in reach, as long as it
\* exists at all, and every step it takes brings it there: it is never back in
\* its loop, and the signal is not forgotten.
\* (wait_for_shutdown_signal, run_foreground_until_shutdown)
EndInReach == \A p \in Pid : proc[p].term => StepsLeft(proc[p]) > 0

GoesDown ==
    [][\A p \in Pid : proc[p].term =>
          \/ UNCHANGED proc[p]
          \/ proc'[p] = Free
          \/ proc'[p].term /\ StepsLeft(proc'[p]) < StepsLeft(proc[p])]_vars

\* A process moves, and no other does.
LEMMA GotoFacts ==
    ASSUME Typed, NEW p \in Pid, NEW where, Goto(p, where)
    PROVE  /\ \A q \in Pid \ {p} : proc'[q] = proc[q]
           /\ proc'[p] = [proc[p] EXCEPT !.at = where]
           /\ proc'[p].at = where /\ proc'[p].term = proc[p].term
  BY DEF Goto, Typed, TypeOK, Process

\* A process ends, and no other does.
LEMMA DieFacts ==
    ASSUME Typed, NEW p \in Pid, Die(p)
    PROVE  proc'[p] = Free /\ \A q \in Pid \ {p} : proc'[q] = proc[q]
  BY DEF Die, Typed, TypeOK

\* The signal is with a process that has its handler.
Handled == \A p \in Pid : proc[p].term => proc[p].at \in {"serving"} \cup Ending

\* What one step does to a process that has the signal, and who may get it.
GoesOn(p) ==
    \/ UNCHANGED proc[p]
    \/ proc'[p] = Free
    \/ ~proc[p].term /\ ~proc'[p].term
    \/ proc[p].at \in {"serving"} \cup Ending /\ proc'[p] = [proc[p] EXCEPT !.term = TRUE]
    \/ proc[p].at = "serving" /\ proc'[p] = [proc[p] EXCEPT !.at = "remove"]
    \/ proc[p].at = "remove" /\ proc'[p] = [proc[p] EXCEPT !.at = "exit"]

\* Every step of everybody is one of these for every process.
LEMMA EveryStepGoesOn ==
    ASSUME Typed, Handled, [Next]_vars, NEW p \in Pid
    PROVE  GoesOn(p)
<1> USE DEF GoesOn, Early, Listening, Ending
<1>1. ASSUME NEW q \in Pid, DaemonStep(q)
      PROVE  GoesOn(p)
  <2>1. CASE DaemonRead(q)
    <3>1. CASE pid_file = NoFile
      BY <2>1, <3>1, GotoFacts DEF DaemonRead, Handled
    <3>2. CASE pid_file # NoFile
      <4>1. proc' = [proc EXCEPT ![q].at = "check", ![q].existing = pid_file]
        BY <2>1, <3>2 DEF DaemonRead
      <4>2. p # q => UNCHANGED proc[p]
        BY <4>1 DEF Typed, TypeOK
      <4>3. ~proc[q].term /\ ~proc'[q].term
        BY <2>1, <4>1 DEF DaemonRead, Handled, Typed, TypeOK, Process
      <4>4. QED  BY <4>2, <4>3
    <3>3. QED  BY <3>1, <3>2
  <2>2. CASE DaemonCheck(q)
    BY <2>2, GotoFacts, DieFacts DEF DaemonCheck, Handled
  <2>3. CASE DaemonTruncate(q)
    BY <2>3, GotoFacts, DieFacts DEF DaemonTruncate, Handled
  <2>4. CASE DaemonWrite(q)
    BY <2>4, GotoFacts DEF DaemonWrite, Handled
  <2>5. CASE StartListeners(q)
    BY <2>5, GotoFacts DEF StartListeners, Handled
  <2>6. CASE StartListenersFails(q)
    BY <2>6, DieFacts DEF StartListenersFails
  <2>7. CASE RegisterHandler(q)
    BY <2>7, GotoFacts DEF RegisterHandler, Handled
  <2>8. CASE Shutdown(q)
    BY <2>8, GotoFacts DEF Shutdown
  <2>9. CASE RemovePidFile(q)
    BY <2>9, GotoFacts DEF RemovePidFile
  <2>10. CASE Exit(q)
    BY <2>10, DieFacts DEF Exit
  <2>11. QED
    BY <1>1, <2>1, <2>2, <2>3, <2>4, <2>5, <2>6, <2>7, <2>8, <2>9, <2>10 DEF DaemonStep
<1>2. ASSUME NEW q \in Pid, NEW u, NEW c, NEW byhand, Fork(q, u, c, byhand)
      PROVE  GoesOn(p)
  BY <1>2 DEF Fork, Free, Typed, TypeOK
<1>3. ASSUME NEW l \in Launcher, LauncherStep(l)
      PROVE  GoesOn(p)
  BY <1>2, <1>3 DEF LauncherStep, EnsureRead, EnsureCheck, EnsureUnlink, Spawn,
                    LauncherTruncate, LauncherWrite
<1>4. ASSUME NEW s \in Stopper, StopperStep(s)
      PROVE  GoesOn(p)
  <2>1. CASE StopKill(s) /\ proc' # proc
    <3>1. stop[s].target \in Pid /\ Signal(stop[s].target)
      BY <2>1 DEF StopKill, Typed, TargetNamed
    <3>2. QED  BY <3>1, DieFacts DEF Signal, Typed, TypeOK
  <2>2. CASE UNCHANGED proc
    BY <2>2
  <2>3. QED  BY <1>4, <2>1, <2>2 DEF StopperStep, StopRead, StopKill, StopUnlink
<1>5. CASE Commands
  BY <1>2, <1>5 DEF Commands, ServeForeground, Serve, Stop
<1>6. CASE Host
  <2>1. ASSUME NEW q \in Pid, Crash(q) \/ OtherExits(q)
        PROVE  GoesOn(p)
    BY <2>1, DieFacts DEF Crash, OtherExits
  <2>2. ASSUME NEW q \in Pid, NEW u \in OtherUser, OtherStarts(q, u)
        PROVE  GoesOn(p)
    BY <2>2 DEF OtherStarts, Other, Free, Typed, TypeOK
  <2>3. QED  BY <1>6, <2>1, <2>2 DEF Host
<1>7. CASE UNCHANGED vars
  BY <1>7 DEF vars
<1>8. QED  BY <1>1, <1>3, <1>4, <1>5, <1>6, <1>7 DEF Next

\* Only a process with a handler holds the signal.
LEMMA HandledStep == Typed /\ Handled /\ [Next]_vars => Handled'
<1> SUFFICES ASSUME Typed, Handled, [Next]_vars, NEW p \in Pid, proc'[p].term
             PROVE  proc'[p].at \in {"serving"} \cup Ending
  BY DEF Handled
<1>1. GoesOn(p)
  BY EveryStepGoesOn
<1>2. proc[p] \in Process
  BY DEF Typed, TypeOK
<1>3. QED  BY <1>1, <1>2 DEF GoesOn, Handled, Free, Process, Ending

\* Nobody holds a signal at first.
LEMMA HandledInit == Init => Handled
  BY DEF Init, Handled, Free

\* A process with a handler has steps before it.
LEMMA HandledInReach == Handled => EndInReach
  BY DEF Handled, EndInReach, StepsLeft, Ending

\* Whatever runs at the same time, a signalled daemon is never out of reach of
\* its end, and comes nearer to it with every step it takes.
THEOREM SignalledGoesDown == Spec => []EndInReach /\ GoesDown
<1> DEFINE Down == \A p \in Pid : proc[p].term =>
                      \/ UNCHANGED proc[p]
                      \/ proc'[p] = Free
                      \/ proc'[p].term /\ StepsLeft(proc'[p]) < StepsLeft(proc[p])
<1>1. Typed /\ Handled /\ [Next]_vars => [Down]_vars
  <2>1. SUFFICES ASSUME Typed, Handled, [Next]_vars, NEW p \in Pid, proc[p].term
                 PROVE  \/ UNCHANGED proc[p]
                        \/ proc'[p] = Free
                        \/ proc'[p].term /\ StepsLeft(proc'[p]) < StepsLeft(proc[p])
    OBVIOUS
  <2>2. GoesOn(p) /\ proc[p] \in Process
    BY <2>1, EveryStepGoesOn DEF Typed, TypeOK
  <2>3. ASSUME proc'[p] = [proc[p] EXCEPT !.term = TRUE]
        PROVE  UNCHANGED proc[p]
    BY <2>1, <2>2, <2>3 DEF Process
  <2>4. QED  BY <2>1, <2>2, <2>3 DEF GoesOn, StepsLeft, Process
<1>2. Spec => []Typed
  BY TypeInvariance
<1>3. Spec => []Handled
  BY TypeInvariance, HandledInit, HandledStep, PTL DEF Spec
<1>4. QED  BY <1>1, <1>2, <1>3, HandledInReach, PTL DEF Spec, GoesDown

=============================================================================
