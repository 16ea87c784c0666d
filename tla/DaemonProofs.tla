---------------------------- MODULE DaemonProofs ----------------------------
(***************************************************************************)
(* When the runs of the program follow one another, the pid file can be    *)
(* written and nothing follows the number in it (Orderly), there is never  *)
(* a second daemon and never one that stop or a client cannot reach,       *)
(* however many runs there are and wherever fork, the radio or the daemon  *)
(* fail; and when daemons only end if they are stopped (Tame), the file    *)
(* names nothing but the daemon.                                           *)
(*                                                                         *)
(* Findable alone is not inductive: that the file is there and names the   *)
(* daemon while stop works on it follows from where the one launcher that  *)
(* is at work stands, which Launching says.                                *)
(***************************************************************************)
EXTENDS Daemon, TLAPS

Active(l) == pc[l] \notin {"idle", "done"}

Serial == \A l, m \in Launchers : Active(l) /\ Active(m) => l = m

Launching ==
    \A l \in Launchers :
        /\ pc[l] \in {"fork", "open"} => path = Nil
        /\ pc[l] = "write" => path # Nil /\ fd[l] = path /\ content[path] = Nil
        /\ pc[l] = "reopen" => path # Nil
        /\ pc[l] = "read" => path # Nil /\ fd[l] = path
        /\ pc[l] = "kill" => path # Nil /\ pid[l] = content[path]
        /\ pc[l] = "remove" => \A p \in Pids : ~Running(p)

IInv == TypeOK /\ Serial /\ Launching /\ Findable

USE DaemonAssumption

(***************************************************************************)
(* A launcher that reads has the file open.                                *)
(***************************************************************************)
FdOpen == \A l \in Launchers : pc[l] = "read" => fd[l] \in Launchers

Typed == TypeOK /\ FdOpen

LEMMA InitType == Init => Typed
  BY DEF Init, Typed, FdOpen, TypeOK, Labels

(***************************************************************************)
(* Where stop() and start() lead the launcher that returns from them.      *)
(***************************************************************************)
LEMMA ReturnFromStopType ==
    ASSUME TypeOK, NEW l \in Launchers, NEW ok \in BOOLEAN, ReturnFromStop(l, ok)
    PROVE  /\ pc' = [pc EXCEPT ![l] = IF cmd[l] = "restart" THEN "start" ELSE "done"]
           /\ pc' \in [Launchers -> Labels]
           /\ stopped' \in [Launchers -> BOOLEAN]
           /\ result' \in [Launchers -> {"none", "ok", "failed", "killed", "runs"}]
  <1>1. CASE cmd[l] = "restart"
    <2>1. stopped' = [stopped EXCEPT ![l] = ok]
      BY <1>1 DEF ReturnFromStop
    <2>2. stopped' \in [Launchers -> BOOLEAN]
      BY <2>1, Zenon DEF TypeOK
    <2> QED BY <1>1, <2>2 DEF ReturnFromStop, Goto, TypeOK, Labels
  <1>2. CASE cmd[l] # "restart"
    <2>1. stopped' \in [Launchers -> BOOLEAN]
      BY <1>2, Zenon DEF ReturnFromStop, Return, TypeOK
    <2>2. result' \in [Launchers -> {"none", "ok", "failed", "killed", "runs"}]
      BY <1>2 DEF ReturnFromStop, Return, TypeOK
    <2> QED BY <1>2, <2>1, <2>2 DEF ReturnFromStop, Return, Goto, TypeOK, Labels
  <1> QED BY <1>1, <1>2

(***************************************************************************)
(* A step that returns from stop() and leaves the rest alone keeps the     *)
(* shape of the state.                                                     *)
(***************************************************************************)
LEMMA ReturnKeepsType ==
    ASSUME Typed, NEW l \in Launchers, NEW ok \in BOOLEAN, ReturnFromStop(l, ok),
           path' \in {path, Nil}, UNCHANGED <<world, content, procs, cmd, fd, pid>>
    PROVE  Typed'
  <1>1. /\ pc' = [pc EXCEPT ![l] = IF cmd[l] = "restart" THEN "start" ELSE "done"]
        /\ pc' \in [Launchers -> Labels]
        /\ stopped' \in [Launchers -> BOOLEAN]
        /\ result' \in [Launchers -> {"none", "ok", "failed", "killed", "runs"}]
    BY ReturnFromStopType DEF Typed
  <1>2. FdOpen'
    <2> SUFFICES ASSUME NEW m \in Launchers, pc'[m] = "read" PROVE fd'[m] \in Launchers
      BY DEF FdOpen
    <2>1. pc[m] = "read"
      BY <1>1 DEF Typed, TypeOK
    <2> QED BY <2>1 DEF Typed, FdOpen
  <1>3. TypeOK'
    BY <1>1 DEF Typed, TypeOK, procs
  <1> QED BY <1>2, <1>3 DEF Typed

(***************************************************************************)
(* A run of the program begins in one of three places, and what atoi()     *)
(* gives is a process number or nothing.                                   *)
(***************************************************************************)
LEMMA EntryType == \A c \in Commands : Entry[c] \in {"start", "stop", "status"}
  BY DEF Entry

LEMMA AtoiType ==
    ASSUME TypeOK, NEW c \in Pids \cup {Nil} PROVE Atoi(c) \subseteq Pids \cup {Nil}
  <1>1. world.overread \subseteq Pids
    BY DEF TypeOK, World
  <1> QED BY <1>1 DEF Atoi

(***************************************************************************)
(* Every step keeps the shape of the state.                                *)
(***************************************************************************)
LEMMA TypeStep == ASSUME Typed, [Next]_vars PROVE Typed'
  <1> USE DEF Typed, FdOpen, TypeOK, Labels, files, procs
  <1>1. ASSUME NEW l \in Launchers, NEW c \in Commands, Invoke(l, c) PROVE Typed'
    <2>1. Entry[c] \in {"start", "stop", "status"}
      BY EntryType
    <2> QED BY <1>1, <2>1 DEF Invoke, Goto
  <1>2. ASSUME NEW l \in Launchers, StartRefused(l) PROVE Typed'
    BY <1>2 DEF StartRefused, Return, Goto
  <1>3. ASSUME NEW l \in Launchers, StartAccess(l) PROVE Typed'
    BY <1>3 DEF StartAccess, Goto
  <1>4. ASSUME NEW l \in Launchers, Fork(l) PROVE Typed'
    BY <1>4 DEF Fork, Goto
  <1>5. ASSUME NEW l \in Launchers, ForkFails(l) \/ PidFileFails(l) PROVE Typed'
    BY <1>5 DEF ForkFails, PidFileFails, Return, Goto
  <1>6. ASSUME NEW l \in Launchers, OpenPidFile(l) PROVE Typed'
    BY <1>6 DEF OpenPidFile, Goto
  <1>7. ASSUME NEW l \in Launchers, WritePidFile(l) PROVE Typed'
    BY <1>7 DEF WritePidFile, Return, Goto
  <1>8. ASSUME NEW l \in Launchers, StopAccess(l) PROVE Typed'
    <2>1. CASE path = Nil
      <3>1. ReturnFromStop(l, FALSE)
        BY <1>8, <2>1 DEF StopAccess
      <3>2. path' = path /\ UNCHANGED <<world, content, procs, cmd, fd, pid>>
        BY <1>8 DEF StopAccess
      <3> QED BY <3>1, <3>2, ReturnKeepsType
    <2>2. CASE path # Nil
      BY <1>8, <2>2 DEF StopAccess, Goto
    <2> QED BY <2>1, <2>2
  <1>16. ASSUME NEW l \in Launchers, StopOpen(l) PROVE Typed'
    <2>1. CASE path = Nil
      <3>1. ReturnFromStop(l, FALSE) /\ fd' = fd
        BY <1>16, <2>1 DEF StopOpen
      <3>2. path' = path /\ UNCHANGED <<world, content, procs, cmd, pid>>
        BY <1>16 DEF StopOpen
      <3> QED BY <3>1, <3>2, ReturnKeepsType
    <2>2. CASE path # Nil
      BY <1>16, <2>2 DEF StopOpen, Goto
    <2> QED BY <2>1, <2>2
  <1>9. ASSUME NEW l \in Launchers, StopRead(l) PROVE Typed'
    <2>1. PICK n \in Atoi(content[fd[l]]) : pid' = [pid EXCEPT ![l] = n]
      BY <1>9 DEF StopRead
    <2>2. n \in Pids \cup {Nil}
      <3>1. content[fd[l]] \in Pids \cup {Nil}
        BY <1>9 DEF StopRead
      <3> QED BY <2>1, <3>1, AtoiType
    <2> QED BY <1>9, <2>1, <2>2 DEF StopRead, Goto
  <1>10. ASSUME NEW l \in Launchers, Kill(l) PROVE Typed'
    <2>1. CASE pid[l] = Nil
      BY <1>10, <2>1 DEF Kill, Goto
    <2>2. CASE pid[l] # Nil
      <3>1. proc' \in [Pids -> {"none", "init", "unlinked", "serving", "other"}]
        BY <1>10, <2>2 DEF Kill
      <3>2. sig' \subseteq Pids
        BY <1>10, <2>2 DEF Kill
      <3> QED BY <1>10, <2>2, <3>1, <3>2 DEF Kill, Goto
    <2> QED BY <2>1, <2>2
  <1>11. ASSUME NEW l \in Launchers, StopRemove(l) PROVE Typed'
    <2>1. ReturnFromStop(l, TRUE)
      BY <1>11 DEF StopRemove
    <2>2. path' \in {path, Nil} /\ UNCHANGED <<world, content, procs, cmd, fd, pid>>
      BY <1>11 DEF StopRemove
    <2> QED BY <2>1, <2>2, ReturnKeepsType
  <1>12. ASSUME NEW l \in Launchers, StatusAccess(l) PROVE Typed'
    BY <1>12 DEF StatusAccess, Return, Goto
  <1>13. ASSUME NEW l \in Launchers, StatusReport(l) PROVE Typed'
    <2>1. path # Nil => Atoi(content[path]) \subseteq Pids \cup {Nil}
      <3>1. path # Nil => content[path] \in Pids \cup {Nil}
        OBVIOUS
      <3> QED BY <3>1, AtoiType
    <2> QED BY <1>13, <2>1 DEF StatusReport, Return, Goto
  <1>14. ASSUME NEW p \in Pids, Serve(p) \/ SignalHandler(p) \/ Crash(p) \/ OtherStarts(p)
         PROVE  Typed'
    BY <1>14 DEF Serve, UnlinkSocket, Bind, InitRadioFails, SignalHandler, Crash, OtherStarts
  <1>15. CASE UNCHANGED vars
    BY <1>15 DEF vars
  <1> QED BY <1>1, <1>2, <1>3, <1>4, <1>5, <1>6, <1>7, <1>8, <1>9, <1>10, <1>11, <1>12,
             <1>13, <1>14, <1>15, <1>16 DEF Next, Step

THEOREM TypeCorrect == Spec => []TypeOK
  <1>1. Typed /\ [Next]_vars => Typed'
    BY TypeStep
  <1>2. Typed => TypeOK
    BY DEF Typed
  <1> QED BY InitType, <1>1, <1>2, PTL DEF Spec

(***************************************************************************)
(* The inductive invariant.                                                *)
(***************************************************************************)
LEMMA InitIInv == Init => IInv
  <1> SUFFICES ASSUME Init PROVE IInv
    OBVIOUS
  <1>1. Typed
    BY InitType
  <1> QED BY <1>1 DEF Init, IInv, Typed, Serial, Active, Launching, Findable, Running, IsDaemon

(***************************************************************************)
(* One launcher is at work at a time, and a step of it leaves it the only  *)
(* one.                                                                    *)
(***************************************************************************)
LEMMA OthersRest ==
    ASSUME TypeOK, Serial, NEW l \in Launchers, Active(l), NEW a,
           pc' = [pc EXCEPT ![l] = a]
    PROVE  /\ Serial'
           /\ pc'[l] = a
           /\ \A m \in Launchers : m # l => pc'[m] \in {"idle", "done"}
  BY DEF Serial, Active, TypeOK

(***************************************************************************)
(* Launching asks nothing of a launcher that rests, begins or reports.     *)
(***************************************************************************)
LEMMA StepEnds ==
    ASSUME TypeOK, Serial, NEW l \in Launchers, Active(l),
           NEW a \in {"done", "start", "report"}, pc' = [pc EXCEPT ![l] = a]
    PROVE  Serial' /\ Launching'
  <1>1. /\ Serial'
        /\ pc'[l] = a
        /\ \A m \in Launchers : m # l => pc'[m] \in {"idle", "done"}
    BY OthersRest
  <1> QED BY <1>1 DEF Launching

LEMMA InvokeStep ==
    ASSUME Orderly, IInv, NEW l \in Launchers, NEW c \in Commands, Invoke(l, c)
    PROVE  Serial' /\ Launching' /\ Findable'
  <1>1. \A m \in Launchers : pc[m] \in {"idle", "done"}
    BY DEF Invoke, Orderly
  <1>2. Entry[c] \in {"start", "stop", "status"}
    BY DEF Entry
  <1>3. /\ pc'[l] \in {"start", "stop", "status"}
        /\ \A m \in Launchers : m # l => pc'[m] \in {"idle", "done"}
    BY <1>1, <1>2 DEF Invoke, Goto, IInv, TypeOK
  <1>4. Serial' /\ Launching'
    BY <1>3 DEF Serial, Active, Launching
  <1>5. Findable'
    BY <1>1, <1>3 DEF Invoke, files, procs, IInv, Findable, Running, IsDaemon, Recorded
  <1> QED BY <1>4, <1>5

LEMMA StartStep ==
    ASSUME Orderly, IInv, NEW l \in Launchers,
           \/ StartRefused(l) \/ StartAccess(l) \/ Fork(l) \/ ForkFails(l)
           \/ OpenPidFile(l) \/ WritePidFile(l) \/ PidFileFails(l)
    PROVE  Serial' /\ Launching' /\ Findable'
  <1> USE DEF IInv, files, procs, Goto
  <1>0. \A m \in Launchers : Active(l) /\ m # l => pc[m] \in {"idle", "done"}
    BY DEF Serial, Active
  <1>1. CASE StartRefused(l)
    <2>1. pc' = [pc EXCEPT ![l] = "done"] /\ Active(l)
      BY <1>1 DEF StartRefused, Return, Active
    <2>2. Findable'
      BY <1>0, <1>1, <2>1 DEF StartRefused, Findable, Running, IsDaemon, Recorded
    <2> QED BY <2>1, <2>2, StepEnds
  <1>2. CASE StartAccess(l)
    <2>1. pc' = [pc EXCEPT ![l] = "fork"] /\ Active(l) /\ path' = Nil
      BY <1>2 DEF StartAccess, Active
    <2>2. Findable'
      BY <1>0, <1>2, <2>1 DEF StartAccess, Findable, Running, IsDaemon, Recorded
    <2> QED BY <2>1, <2>2, OthersRest DEF Launching
  <1>3. CASE Fork(l)
    <2>1. pc' = [pc EXCEPT ![l] = "open"] /\ Active(l) /\ path' = Nil
      BY <1>3 DEF Fork, Active, Launching
    <2>2. Findable'
      <3>1. \A p \in Pids : ~Running(p)
        BY <1>0, <1>3, <2>1 DEF Fork, Findable, Launching, Recorded
      <3>2. PICK p \in Pids : proc' = [proc EXCEPT ![p] = "init"] /\ pid' = [pid EXCEPT ![l] = p]
        BY <1>3 DEF Fork
      <3>3. \A q \in Pids : q # p => ~Running(q)'
        BY <1>3, <3>1, <3>2 DEF Fork, Running, IsDaemon, TypeOK
      <3>4. pc'[l] = "open" /\ pid'[l] = p
        BY <2>1, <3>2 DEF TypeOK
      <3> QED BY <3>3, <3>4 DEF Findable
    <2> QED BY <2>1, <2>2, OthersRest DEF Launching
  <1>4. CASE ForkFails(l)
    <2>1. pc' = [pc EXCEPT ![l] = "done"] /\ Active(l)
      BY <1>4 DEF ForkFails, Return, Active
    <2>2. Findable'
      BY <1>0, <1>4, <2>1 DEF ForkFails, Findable, Running, IsDaemon, Recorded
    <2> QED BY <2>1, <2>2, StepEnds
  <1>5. CASE OpenPidFile(l)
    <2>1. /\ pc' = [pc EXCEPT ![l] = "write"] /\ Active(l) /\ path = Nil
          /\ path' = l /\ fd' = [fd EXCEPT ![l] = l] /\ content' = [content EXCEPT ![l] = Nil]
      BY <1>5 DEF OpenPidFile, Active, Launching
    <2>2. path' # Nil /\ fd'[l] = path' /\ content'[path'] = Nil
      BY <2>1 DEF TypeOK
    <2>3. Findable'
      <3>1. pc'[l] = "write" /\ pc[l] = "open" /\ pid' = pid /\ proc' = proc /\ sig' = sig
        BY <1>5, <2>1 DEF OpenPidFile, TypeOK
      <3>2. \A p \in Pids : Running(p) => pid[l] = p
        BY <1>0, <2>1 DEF Findable, Recorded
      <3> QED BY <3>1, <3>2 DEF Findable, Running, IsDaemon
    <2> QED BY <2>1, <2>2, <2>3, OthersRest DEF Launching
  <1>6. CASE WritePidFile(l)
    <2>1. /\ pc' = [pc EXCEPT ![l] = "done"] /\ Active(l)
          /\ path # Nil /\ path' = path /\ content' = [content EXCEPT ![path] = pid[l]]
      BY <1>6 DEF WritePidFile, Return, Active, Launching
    <2>2. Findable'
      <3>1. \A p \in Pids : Running(p) => pid[l] = p
        <4>1. content[path] = Nil
          BY <1>6 DEF WritePidFile, Launching
        <4> QED BY <1>0, <2>1, <4>1 DEF Findable, Recorded
      <3>2. content'[path'] = pid[l]
        BY <2>1 DEF TypeOK
      <3>3. proc' = proc /\ sig' = sig
        BY <1>6 DEF WritePidFile
      <3> QED BY <2>1, <3>1, <3>2, <3>3 DEF Findable, Recorded, Running, IsDaemon
    <2> QED BY <2>1, <2>2, StepEnds
  <1>7. CASE PidFileFails(l)
    BY <1>7 DEF PidFileFails, Orderly
  <1> QED BY <1>1, <1>2, <1>3, <1>4, <1>5, <1>6, <1>7

LEMMA StopStep ==
    ASSUME Orderly, IInv, NEW l \in Launchers,
           \/ StopAccess(l) \/ StopOpen(l) \/ StopRead(l) \/ Kill(l) \/ StopRemove(l)
           \/ StatusAccess(l) \/ StatusReport(l)
    PROVE  Serial' /\ Launching' /\ Findable'
  <1> USE DEF IInv, files, procs, Goto
  <1>0. \A m \in Launchers : Active(l) /\ m # l => pc[m] \in {"idle", "done"}
    BY DEF Serial, Active
  <1>1. CASE StopAccess(l)
    <2>1. Active(l) /\ \E a \in {"start", "done", "reopen"} :
             pc' = [pc EXCEPT ![l] = a] /\ (a = "reopen" => path' # Nil)
      <3>1. CASE path = Nil
        BY <1>1, <3>1, ReturnFromStopType DEF StopAccess, Active
      <3>2. CASE path # Nil
        BY <1>1, <3>2 DEF StopAccess, Active
      <3> QED BY <3>1, <3>2
    <2>2. Findable'
      BY <1>0, <1>1, <2>1 DEF StopAccess, Findable, Running, IsDaemon, Recorded
    <2> QED BY <2>1, <2>2, OthersRest DEF Launching
  <1>2. CASE StopOpen(l)
    <2>1. Active(l) /\ path' = path /\ path # Nil
      BY <1>2 DEF StopOpen, Active, Launching
    <2>2. pc' = [pc EXCEPT ![l] = "read"] /\ fd' = [fd EXCEPT ![l] = path]
      BY <1>2, <2>1 DEF StopOpen
    <2>3. fd'[l] = path'
      BY <2>1, <2>2 DEF TypeOK
    <2>4. Findable'
      BY <1>0, <1>2, <2>1 DEF StopOpen, Findable, Running, IsDaemon, Recorded
    <2>5. /\ Serial' /\ pc'[l] = "read"
          /\ \A m \in Launchers : m # l => pc'[m] \in {"idle", "done"}
      BY <2>1, <2>2, OthersRest
    <2> QED BY <2>1, <2>3, <2>4, <2>5 DEF Launching
  <1>3. CASE StopRead(l)
    <2>1. /\ pc' = [pc EXCEPT ![l] = "kill"] /\ Active(l)
          /\ path' = path /\ path # Nil /\ fd[l] = path /\ content' = content
      BY <1>3 DEF StopRead, Active, Launching
    <2>2. pid' = [pid EXCEPT ![l] = content[path]]
      <3>1. Atoi(content[path]) = {content[path]}
        BY DEF Atoi, Orderly
      <3> QED BY <1>3, <2>1, <3>1 DEF StopRead
    <2>3. pid'[l] = content'[path']
      BY <2>1, <2>2 DEF TypeOK
    <2>4. Findable'
      BY <1>0, <1>3, <2>1 DEF StopRead, Findable, Running, IsDaemon, Recorded
    <2>5. /\ Serial' /\ pc'[l] = "kill"
          /\ \A m \in Launchers : m # l => pc'[m] \in {"idle", "done"}
      BY <2>1, <2>2, OthersRest
    <2> QED BY <2>1, <2>3, <2>4, <2>5 DEF Launching
  <1>4. CASE Kill(l)
    <2>1. Active(l) /\ path # Nil /\ path' = path /\ content' = content /\ pid[l] = content[path]
      BY <1>4 DEF Kill, Active, Launching
    <2>2. \A p \in Pids : Running(p) => p = pid[l]
      BY <1>0, <1>4, <2>1 DEF Kill, Findable, Recorded
    <2>3. \A p \in Pids : Running(p)' => Running(p)
      <3>1. CASE pid[l] = Nil
        BY <1>4, <3>1 DEF Kill, Running, IsDaemon
      <3>2. CASE pid[l] # Nil
        BY <1>4, <3>2 DEF Kill, Running, IsDaemon, TypeOK
      <3> QED BY <3>1, <3>2
    <2>4. Findable'
      BY <2>1, <2>2, <2>3 DEF Findable, Recorded
    <2>5. CASE pid[l] = Nil
      <3>1. pc' = [pc EXCEPT ![l] = "done"]
        BY <1>4, <2>5 DEF Kill
      <3> QED BY <2>1, <2>4, <3>1, StepEnds
    <2>6. CASE pid[l] # Nil
      <3>1. pc' = [pc EXCEPT ![l] = "remove"]
        BY <1>4, <2>6 DEF Kill
      <3>2. \A p \in Pids : ~Running(p)'
        <4>1. \A p \in Pids : p = pid[l] => ~Running(p)'
          BY <1>4, <2>6 DEF Kill, Running, IsDaemon, TypeOK
        <4> QED BY <2>2, <2>3, <4>1
      <3>3. /\ Serial' /\ pc'[l] = "remove"
            /\ \A m \in Launchers : m # l => pc'[m] \in {"idle", "done"}
        BY <2>1, <3>1, OthersRest
      <3> QED BY <2>4, <3>2, <3>3 DEF Launching
    <2> QED BY <2>5, <2>6
  <1>5. CASE StopRemove(l)
    <2>1. Active(l) /\ \A p \in Pids : ~Running(p)
      BY <1>5 DEF StopRemove, Active, Launching
    <2>2. \E a \in {"start", "done"} : pc' = [pc EXCEPT ![l] = a]
      BY <1>5, ReturnFromStopType DEF StopRemove
    <2>3. Findable'
      BY <1>5, <2>1 DEF StopRemove, Findable, Running, IsDaemon
    <2> QED BY <2>1, <2>2, <2>3, StepEnds
  <1>6. CASE StatusAccess(l)
    <2>1. Active(l) /\ \E a \in {"report", "done"} : pc' = [pc EXCEPT ![l] = a]
      BY <1>6 DEF StatusAccess, Return, Active
    <2>2. Findable'
      BY <1>0, <1>6, <2>1 DEF StatusAccess, Findable, Running, IsDaemon, Recorded
    <2> QED BY <2>1, <2>2, StepEnds
  <1>7. CASE StatusReport(l)
    <2>1. Active(l) /\ pc' = [pc EXCEPT ![l] = "done"]
      BY <1>7 DEF StatusReport, Return, Active
    <2>2. Findable'
      BY <1>0, <1>7, <2>1 DEF StatusReport, Findable, Running, IsDaemon, Recorded
    <2> QED BY <2>1, <2>2, StepEnds
  <1> QED BY <1>1, <1>2, <1>3, <1>4, <1>5, <1>6, <1>7

(***************************************************************************)
(* No step of a daemon, and no other program, makes a daemon run.          *)
(***************************************************************************)
LEMMA DaemonStep ==
    ASSUME IInv, NEW p \in Pids,
           Serve(p) \/ SignalHandler(p) \/ Crash(p) \/ OtherStarts(p)
    PROVE  Serial' /\ Launching' /\ Findable'
  <1> USE DEF IInv, files, procs
  <1>1. /\ path' = path /\ content' = content /\ pc' = pc /\ fd' = fd /\ pid' = pid
    BY DEF Serve, UnlinkSocket, Bind, InitRadioFails, SignalHandler, Crash, OtherStarts
  <1>2. \A q \in Pids : Running(q)' => Running(q)
    <2>1. CASE Serve(p)
      BY <2>1 DEF Serve, UnlinkSocket, Bind, InitRadioFails, Running, IsDaemon, TypeOK
    <2>2. CASE SignalHandler(p)
      BY <2>2 DEF SignalHandler, Running, IsDaemon, TypeOK
    <2>3. CASE Crash(p) \/ OtherStarts(p)
      BY <2>3 DEF Crash, OtherStarts, Running, IsDaemon, TypeOK
    <2> QED BY <2>1, <2>2, <2>3
  <1> QED BY <1>1, <1>2 DEF Serial, Active, Launching, Findable, Recorded

-----------------------------------------------------------------------------
(* The steps of an orderly world.                                          *)

LEMMA IInvStep == ASSUME Orderly, IInv, Typed, [Next]_vars PROVE IInv'
  <1>1. TypeOK'
    BY TypeStep DEF Typed
  <1>2. ASSUME NEW l \in Launchers, Step(l) PROVE Serial' /\ Launching' /\ Findable'
    BY <1>2, StartStep, StopStep DEF Step
  <1>3. ASSUME UNCHANGED vars PROVE Serial' /\ Launching' /\ Findable'
    <2>1. \A p \in Pids : Running(p)' <=> Running(p)
      BY <1>3 DEF vars, Running, IsDaemon
    <2>2. /\ path' = path /\ content' = content /\ pc' = pc /\ fd' = fd /\ pid' = pid
      BY <1>3 DEF vars
    <2>3. Serial'
      BY <2>2 DEF IInv, Serial, Active
    <2>4. Launching'
      BY <2>1, <2>2 DEF IInv, Launching
    <2> QED BY <2>1, <2>2, <2>3, <2>4 DEF IInv, Findable, Recorded
  <1> QED BY <1>1, <1>2, <1>3, InvokeStep, DaemonStep DEF Next, IInv

(***************************************************************************)
(* Two daemons that run would both have to be the one in the file.         *)
(***************************************************************************)
LEMMA IInvIsOne == IInv => AtMostOne
  BY DEF IInv, Findable, AtMostOne, Recorded, Launching, Serial, Active

(***************************************************************************)
(* The name of the socket is that of the daemon, once it has bound it, and *)
(* nobody's before: no other daemon is there to take it.                   *)
(***************************************************************************)
Reach ==
    \A p \in Pids : Running(p) =>
        /\ proc[p] = "unlinked" => sock = Nil
        /\ proc[p] = "serving"  => sock = p

(***************************************************************************)
(* The launchers change neither the socket nor a daemon, apart from a fork *)
(* and a signal.                                                           *)
(***************************************************************************)
LEMMA LauncherStep ==
    ASSUME TypeOK, [Next]_vars,
           ~ \E p \in Pids : Serve(p) \/ SignalHandler(p) \/ Crash(p) \/ OtherStarts(p)
    PROVE  /\ sock' = sock
           /\ \A p \in Pids : Running(p)' => (Running(p) /\ proc'[p] = proc[p]) \/ proc'[p] = "init"
  <1> USE DEF procs, Running, IsDaemon
  <1>1. ASSUME NEW l \in Launchers, Fork(l)
        PROVE  /\ sock' = sock
               /\ \A p \in Pids : Running(p)' => (Running(p) /\ proc'[p] = proc[p]) \/ proc'[p] = "init"
    BY <1>1 DEF Fork, TypeOK
  <1>2. ASSUME NEW l \in Launchers, Kill(l)
        PROVE  /\ sock' = sock
               /\ \A p \in Pids : Running(p)' => (Running(p) /\ proc'[p] = proc[p]) \/ proc'[p] = "init"
    <2>1. CASE pid[l] = Nil
      BY <1>2, <2>1 DEF Kill
    <2>2. CASE pid[l] # Nil
      BY <1>2, <2>2 DEF Kill, TypeOK
    <2> QED BY <2>1, <2>2
  <1>3. ASSUME NEW l \in Launchers, Step(l), ~Fork(l), ~Kill(l) PROVE UNCHANGED procs
    BY <1>3 DEF Step, StartRefused, StartAccess, ForkFails, OpenPidFile, WritePidFile,
                PidFileFails, StopAccess, StopOpen, StopRead, StopRemove, StatusAccess,
                StatusReport
  <1>4. ASSUME NEW l \in Launchers, NEW c \in Commands, Invoke(l, c) PROVE UNCHANGED procs
    BY <1>4 DEF Invoke
  <1>5. CASE UNCHANGED vars
    BY <1>5 DEF vars
  <1> QED BY <1>1, <1>2, <1>3, <1>4, <1>5 DEF Next

LEMMA ReachStep == ASSUME IInv, Reach, [Next]_vars PROVE Reach'
  <1>0. TypeOK /\ AtMostOne
    BY IInvIsOne DEF IInv
  <1>1. ASSUME NEW p \in Pids, UnlinkSocket(p) PROVE Reach'
    <2>1. \A q \in Pids : q # p => ~Running(q)'
      BY <1>0, <1>1 DEF AtMostOne, UnlinkSocket, Running, IsDaemon, TypeOK
    <2> QED BY <1>0, <1>1, <2>1 DEF UnlinkSocket, Reach, TypeOK
  <1>2. ASSUME NEW p \in Pids, Bind(p) PROVE Reach'
    <2>1. sock = Nil
      BY <1>2 DEF Bind, Reach
    <2>2. \A q \in Pids : q # p => ~Running(q)'
      BY <1>0, <1>2, <2>1 DEF AtMostOne, Bind, Running, IsDaemon, TypeOK
    <2> QED BY <1>0, <1>2, <2>1, <2>2 DEF Bind, Reach, TypeOK
  <1>3. ASSUME NEW p \in Pids,
               InitRadioFails(p) \/ SignalHandler(p) \/ Crash(p) \/ OtherStarts(p)
        PROVE  Reach'
    <2>1. /\ sock' = sock
          /\ \A q \in Pids : Running(q)' => Running(q) /\ proc'[q] = proc[q]
      BY <1>0, <1>3 DEF InitRadioFails, SignalHandler, Crash, OtherStarts, Running,
                        IsDaemon, TypeOK
    <2> QED BY <2>1 DEF Reach
  <1>4. CASE ~ \E p \in Pids : Serve(p) \/ SignalHandler(p) \/ Crash(p) \/ OtherStarts(p)
    BY <1>0, <1>4, LauncherStep DEF Reach
  <1> QED BY <1>1, <1>2, <1>3, <1>4 DEF Serve

-----------------------------------------------------------------------------
(* The steps of a tame world.                                              *)

(***************************************************************************)
(* A launcher that is about to record its daemon finds it alive, and only  *)
(* daemons have a signal pending: a number that is given again has none.   *)
(***************************************************************************)
TameInv ==
    /\ \A l \in Launchers :
          pc[l] \in {"open", "write"} => pid[l] \in Pids /\ Running(pid[l])
    /\ \A p \in sig : IsDaemon(p)
    /\ FileIsTrue

LEMMA TameFork ==
    ASSUME IInv, IInv', TameInv, NEW l \in Launchers, Fork(l)
    PROVE  TameInv'
  <1>1. PICK p \in Pids : /\ proc[p] = "none"
                          /\ proc' = [proc EXCEPT ![p] = "init"]
                          /\ pid' = [pid EXCEPT ![l] = p]
    BY DEF Fork
  <1>2. pid'[l] = p /\ Running(p)'
    BY <1>1 DEF Fork, TameInv, Running, IsDaemon, IInv, TypeOK
  <1>3. \A m \in Launchers : pc'[m] \in {"open", "write"} => m = l
    <2>1. pc'[l] = "open"
      BY DEF Fork, Goto, IInv, TypeOK
    <2> QED BY <2>1 DEF IInv, Serial, Active
  <1>4. path' = Nil
    BY DEF Fork, files, IInv, Launching
  <1>5. \A q \in sig' : IsDaemon(q)'
    BY <1>1 DEF Fork, TameInv, IsDaemon, IInv, TypeOK
  <1> QED BY <1>2, <1>3, <1>4, <1>5 DEF TameInv, FileIsTrue, Recorded

LEMMA TameKill ==
    ASSUME IInv, IInv', TameInv, NEW l \in Launchers, Kill(l)
    PROVE  TameInv'
  <1>1. \A m \in Launchers : m # l => pc'[m] \in {"idle", "done"}
    <2>1. /\ Active(l)
          /\ pc' = [pc EXCEPT ![l] = IF pid[l] = Nil THEN "done" ELSE "remove"]
      BY DEF Kill, Goto, Active
    <2> QED BY <2>1 DEF IInv, Serial, Active, TypeOK
  <1>2. CASE pid[l] = Nil
    <2>1. pc'[l] = "done" /\ UNCHANGED <<path, content, proc, sig>>
      BY <1>2 DEF Kill, Goto, files, IInv, TypeOK
    <2>2. \A p \in Pids : ~Recorded(p)'
      BY <1>2, <2>1 DEF Kill, IInv, Launching, Recorded
    <2> QED BY <1>1, <2>1, <2>2 DEF TameInv, FileIsTrue, IsDaemon
  <1>3. CASE pid[l] # Nil
    <2>1. pc'[l] = "remove"
      BY <1>3 DEF Kill, Goto, IInv, TypeOK
    <2>2. \A p \in sig' : IsDaemon(p)'
      BY <1>3 DEF Kill, TameInv, IsDaemon, IInv, TypeOK
    <2> QED BY <1>1, <2>1, <2>2 DEF TameInv, FileIsTrue
  <1> QED BY <1>2, <1>3

(***************************************************************************)
(* The other steps of a launcher.                                          *)
(***************************************************************************)
LEMMA TameWrite ==
    ASSUME IInv, IInv', TameInv, NEW l \in Launchers,
           OpenPidFile(l) \/ WritePidFile(l) \/ StopRemove(l)
    PROVE  TameInv'
  <1>1. UNCHANGED procs /\ Active(l) /\ \A p \in Pids : Running(p)' <=> Running(p)
    BY DEF OpenPidFile, WritePidFile, StopRemove, procs, Active, Running, IsDaemon
  <1>2. \A p \in sig' : IsDaemon(p)'
    BY <1>1 DEF TameInv, procs, IsDaemon
  <1>3. CASE OpenPidFile(l)
    <2>1. pc[l] = "open" /\ pid' = pid /\ pid[l] \in Pids
      BY <1>3 DEF OpenPidFile, TameInv, Running, IsDaemon, IInv, TypeOK
    <2>2. \A m \in Launchers : pc'[m] \in {"open", "write"} => (pid[m] \in Pids /\ Running(pid[m]))'
      <3>1. \A m \in Launchers : m # l => pc'[m] \in {"idle", "done"}
        BY <1>1, <1>3 DEF OpenPidFile, Goto, IInv, Serial, Active, TypeOK
      <3> QED BY <1>1, <2>1, <3>1 DEF TameInv
    <2>3. content'[path'] = Nil
      BY <1>3 DEF OpenPidFile, IInv, TypeOK
    <2>4. FileIsTrue'
      <3>1. \A p \in Pids : ~Recorded(p)'
        BY <2>3 DEF Recorded
      <3> QED BY <3>1 DEF FileIsTrue
    <2> QED BY <1>2, <2>2, <2>4 DEF TameInv
  <1>4. CASE WritePidFile(l)
    <2>1. /\ pc' = [pc EXCEPT ![l] = "done"] /\ pid' = pid /\ path' = path
          /\ path # Nil /\ content' = [content EXCEPT ![path] = pid[l]]
          /\ Running(pid[l])
      BY <1>4 DEF WritePidFile, Return, Goto, IInv, Launching, TameInv
    <2>2. \A m \in Launchers : pc'[m] \notin {"open", "write"}
      <3>1. \A m \in Launchers : m # l => pc'[m] \in {"idle", "done"}
        BY <1>1, <2>1 DEF IInv, Serial, Active, TypeOK
      <3>2. pc'[l] = "done"
        BY <2>1 DEF IInv, TypeOK
      <3> QED BY <3>1, <3>2
    <2>3. content'[path'] = pid[l]
      BY <2>1 DEF IInv, TypeOK
    <2> QED BY <1>1, <1>2, <2>1, <2>2, <2>3 DEF TameInv, FileIsTrue, Recorded
  <1>5. CASE StopRemove(l)
    <2>1. path' = Nil
      BY <1>5 DEF StopRemove
    <2>2. \A m \in Launchers : pc'[m] \notin {"open", "write"}
      <3>1. \E a \in {"start", "done"} : pc' = [pc EXCEPT ![l] = a]
        BY <1>5, ReturnFromStopType DEF StopRemove, IInv
      <3> QED BY <1>1, <3>1 DEF IInv, Serial, Active, TypeOK
    <2> QED BY <1>2, <2>1, <2>2 DEF TameInv, FileIsTrue, Recorded
  <1> QED BY <1>3, <1>4, <1>5

LEMMA TameRest ==
    ASSUME IInv, IInv', TameInv,
           UNCHANGED <<path, content, proc, sig>>,
           \A l \in Launchers : pc'[l] # "remove" => pc[l] # "remove",
           \A l \in Launchers : pc'[l] \in {"open", "write"} =>
               pc[l] \in {"open", "write"} /\ pid'[l] = pid[l]
    PROVE  TameInv'
  <1>1. /\ \A p : Running(p)' <=> Running(p)
        /\ \A p : IsDaemon(p)' <=> IsDaemon(p)
    BY DEF Running, IsDaemon
  <1>2. \A p \in Pids : Recorded(p)' <=> Recorded(p)
    BY DEF Recorded
  <1>3. FileIsTrue'
    BY <1>1, <1>2 DEF TameInv, FileIsTrue
  <1> QED BY <1>1, <1>3 DEF TameInv

LEMMA TameStep ==
    ASSUME Tame, IInv, IInv', Reach, TameInv, [Next]_vars
    PROVE  TameInv'
  <1> USE DEF procs, files
  <1>1. ASSUME NEW l \in Launchers,
               \/ StartRefused(l) \/ StartAccess(l) \/ ForkFails(l) \/ PidFileFails(l)
               \/ StatusAccess(l) \/ StatusReport(l)
        PROVE  TameInv'
    BY <1>1, TameRest DEF StartRefused, StartAccess, ForkFails, PidFileFails, StatusAccess,
                          StatusReport, Return, Goto, IInv, TypeOK
  <1>2. ASSUME NEW l \in Launchers, StopAccess(l) \/ StopOpen(l) \/ StopRead(l)
        PROVE  TameInv'
    <2>1. /\ UNCHANGED <<path, content, proc, sig>>
          /\ pc[l] # "remove"
          /\ \E a \in {"start", "done", "reopen", "read", "kill"} :
                pc' = [pc EXCEPT ![l] = a]
          /\ \A m \in Launchers : m # l => pid'[m] = pid[m]
      <3>1. CASE (StopAccess(l) \/ StopOpen(l)) /\ path = Nil
        <4>1. ReturnFromStop(l, FALSE)
          BY <3>1 DEF StopAccess, StopOpen
        <4> QED BY <3>1, <4>1, ReturnFromStopType DEF StopAccess, StopOpen, IInv
      <3>2. CASE path # Nil /\ (StopAccess(l) \/ StopOpen(l))
        BY <3>2 DEF StopAccess, StopOpen, Goto
      <3>3. CASE StopRead(l)
        BY <3>3 DEF StopRead, Goto, IInv, TypeOK
      <3> QED BY <1>2, <3>1, <3>2, <3>3
    <2> QED BY <2>1, TameRest DEF IInv, TypeOK
  <1>3. ASSUME NEW l \in Launchers, NEW c \in Commands, Invoke(l, c) PROVE TameInv'
    <2>1. Entry[c] \in {"start", "stop", "status"}
      BY EntryType
    <2> QED BY <1>3, <2>1, TameRest DEF Invoke, Goto, IInv, TypeOK
  <1>4. ASSUME NEW p \in Pids, UnlinkSocket(p) \/ Bind(p) PROVE TameInv'
    <2>1. Bind(p) => sock = Nil
      BY DEF Bind, Reach
    <2>2. \A q \in Pids : Running(q)' <=> Running(q)
      BY <1>4, <2>1 DEF UnlinkSocket, Bind, Running, IsDaemon, IInv, TypeOK
    <2>3. \A q \in Pids : IsDaemon(q)' <=> IsDaemon(q)
      BY <1>4, <2>1 DEF UnlinkSocket, Bind, Running, IsDaemon, IInv, TypeOK
    <2>4. UNCHANGED <<path, content, pc, pid, sig>>
      BY <1>4 DEF UnlinkSocket, Bind
    <2> HIDE DEF procs, files
    <2>5. \A l \in Launchers :
            pc'[l] \in {"open", "write"} => (pid[l] \in Pids /\ Running(pid[l]))'
      BY <2>2, <2>4 DEF TameInv
    <2>6. FileIsTrue'
      BY <2>2, <2>4 DEF TameInv, FileIsTrue, Recorded
    <2>7. \A q \in sig' : IsDaemon(q)'
      BY <2>3, <2>4 DEF TameInv, IInv, TypeOK
    <2> QED BY <2>5, <2>6, <2>7 DEF TameInv
  <1>5. ASSUME NEW p \in Pids, SignalHandler(p) \/ OtherStarts(p) PROVE TameInv'
    <2>1. \A q \in Pids : Running(q)' <=> Running(q)
      BY <1>5 DEF SignalHandler, OtherStarts, Running, IsDaemon, IInv, TypeOK
    <2>2. \A q \in sig' : IsDaemon(q)'
      BY <1>5 DEF SignalHandler, OtherStarts, TameInv, IsDaemon, IInv, TypeOK
    <2>3. UNCHANGED <<path, content, pc, pid>>
      BY <1>5 DEF SignalHandler, OtherStarts
    <2> QED BY <2>1, <2>2, <2>3 DEF TameInv, FileIsTrue, Recorded
  <1>6. ASSUME NEW p \in Pids, InitRadioFails(p) \/ Crash(p) PROVE FALSE
    BY <1>6 DEF InitRadioFails, Crash, Tame
  <1>7. CASE UNCHANGED vars
    BY <1>7, TameRest DEF vars
  <1> QED BY <1>1, <1>2, <1>3, <1>4, <1>5, <1>6, <1>7, TameFork, TameKill, TameWrite
          DEF Next, Step, Serve

-----------------------------------------------------------------------------
(* The inductive invariant of every world, and what follows from it.       *)

Inv ==
    /\ Typed
    /\ Orderly => IInv /\ Reach
    /\ Tame => TameInv

LEMMA InitInv == Init => Inv
  <1> SUFFICES ASSUME Init PROVE Inv
    OBVIOUS
  <1>1. Typed /\ IInv
    BY InitType, InitIInv
  <1> QED BY <1>1 DEF Init, Inv, Reach, TameInv, FileIsTrue, Recorded, Running, IsDaemon

LEMMA WorldStays == [Next]_vars => world' = world
  BY DEF Next, Step, Serve, vars, Invoke, StartRefused, StartAccess, Fork, ForkFails,
         OpenPidFile, WritePidFile, PidFileFails, StopAccess, StopOpen, StopRead, Kill,
         StopRemove, StatusAccess, StatusReport, UnlinkSocket, Bind, InitRadioFails,
         SignalHandler, Crash, OtherStarts

LEMMA InvStep == Inv /\ [Next]_vars => Inv'
  <1> SUFFICES ASSUME Inv, [Next]_vars PROVE Inv'
    OBVIOUS
  <1>1. Typed'
    BY TypeStep DEF Inv
  <1>2. (Orderly' => Orderly) /\ (Tame' => Tame) /\ (Tame => Orderly)
    BY WorldStays DEF Orderly, Tame
  <1>3. Orderly => IInv' /\ Reach'
    BY IInvStep, ReachStep DEF Inv
  <1>4. Tame => TameInv'
    BY <1>2, <1>3, TameStep DEF Inv
  <1> QED BY <1>1, <1>2, <1>3, <1>4 DEF Inv

LEMMA SpecInv == Spec => []Inv
  BY InitInv, InvStep, PTL DEF Spec

(***************************************************************************)
(* Stop can find the daemon: unless its launcher is just writing the pid   *)
(* file, it is there and names it.                                         *)
(***************************************************************************)
THEOREM DaemonIsRecorded == Spec => []NoOrphan
  <1>1. Inv => NoOrphan
    BY DEF Inv, NoOrphan, IInv
  <1> QED BY <1>1, SpecInv, PTL

(***************************************************************************)
(* There is never a second daemon.                                         *)
(***************************************************************************)
THEOREM OneDaemonRuns == Spec => []OneDaemon
  <1>1. Inv => OneDaemon
    BY IInvIsOne DEF Inv, OneDaemon
  <1> QED BY <1>1, SpecInv, PTL

(***************************************************************************)
(* Clients reach the daemon that serves.                                   *)
(***************************************************************************)
THEOREM SocketLeadsToDaemon == Spec => []ServingIsReachable
  <1>1. Inv => ServingIsReachable
    BY DEF Inv, ServingIsReachable, Reach
  <1> QED BY <1>1, SpecInv, PTL

(***************************************************************************)
(* The pid file names the daemon and nothing else.                         *)
(***************************************************************************)
THEOREM PidFileNamesDaemon == Spec => []PidFileIsTrue
  <1>1. Inv => PidFileIsTrue
    BY DEF Inv, PidFileIsTrue, TameInv
  <1> QED BY <1>1, SpecInv, PTL
=============================================================================
