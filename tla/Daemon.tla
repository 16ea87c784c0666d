------------------------------- MODULE Daemon -------------------------------
(***************************************************************************)
(* The launcher and the daemon processes of core.c.  A launcher is one run *)
(* of the program: it reads its action (start, stop, restart, status), does*)
(* it in system calls that interleave with those of other launchers and of *)
(* the daemons, and ends with a result.  A daemon is a child that start()  *)
(* forked: it initialises the radio and serves the socket.  The two share  *)
(* the file /var/run/wsd.pid, the name of the socket and signals.          *)
(***************************************************************************)
EXTENDS Naturals

CONSTANTS
    Launchers,   \* runs of the program, each with one action
    Pids,        \* process numbers
    Nil,         \* no file, no process; also the number 0 atoi() gives
    Commands,    \* the actions launchers are run with
    Worlds       \* the circumstances under which the program may be run

(***************************************************************************)
(* One world: the launchers there are, whether their runs overlap, what    *)
(* may fail, the numbers atoi() may read past the end of the pid, and the  *)
(* process numbers that an unrelated program may get.                      *)
(***************************************************************************)
World == [runs     : SUBSET Launchers,
          overlap  : BOOLEAN,
          failures : SUBSET {"fork", "pidfile", "rf", "crash"},
          overread : SUBSET Pids,
          others   : SUBSET Pids]

ASSUME DaemonAssumption ==
    /\ Nil \notin Launchers \cup Pids
    /\ Commands \subseteq {"start", "stop", "restart", "status"}
    /\ Worlds \subseteq World

VARIABLES
    world,    \* the circumstances of this behaviour; they do not change
    path,     \* the file the path of the pid file leads to, named by its creator
    content,  \* file -> the number in it, Nil when it is empty
    proc,     \* process number -> what runs under it
    sig,      \* process numbers that have a SIGUSR1 pending
    sock,     \* the daemon whose socket the name /tmp/wsd.socket leads to
    pc, cmd, fd, pid, stopped, result   \* the launchers

files == <<path, content>>
procs == <<proc, sig, sock>>
vars  == <<world, path, content, proc, sig, sock, pc, cmd, fd, pid, stopped, result>>

Init ==
    /\ world \in Worlds
    /\ path = Nil
    /\ content = [l \in Launchers |-> Nil]
    /\ proc = [p \in Pids |-> "none"]
    /\ sig = {}
    /\ sock = Nil
    /\ pc = [l \in Launchers |-> "idle"]
    /\ cmd = [l \in Launchers |-> "none"]
    /\ fd = [l \in Launchers |-> Nil]
    /\ pid = [l \in Launchers |-> Nil]
    /\ stopped = [l \in Launchers |-> TRUE]
    /\ result = [l \in Launchers |-> "none"]

IsDaemon(p) == proc[p] \in {"init", "unlinked", "serving"}
Running(p)  == IsDaemon(p) /\ p \notin sig

-----------------------------------------------------------------------------
(* Helpers of the launchers.                                               *)

Goto(l, label) == pc' = [pc EXCEPT ![l] = label]

(***************************************************************************)
(* stop() and start() return.  restart() goes on with start() whatever     *)
(* stop() returned, and fails when either of the two did.                  *)
(***************************************************************************)
Return(l, r) ==
    /\ Goto(l, "done")
    /\ result' = [result EXCEPT ![l] = IF stopped[l] THEN r ELSE "failed"]
    /\ UNCHANGED stopped

ReturnFromStop(l, ok) ==
    IF cmd[l] = "restart"
    THEN /\ Goto(l, "start")
         /\ stopped' = [stopped EXCEPT ![l] = ok]
         /\ UNCHANGED result
    ELSE Return(l, IF ok THEN "ok" ELSE "failed")

(***************************************************************************)
(* main and daemonRun: a run of the program begins.  Unless runs     *)
(* overlap it does so when the runs before it have ended.                  *)
(***************************************************************************)
BadEntry == [start |-> "start", stop |-> "stop", restart |-> "restart",
             status |-> "status"]

Entry == [start |-> "start", stop |-> "stop", restart |-> "stop", status |-> "status"]

Invoke(l, c) ==
    /\ pc[l] = "idle"
    /\ l \in world.runs
    /\ world.overlap \/ \A m \in Launchers : pc[m] \in {"idle", "done"}
    /\ Goto(l, Entry[c])
    /\ cmd' = [cmd EXCEPT ![l] = c]
    /\ UNCHANGED <<world, files, procs, fd, pid, stopped, result>>

-----------------------------------------------------------------------------
(* start().                                                                *)

(***************************************************************************)
(* access(): a launcher that finds the file says "Daemon already started". *)
(***************************************************************************)
StartRefused(l) ==
    /\ pc[l] = "start" /\ path # Nil
    /\ pid' = [pid EXCEPT ![l] = Nil]
    /\ Return(l, "failed")
    /\ UNCHANGED <<world, files, procs, cmd, fd>>

StartAccess(l) ==
    /\ pc[l] = "start" /\ path = Nil
    /\ Goto(l, "fork")
    /\ pid' = [pid EXCEPT ![l] = Nil]
    /\ UNCHANGED <<world, files, procs, cmd, fd, stopped, result>>

Fork(l) ==
    /\ pc[l] = "fork"
    /\ \E p \in Pids : /\ proc[p] = "none"
                       /\ proc' = [proc EXCEPT ![p] = "init"]
                       /\ pid' = [pid EXCEPT ![l] = p]
    /\ Goto(l, "open")
    /\ UNCHANGED <<world, files, sig, sock, cmd, fd, stopped, result>>

ForkFails(l) ==
    /\ pc[l] = "fork" /\ "fork" \in world.failures
    /\ Return(l, "failed")
    /\ UNCHANGED <<world, files, procs, cmd, fd, pid>>

(***************************************************************************)
(* open(O_CREAT | O_TRUNC) and write() of the parent.  The file is empty   *)
(* between the two, and a stop that removes it in between takes it away.   *)
(* BadWritePidFile forgets to write.                                       *)
(***************************************************************************)
OpenPidFile(l) ==
    /\ pc[l] = "open"
    /\ LET file == IF path = Nil THEN l ELSE path
       IN  /\ path' = file
           /\ content' = [content EXCEPT ![file] = Nil]
           /\ fd' = [fd EXCEPT ![l] = file]
    /\ Goto(l, "write")
    /\ UNCHANGED <<world, procs, cmd, pid, stopped, result>>

BadWritePidFile(l) ==
    /\ pc[l] = "write"
    /\ Return(l, "ok")
    /\ UNCHANGED <<world, files, procs, cmd, fd, pid>>

WritePidFile(l) ==
    /\ pc[l] = "write"
    /\ content' = [content EXCEPT ![fd[l]] = pid[l]]
    /\ Return(l, "ok")
    /\ UNCHANGED <<world, path, procs, cmd, fd, pid>>

PidFileFails(l) ==
    /\ pc[l] \in {"open", "write"} /\ "pidfile" \in world.failures
    /\ Return(l, "failed")
    /\ UNCHANGED <<world, files, procs, cmd, fd, pid>>

-----------------------------------------------------------------------------
(* stop() and status().                                                    *)

StopAccess(l) ==
    /\ pc[l] = "stop"
    /\ IF path = Nil THEN ReturnFromStop(l, FALSE)
                     ELSE Goto(l, "reopen") /\ UNCHANGED <<stopped, result>>
    /\ UNCHANGED <<world, files, procs, cmd, fd, pid>>

StopOpen(l) ==
    /\ pc[l] = "reopen"
    /\ IF path = Nil
       THEN ReturnFromStop(l, FALSE) /\ UNCHANGED fd
       ELSE /\ fd' = [fd EXCEPT ![l] = path]
            /\ Goto(l, "read")
            /\ UNCHANGED <<stopped, result>>
    /\ UNCHANGED <<world, files, procs, cmd, pid>>

(***************************************************************************)
(* read() and atoi().  The bytes are not terminated: what follows them in  *)
(* memory may add digits.                                                  *)
(***************************************************************************)
Atoi(c) == {c} \cup world.overread

StopRead(l) ==
    /\ pc[l] = "read"
    /\ \E n \in Atoi(content[fd[l]]) : pid' = [pid EXCEPT ![l] = n]
    /\ Goto(l, "kill")
    /\ UNCHANGED <<world, files, procs, cmd, fd, stopped, result>>

(***************************************************************************)
(* kill(pid, SIGUSR1).  A daemon has the signal pending; another program   *)
(* dies of it; the number 0 sends it to the launcher's own process group.  *)
(* BadKill sends nothing.                                                  *)
(***************************************************************************)
BadKill(l) ==
    /\ pc[l] = "kill"
    /\ Goto(l, "remove")
    /\ UNCHANGED <<world, files, procs, cmd, fd, pid, stopped, result>>

Kill(l) ==
    /\ pc[l] = "kill"
    /\ LET p == pid[l]
       IN  IF p = Nil
           THEN /\ Goto(l, "done")
                /\ result' = [result EXCEPT ![l] = "killed"]
                /\ UNCHANGED <<proc, sig>>
           ELSE /\ Goto(l, "remove")
                /\ sig' = IF IsDaemon(p) THEN sig \cup {p} ELSE sig
                /\ proc' = [proc EXCEPT ![p] = IF @ = "other" THEN "none" ELSE @]
                /\ UNCHANGED result
    /\ UNCHANGED <<world, files, sock, cmd, fd, pid, stopped>>

(***************************************************************************)
(* remove() and the end of stop(); BadStopRemove leaves the file.          *)
(***************************************************************************)
BadStopRemove(l) ==
    /\ pc[l] = "remove"
    /\ ReturnFromStop(l, TRUE)
    /\ UNCHANGED <<world, files, procs, cmd, fd, pid>>

StopRemove(l) ==
    /\ pc[l] = "remove"
    /\ path' = Nil
    /\ ReturnFromStop(l, TRUE)
    /\ UNCHANGED <<world, content, procs, cmd, fd, pid>>

(***************************************************************************)
(* status() logs what it read and returns 0 in either case.                *)
(***************************************************************************)
StatusAccess(l) ==
    /\ pc[l] = "status"
    /\ IF path = Nil THEN Return(l, "ok")
                     ELSE Goto(l, "report") /\ UNCHANGED <<stopped, result>>
    /\ UNCHANGED <<world, files, procs, cmd, fd, pid>>

StatusReport(l) ==
    /\ pc[l] = "report"
    /\ IF path = Nil
       THEN Return(l, "failed") /\ UNCHANGED pid
       ELSE /\ \E n \in Atoi(content[path]) : pid' = [pid EXCEPT ![l] = n]
            /\ Return(l, "runs")
    /\ UNCHANGED <<world, files, procs, cmd, fd>>

-----------------------------------------------------------------------------
(* The daemon: startDaemon() and startServer().  Its handler runs before   *)
(* its next step, so a daemon with the signal pending only exits.          *)

InitRadioFails(p) ==
    /\ Running(p) /\ proc[p] = "init" /\ "rf" \in world.failures
    /\ proc' = [proc EXCEPT ![p] = "none"]
    /\ UNCHANGED <<world, files, sig, sock, pc, cmd, fd, pid, stopped, result>>

UnlinkSocket(p) ==
    /\ Running(p) /\ proc[p] = "init"
    /\ proc' = [proc EXCEPT ![p] = "unlinked"]
    /\ sock' = Nil
    /\ UNCHANGED <<world, files, sig, pc, cmd, fd, pid, stopped, result>>

(***************************************************************************)
(* bind() finds the name taken when another daemon bound it meanwhile; the *)
(* failure shows in accept(), and the daemon exits.  BadBind removes the   *)
(* name after it has bound it; StuckBind tries again for ever.             *)
(***************************************************************************)
BadBind(p) ==
    /\ Running(p) /\ proc[p] = "unlinked"
    /\ sock' = Nil /\ proc' = [proc EXCEPT ![p] = "serving"]
    /\ UNCHANGED <<world, files, sig, pc, cmd, fd, pid, stopped, result>>

StuckBind(p) ==
    /\ Running(p) /\ proc[p] = "unlinked"
    /\ sock = Nil
    /\ sock' = p /\ proc' = [proc EXCEPT ![p] = "serving"]
    /\ UNCHANGED <<world, files, sig, pc, cmd, fd, pid, stopped, result>>

Bind(p) ==
    /\ Running(p) /\ proc[p] = "unlinked"
    /\ IF sock = Nil
       THEN sock' = p /\ proc' = [proc EXCEPT ![p] = "serving"]
       ELSE UNCHANGED sock /\ proc' = [proc EXCEPT ![p] = "none"]
    /\ UNCHANGED <<world, files, sig, pc, cmd, fd, pid, stopped, result>>

SignalHandler(p) ==
    /\ IsDaemon(p) /\ p \in sig
    /\ proc' = [proc EXCEPT ![p] = "none"]
    /\ sig' = sig \ {p}
    /\ UNCHANGED <<world, files, sock, pc, cmd, fd, pid, stopped, result>>

(***************************************************************************)
(* A daemon that ends on its own: accept() fails, a signal, a power cut.   *)
(***************************************************************************)
Crash(p) ==
    /\ Running(p) /\ "crash" \in world.failures
    /\ proc' = [proc EXCEPT ![p] = "none"]
    /\ UNCHANGED <<world, files, sig, sock, pc, cmd, fd, pid, stopped, result>>

(***************************************************************************)
(* The system gives a free number to another program.                      *)
(***************************************************************************)
OtherStarts(p) ==
    /\ proc[p] = "none" /\ p \in world.others
    /\ proc' = [proc EXCEPT ![p] = "other"]
    /\ UNCHANGED <<world, files, sig, sock, pc, cmd, fd, pid, stopped, result>>

-----------------------------------------------------------------------------
Step(l) ==
    \/ StartRefused(l) \/ StartAccess(l) \/ Fork(l) \/ ForkFails(l)
    \/ OpenPidFile(l) \/ WritePidFile(l) \/ PidFileFails(l)
    \/ StopAccess(l) \/ StopOpen(l) \/ StopRead(l) \/ Kill(l) \/ StopRemove(l)
    \/ StatusAccess(l) \/ StatusReport(l)

Serve(p) == UnlinkSocket(p) \/ Bind(p) \/ InitRadioFails(p)

Next ==
    \/ \E l \in Launchers : Step(l) \/ \E c \in Commands : Invoke(l, c)
    \/ \E p \in Pids : Serve(p) \/ SignalHandler(p) \/ Crash(p) \/ OtherStarts(p)

Spec == Init /\ [][Next]_vars

(***************************************************************************)
(* A launcher and a daemon that can go on do; nothing makes anybody run    *)
(* the program.                                                            *)
(***************************************************************************)
FairSpec ==
    /\ Spec
    /\ \A l \in Launchers : WF_vars(Step(l))
    /\ \A p \in Pids : WF_vars(Serve(p)) /\ WF_vars(SignalHandler(p))
-----------------------------------------------------------------------------
(* Properties.                                                             *)

(***************************************************************************)
(* Every variable has its shape.                                           *)
(***************************************************************************)
Labels == {"idle", "start", "fork", "open", "write", "stop", "reopen", "read",
           "kill", "remove", "status", "report", "done"}

TypeOK ==
    /\ world \in World
    /\ path \in Launchers \cup {Nil}
    /\ content \in [Launchers -> Pids \cup {Nil}]
    /\ proc \in [Pids -> {"none", "init", "unlinked", "serving", "other"}]
    /\ sig \subseteq Pids
    /\ sock \in Pids \cup {Nil}
    /\ pc \in [Launchers -> Labels]
    /\ cmd \in [Launchers -> Commands \cup {"none"}]
    /\ fd \in [Launchers -> Launchers \cup {Nil}]
    /\ pid \in [Launchers -> Pids \cup {Nil}]
    /\ stopped \in [Launchers -> BOOLEAN]
    /\ result \in [Launchers -> {"none", "ok", "failed", "killed", "runs"}]

(***************************************************************************)
(* Runs that follow one another, with a pid file that can be written and   *)
(* whose bytes are followed by no digit; and among these, daemons that do  *)
(* not end unless they are stopped.                                        *)
(***************************************************************************)
Orderly ==
    /\ ~world.overlap
    /\ "pidfile" \notin world.failures
    /\ world.overread = {}

Tame == Orderly /\ world.failures \subseteq {"fork"}

(***************************************************************************)
(* A daemon that nobody has told to stop can be told so: its number is in  *)
(* the pid file, or the launcher that forked it is about to put it there   *)
(* (core.c:168-187).                                                       *)
(***************************************************************************)
Recorded(p) == path # Nil /\ content[path] = p

Findable ==
    \A p \in Pids : Running(p) =>
        \/ Recorded(p)
        \/ \E l \in Launchers : pc[l] \in {"open", "write"} /\ pid[l] = p

NoOrphan == Orderly => Findable

(***************************************************************************)
(* The number in the pid file is that of a daemon that runs, unless a stop *)
(* is between its signal and its remove().  Then stop() signals no other   *)
(* program (core.c:218), a start is refused only when a daemon runs (:147) *)
(* and status tells the truth (:264).                                      *)
(***************************************************************************)
FileIsTrue ==
    \A p \in Pids :
        Recorded(p) /\ (\A l \in Launchers : pc[l] # "remove") => Running(p)

PidFileIsTrue == Tame => FileIsTrue

(***************************************************************************)
(* A second start finds the first: at most one daemon runs (core.c:147).   *)
(***************************************************************************)
AtMostOne == \A p, q \in Pids : Running(p) /\ Running(q) => p = q

OneDaemon == Orderly => AtMostOne

(***************************************************************************)
(* The name of the socket leads to the daemon that serves it: a daemon     *)
(* that starts takes the name from a dead one only (core.c:48).            *)
(***************************************************************************)
ServingIsReachable ==
    Orderly => \A p \in Pids : Running(p) /\ proc[p] = "serving" => sock = p

(***************************************************************************)
(* A daemon comes to serve or to its end, and one that a stop named ends.  *)
(***************************************************************************)
DaemonServesOrEnds ==
    \A p \in Pids : IsDaemon(p) ~> (proc[p] = "serving" \/ ~IsDaemon(p))
StoppedEnds ==
    \A p \in Pids :
        (\E l \in Launchers : pc[l] = "kill" /\ pid[l] = p) ~> ~IsDaemon(p)
-----------------------------------------------------------------------------
(* What the comments and messages say and the code does not do, and        *)
(* AtMostOne when starts overlap (README, section 5).                      *)

(***************************************************************************)
(* A start or restart that reports a failure has left no daemon behind.    *)
(***************************************************************************)
FailedLeavesNothing ==
    \A l \in Launchers :
        result[l] = "failed" /\ cmd[l] \in {"start", "restart"} =>
            \A p \in Pids : pid[l] = p => ~Running(p)

(***************************************************************************)
(* stop() sends its signal to daemons only (core.c:190).                   *)
(***************************************************************************)
OthersUnharmed ==
    [][\A p \in Pids : proc[p] = "other" => proc'[p] = "other"]_vars

(***************************************************************************)
(* "Daemon already started" (core.c:148) is said when one is.              *)
(***************************************************************************)
RefusedIfStarted ==
    [][\A l \in Launchers : StartRefused(l) => \E p \in Pids : IsDaemon(p)]_vars

(***************************************************************************)
(* "Daemon run with pid" (core.c:264) is said of a daemon that runs.       *)
(***************************************************************************)
StatusIsTrue ==
    [][\A l \in Launchers : result[l] # "runs" /\ result'[l] = "runs" =>
           \E p \in Pids : pid'[l] = p /\ IsDaemon(p)]_vars
=============================================================================
