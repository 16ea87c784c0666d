------------------------------ MODULE MCDaemon ------------------------------
(***************************************************************************)
(* A small system for TLC, in three worlds: runs of the program that come  *)
(* one after the other while daemons fail; the same with daemons that only *)
(* end when they are stopped, next to programs that take their numbers;    *)
(* and two runs that overlap, where everything may fail.                   *)
(***************************************************************************)
EXTENDS Daemon

CONSTANTS l1, l2, l3, p1, p2

ThreeLaunchers == {l1, l2, l3}
TwoPids        == {p1, p2}
AllCommands    == {"start", "stop", "restart", "status"}

Failing == [runs |-> ThreeLaunchers, overlap |-> FALSE,
            failures |-> {"fork", "rf", "crash"}, overread |-> {}, others |-> {}]

Stopped == [runs |-> ThreeLaunchers, overlap |-> FALSE,
            failures |-> {"fork"}, overread |-> {}, others |-> TwoPids]

Overlapping == [runs |-> {l1, l2}, overlap |-> TRUE,
                failures |-> {"fork", "pidfile", "rf", "crash"},
                overread |-> {p1}, others |-> {p1}]

AllWorlds == {Failing, Stopped, Overlapping}
=============================================================================
