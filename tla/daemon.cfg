SPECIFICATION FairSpec
CONSTANTS
  l1 = l1
  l2 = l2
  l3 = l3
  p1 = p1
  p2 = p2
  Nil = Nil
  Launchers <- ThreeLaunchers
  Pids <- TwoPids
  Commands <- AllCommands
  Worlds <- AllWorlds
CHECK_DEADLOCK FALSE
INVARIANTS TypeOK NoOrphan OneDaemon PidFileIsTrue ServingIsReachable
PROPERTIES DaemonServesOrEnds StoppedEnds
