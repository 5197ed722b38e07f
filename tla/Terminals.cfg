\* A project and a local thread of it, two ids of the project's and one of the
\* thread's, two calls at once, two terminals an owner and an archival.
CONSTANTS
  p1 = p1
  t1 = t1
  a1 = a1
  a2 = a2
  b1 = b1
  c1 = c1
  c2 = c2
  Project = p1
  Threads = {t1}
  TerminalIds = {a1, a2, b1}
  Mints <- MCMints
  Calls = {c1, c2}
  PerOwner = 2
  MaxShells = 3
  MaxArchives = 1
SPECIFICATION TerminalsSafe
INVARIANTS ShellsReachable LimitHolds NoShellOutlives GoneHoldNothing
\* A server that is down stays down.
CHECK_DEADLOCK FALSE
SYMMETRY Alike
