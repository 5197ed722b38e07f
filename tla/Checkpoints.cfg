\* Two local threads of one project: one directory, two fibers, one kill.
CONSTANTS
  Instances = {}
  NoInstance = NoInstance
  t1 = t1
  t2 = t2
  p1 = p1
  Threads = {t1, t2}
  Projects = {p1}
  ProjectOf <- MCOneProject
  WorktreeOf <- MCLocal
  FolderOf <- MCFolder
  NoWorktree = NoWorktree
  MaxTurns = 1
  MaxMessages = 0
  MaxRequests = 0
  MaxOrders = 2
  MaxMailbox = 2
  Faults = {"kill", "append"}
  MaxFaults = 2
SPECIFICATION CheckpointFair
INVARIANTS RestoresDoNotOverlap OneOutcomePerOrder RestoringMatchesLog DeletedThreadsLeaveNoRefs
PROPERTIES TurnsWaitForGit EngineKept RestoresSettle
\* Clients may have nothing left to do: the server then rests.
CHECK_DEADLOCK FALSE
