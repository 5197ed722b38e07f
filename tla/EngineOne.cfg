\* One thread and every event, with a queue of two and a request to answer.
CONSTANTS
  Instances = {i1}
  NoInstance = NoInstance
  t1 = t1
  p1 = p1
  Threads = {t1}
  Projects = {p1}
  ProjectOf <- MCOneProject
  WorktreeOf <- MCLocal
  FolderOf <- MCFolder
  NoWorktree = NoWorktree
  MaxTurns = 2
  MaxMessages = 2
  MaxRequests = 1
SPECIFICATION Spec
INVARIANTS TypeOK StopNamesATurn IdleIsQuiet NoTurnWhileRestoring QueueListsOnce DecidedOnce
PROPERTY OneTurnAtATime
