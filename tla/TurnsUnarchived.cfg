\* Nothing fails.
SPECIFICATION OrchestrationSafe
CONSTANTS
  t1 = t1
  p1 = p1
  i1 = i1
  Instances = {i1}
  NoInstance = NoInstance
  Threads = {t1}
  Projects = {p1}
  ProjectOf <- MCProjectOf
  WorktreeOf <- MCLocal
  FolderOf <- MCFolder
  NoWorktree = NoWorktree
  Thread = t1
  Instance = i1
  Slots = {1, 2}
  MaxRequests = 0
  MaxTurns = 2
  MaxMessages = 3
  MaxMailbox = 1
  MaxAttempts = 1
  Faults = {}
  MaxFaults = 0
\* The prompts run out, and a deleted thread is left alone.
CHECK_DEADLOCK FALSE
PROPERTIES
  ArchivedStaysArchived
