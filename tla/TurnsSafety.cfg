\* One fault of any kind under every interleaving of clients, reactor, ingestion and supervisor.
SPECIFICATION OrchestrationSafe
CONSTANTS
  t1 = t1
  p1 = p1
  i1 = i1
  Instances = {i1}
  NoInstance = NoInstance
  Threads = {t1}
  Projects = {p1}
  ProjectOf <- MCProjectOf
  WorktreeOf <- MCLocal
  FolderOf <- MCFolder
  NoWorktree = NoWorktree
  Thread = t1
  Instance = i1
  Slots = {1, 2}
  MaxRequests = 0
  MaxTurns = 2
  MaxMessages = 3
  MaxMailbox = 2
  MaxAttempts = 1
  Faults = {"kill", "exit", "fatal", "refuse", "attach", "linger"}
  MaxFaults = 1
\* The prompts run out, and a deleted thread is left alone.
CHECK_DEADLOCK FALSE
INVARIANT
  WorkIsTracked
PROPERTIES
  EngineImplemented
  HeldIsNeverDropped
  TurnsSentInOrder
