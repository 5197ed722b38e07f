SPECIFICATION CmdFair
CONSTANTS
  MaxTurns = 2
  Approvals = {}
  Questions = {}
CHECK_DEADLOCK FALSE
INVARIANTS OneHarness RunsCompleteOnce
PROPERTIES AnnouncedTurnsEnd OrphansDie
