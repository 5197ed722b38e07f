SPECIFICATION CmdSafe
CONSTANTS
  MaxTurns = 2
  Approvals = {}
  Questions = {}
CHECK_DEADLOCK FALSE
INVARIANT NoTurnWithoutProcess
