SPECIFICATION CmdSafe
CONSTANTS
  MaxTurns = 1
  r1 = r1
  r2 = r2
  Approvals = {r1}
  Questions = {r2}
CHECK_DEADLOCK FALSE
INVARIANTS ResolvedOnce VerdictStands CardsReachable
