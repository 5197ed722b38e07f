\* Any three of two turns, two messages and two requests: a late start or
\* completion of an older turn with its card, two cards at once.
CONSTANTS
  Instances = {i1}
  NoInstance = none
  MaxTurns = 2
  MaxMessages = 2
  MaxMinted = 3
  MaxRequests = 2
  MaxOpen = 2
SPECIFICATION FoldsSpec
INVARIANTS FoldsAgree DecisionsShown
PROPERTIES TurnsStayTogether
\* A deleted thread has no more events.
CHECK_DEADLOCK FALSE
