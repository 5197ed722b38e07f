\* One view; two replaceable keys, so that a merge can overtake; a budget of three.
CONSTANTS
  Subs = {s1}
  Rows = {row, usage}
  Boundary = boundary
  MaxLog = 5
  MaxItems = 3
  MaxDrops = 1
SPECIFICATION DeliveryFair
INVARIANTS ParkedIsShown
PROPERTIES ViewsAreReplicas ViewsCatchUp
\* The log is at its bound and everything delivered.
CHECK_DEADLOCK FALSE
