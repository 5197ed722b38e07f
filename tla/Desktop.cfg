SPECIFICATION Spec
CONSTANTS
  MaxFailures = 3
  MaxSpawns = 4
\* The app may have stopped its server and every child be gone.
CHECK_DEADLOCK FALSE
INVARIANTS OneServer StoppedStaysDown
