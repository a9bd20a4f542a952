SPECIFICATION Spec
CONSTANTS
  ArgSets <- AllArgs
  InterfaceExists = {TRUE, FALSE}
  Invokers = {"user", "root"}
  MaxArrivals = 2
INVARIANTS TypeOK  LateFramesMatch
\* main exits when a call fails, and waits when no frame comes.
CHECK_DEADLOCK FALSE
