SPECIFICATION Spec
CONSTANTS
  ArgSets <- RingUnfiltered
  InterfaceExists = {FALSE}
  Invokers = {"user"}
  MaxArrivals = 1
INVARIANTS LateOnlyInterfaceChosen
\* main exits when a call fails, and waits when no frame comes.
CHECK_DEADLOCK FALSE
