SPECIFICATION Spec
CONSTANTS
  ArgSets <- AllArgs
  InterfaceExists = {TRUE}
  Invokers = {"user"}
  MaxArrivals = 0
INVARIANTS AnnouncedFiltersActive
\* main exits when a call fails, and waits when no frame comes.
CHECK_DEADLOCK FALSE
