SPECIFICATION Spec
CONSTANTS
  Endpoints <- AllHosts
  Ipv6 = {6, 7}
  MinPayload = 1
  flush_threshold = 4
  MaxSegment = 2
  MaxBytes = 5
INVARIANTS TypeOK OneStreamPerConnection Conservation NothingOverdue
\* The hosts have nothing more to say.
CHECK_DEADLOCK FALSE
