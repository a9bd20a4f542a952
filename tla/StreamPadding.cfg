SPECIFICATION Spec
CONSTANTS
  Endpoints <- OneConnection
  Ipv6 = {6, 7}
  MinPayload = 1
  flush_threshold = 4
  MaxSegment = 2
  MaxBytes = 2
INVARIANTS OnlyPayload
\* The hosts have nothing more to say.
CHECK_DEADLOCK FALSE
