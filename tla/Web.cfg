SPECIFICATION FairSpec
CONSTANTS
  MaxConnections = 3
  MaxMsgs = 2
INVARIANTS TypeOK RemovedExactly
PROPERTIES NothingAfterTorn HandshakeFirst ImplementsPubSub EveryMessageServed GoneClientReaped
\* No more packets, no more connections: every thread waits, as it should.
CHECK_DEADLOCK FALSE
