SPECIFICATION Spec
CONSTANTS
  Lens <- SmallLens
  Bytes <- SmallBytes
  Words <- SmallWords
INVARIANTS TypeOK OnlyEmptyRecordPanics NameInExtension DomainTerminated
PROPERTIES NoByteReadTwice
\* A parser returns.
CHECK_DEADLOCK FALSE
