CONSTANTS
  Size <- MCSize
  S = 2
  Half = 3
  Limits = {1, 5}
  Lengths = {0, 1, 3}
  Seeks <- MCSeeks
  Capacities = {0, 2}
  Adapters = {"buf", "line"}
  Targets = {"device", "slice", "cursor", "vec"}
  Room = 2
  MaxOffer = 3
  MaxData = 4
  CopySize = 3
SPECIFICATION FairCopyingSpec
INVARIANTS
  TypeOK
  EveryByteAccountedFor
  EndIsReal
  AcknowledgedReachesSink
  CopyIsExact
PROPERTIES
  ImplementsByteStream
  EveryCallReturns
  SilentAfterPanic
  EveryWriteEnds
  EveryCopyEnds
CHECK_DEADLOCK FALSE
