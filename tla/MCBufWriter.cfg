CONSTANTS
  Capacities = {0, 2}
  Adapters = {"buf"}
  Targets = {"vec", "device"}
  Room = 0
  MaxOffer = 2
  MaxData = 2
SPECIFICATION WriterSpec
PROPERTIES
  DestructorNeverPanics
CHECK_DEADLOCK FALSE
