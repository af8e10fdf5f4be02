CONSTANTS
  p1 = p1
  p2 = p2
  p3 = p3
  event_loop = event_loop
  grpc_server = grpc_server
  flusher = flusher
  maintenance = maintenance
  Peer = {p1, p2, p3}
  Task = {event_loop, maintenance, grpc_server, flusher}
  EventLoop = event_loop
  Flusher = flusher
  Early = {event_loop, maintenance}
SPECIFICATION FairSpec
INVARIANTS
  TypeOK
  DurablePeersKept
  ExitSavesEverything
PROPERTIES
  EndedTaskIsReplaced
