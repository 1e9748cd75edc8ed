CONSTANTS
  a = a
  b = b
  Clients = {a, b}
  NoOne = NoOne
  Streams <- MCStreams
  Limits = {1, 2}
  BufferSize = 2
  Room = 1
SPECIFICATION Spec
INVARIANTS MapsAgree BufferIsOwn
CHECK_DEADLOCK FALSE
PROPERTIES ImplementsService Served Accepted
