\* A watch over connections that break anywhere, with every kind of request.
CONSTANTS
  Types <- MCTypes
  Requests <- MCRequests
  Retries = 2
  MaxEvents = 2
  MaxLines = 3
SPECIFICATION Spec
INVARIANTS WatchIsHonest
PROPERTIES WatchEnds
