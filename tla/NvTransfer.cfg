\* Two sockets that hold two lists each, and a client that may ask for one
\* reply more than they and the hands of the server bear.
SPECIFICATION Spec
CONSTANTS
  Cap = 2
  Window = 6
  MaxRequests = 7
INVARIANTS
  TypeOK
  InFlight
  NoMutualWait
PROPERTIES
  ReplyMatches
  ClientReturns
