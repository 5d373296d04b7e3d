\* A publisher, a player, and a connection that is both; one app, one stream,
\* and the names that a connection has without them.
SPECIFICATION Spec
CONSTANTS
  a = a
  b = b
  v = v
  live = live
  x = x
  Publishers = {a, b}
  Viewers = {b}
  Apps = {Empty, live}
  Streams = {Empty, x}
  Empty = Empty
  NoConn = NoConn
  MaxClients = 2
  MaxSessions = 3
CHECK_DEADLOCK FALSE
INVARIANTS
  TypeOK
  ListedUnlessMoved
  OwnName
PROPERTIES
  SessionNotReplaced
