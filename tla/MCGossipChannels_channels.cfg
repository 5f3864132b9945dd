\* Channels and sockets so small that both kinds of jam happen with the four
\* copies two messages make; one connection may break.
CONSTANTS
  a = a
  b = b
  ab = ab
  ba = ba
  m1 = m1
  m2 = m2
  Node = {a, b}
  Conn = {ab, ba}
  MessageId = {m1, m2}
  Author <- Authors
  Dialer <- Dialers
  Listener <- Listeners
  OutgoingCapacity = 1
  IncomingCapacity = 1
  SocketCapacity = 1
  Fanout = 2
  MaxTtl = 2
  MaxCuts = 1
SPECIFICATION Spec
INVARIANTS TypeOK JamNeedsLoad
PROPERTIES ImplementsDelivery
\* The channels may jam.
CHECK_DEADLOCK FALSE
