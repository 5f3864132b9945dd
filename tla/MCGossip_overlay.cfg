\* A ring of three nodes and a fourth one: copies of a message meet on two paths,
\* a cache of one id forgets the first message as soon as the second one arrives.
CONSTANTS
  a = a
  b = b
  c = c
  d = d
  ab = ab
  bc = bc
  ca = ca
  cd = cd
  m1 = m1
  m2 = m2
  Node = {a, b, c, d}
  Conn = {ab, bc, ca, cd}
  Ends <- RingWithTail
  MessageId = {m1, m2}
  Author <- Authors
  Injected <- Stray
  Fanout = 2
  MaxTtl = 3
  SeenCacheSize = 1
  MaxCalls = 2
SPECIFICATION FairSpec
INVARIANTS TypeOK NoEarlyRepeat HopBound StormBound SpreadUnderWay
PROPERTIES Spreads
\* Messages are finite and die out.
CHECK_DEADLOCK FALSE
