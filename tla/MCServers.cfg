SPECIFICATION ServersSpec
CONSTANTS
  Clients = {c1, c2}
  Sessions = {c1}
  MaxIn = 1
  SendBuf = 1
  EchoRing = 1
  SpliceRing = 2
  MaxBacklog = 1
INVARIANTS TypeOK NeverStalls ListedOnce
PROPERTIES BytesMove IdleEnds
CHECK_DEADLOCK FALSE
