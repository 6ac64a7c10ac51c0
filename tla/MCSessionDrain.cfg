SPECIFICATION FairSpec
CONSTANTS
  a1 = a1  a2 = a2  aj = aj  al = al  b1 = b1  g1 = g1  g2 = g2  p1 = p1
  chan = chan  ana = ana  ben = ben  hub = hub
  None = None
  Msgs = {a1, b1, aj}
  Keys = {chan}
  SharedKeys = {chan}
  AbortSteering = {chan}
  PosterOnly = {p1}
  Permits = 1
  Capacity = 2
  MaxInterrupts = 1
  BatchMax = 2
  KeyOf <- MCKeyOf
  Sender <- MCSender
  Kind <- MCKind
  Base <- MCBase
  ReceivedAt <- MCReceivedAt
CHECK_DEADLOCK FALSE
PROPERTY Drained
