SPECIFICATION Live
CONSTANTS
  x1 = x1  x2 = x2  x3 = x3  x4 = x4  x5 = x5
  d1 = d1  d2 = d2  d3 = d3
  k1 = k1  k2 = k2  k3 = k3
  p1 = p1  p2 = p2
  r1 = r1  r2 = r2  r3 = r3
  Contents = {x1, x2, x3, x4, x5}
  Digests = {d1, d2, d3}
  DigestOf <- MCDigestOf
  Owning = {x1, x2, x3, x5}
  Configs = {k1, k2, k3}
  Pins = {p1, p2}
  BrokerPin <- MCBrokerPin
  GatewayPin <- MCGatewayPin
  Calls = {r1, r2, r3}
  MaxEdits = 2
  MaxFaults = 2
INVARIANTS TypeOK PreparedOnActive
PROPERTIES AgreesOnRunning Converges
