CONSTANTS
  NoPeer = NoPeer
  NoIp = NoIp
  NoQuery = NoQuery
  a1 = a1
  a2 = a2
  a3 = a3
  ip1 = ip1
  IpOf <- MCIpOf
  BACKOFF_INITIAL = 1
  BACKOFF_MAX = 2
  Loopback = {}
  Peers = {b1}
  BootstrapPeers = {b1}
  Multiaddrs = {a1, a2}
  ExternalAddrs = {e1}
  QueryIds = {q1, q2}
  Faults = {"own_queries", "mdns", "dial_error", "expiry", "nat", "closed", "denied", "reservation_lost"}
  MaxConns = 1
  MaxDials = 1
  MaxListeners = 1
  MaxIdentify = 1
SPECIFICATION FairSpec
INVARIANTS IdentifyReplacesStale
PROPERTIES JoinsTheOverlay RelayIsReserved
