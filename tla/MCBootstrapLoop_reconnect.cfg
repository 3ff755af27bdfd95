CONSTANTS
  NoPeer = NoPeer
  NoIp = NoIp
  NoQuery = NoQuery
  a1 = a1
  a2 = a2
  a3 = a3
  ip1 = ip1
  IpOf <- MCIpOf
  BACKOFF_INITIAL = 1
  BACKOFF_MAX = 3
  Loopback = {}
  Peers = {b1, b2}
  BootstrapPeers = {b1, b2}
  Multiaddrs = {a1}
  ExternalAddrs = {e1}
  QueryIds = {q1, q2}
  Faults = {"dial_error", "dial_refused", "behaviour_dial", "incoming", "closed", "query_error", "no_known_peers", "own_queries", "shutdown", "listen_error", "denied", "reservation_lost"}
  MaxConns = 2
  MaxDials = 2
  MaxListeners = 1
  MaxIdentify = 0
SPECIFICATION Spec
SYMMETRY MCSymmetry
INVARIANTS TypeOK BootstrapPeersAreDriven ReconnectStateIsReset KnownPeersAreConnected ReservedFlagHasReason
PROPERTIES BootstrappedByFreshQuery
CHECK_DEADLOCK FALSE
