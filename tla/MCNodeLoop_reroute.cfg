CONSTANTS
  p1 = p1
  p2 = p2
  sA = sA
  x1 = x1
  x2 = x2
  Peers = {p1, p2}
  NoPeer = NoPeer
  ConnIds = {c1, c2, c3}
  Services = {sA}
  Specs = {x1, x2}
  ServiceOf <- MCServiceOf
  TargetOf <- MCTargetOf
  MAX_RELAY_RECONNECT_RETRIES = 1
  RelayAddrs = {}
  DirectAddrs = {}
  OtherAddrs = {}
  ADDRESS_CANDIDATE_TTL = 1
  MAX_DIRECT_CANDIDATES = 1
  MAX_RELAY_CANDIDATES = 1
  MAX_REDIAL_ADDRESSES = 2
  BootstrapPeers = {p2}
  Faults = {"dial_error", "closed"}
  MaxAttempts = 2
  MaxQueries = 2
  MaxPhaseChanges = 1
SPECIFICATION Spec
SYMMETRY Symmetries
INVARIANTS ServiceRequestsAreDriven PeerRequestsAreDriven
PROPERTY LoopImplementsTunnelRequests
CHECK_DEADLOCK FALSE
