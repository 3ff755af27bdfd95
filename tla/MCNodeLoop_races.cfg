CONSTANTS
  p1 = p1
  p2 = p2
  sA = sA
  x1 = x1
  x2 = x2
  Peers = {p1}
  NoPeer = NoPeer
  ConnIds = {c1, c2, c3}
  Services = {sA}
  Specs = {x1, x2}
  ServiceOf <- MCServiceOf
  TargetOf <- MCTargetOf
  MAX_RELAY_RECONNECT_RETRIES = 1
  RelayAddrs = {1}
  DirectAddrs = {}
  OtherAddrs = {}
  ADDRESS_CANDIDATE_TTL = 1
  MAX_DIRECT_CANDIDATES = 1
  MAX_RELAY_CANDIDATES = 1
  MAX_REDIAL_ADDRESSES = 2
  BootstrapPeers = {}
  Faults = {"dial_error", "no_addresses", "behaviour_dial", "incoming", "direct", "closed"}
  MaxAttempts = 3
  MaxQueries = 2
  MaxPhaseChanges = 2
SPECIFICATION Spec
SYMMETRY Symmetries
INVARIANTS SessionsFollowAttempts RegistryMatchesConnections
  RelayedPeersAreConnected TunnelsOpenOnTheRightPath WaitersArePunchedFor
CHECK_DEADLOCK FALSE
