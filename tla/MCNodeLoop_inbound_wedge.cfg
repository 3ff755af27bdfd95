CONSTANTS
  p1 = p1
  p2 = p2
  sA = sA
  x1 = x1
  x2 = x2
  Peers = {p1}
  NoPeer = NoPeer
  ConnIds = {c1, c2}
  Services = {sA}
  Specs = {x1}
  ServiceOf <- MCServiceOf
  TargetOf <- MCTargetOf
  MAX_RELAY_RECONNECT_RETRIES = 1
  RelayAddrs = {}
  DirectAddrs = {}
  OtherAddrs = {}
  ADDRESS_CANDIDATE_TTL = 1
  MAX_DIRECT_CANDIDATES = 1
  MAX_RELAY_CANDIDATES = 1
  MAX_REDIAL_ADDRESSES = 2
  BootstrapPeers = {}
  Faults = {"incoming"}
  MaxAttempts = 5
  MaxQueries = 1
  MaxPhaseChanges = 1
SPECIFICATION FairSpec
PROPERTIES FallsBackToRelay
CHECK_DEADLOCK FALSE
