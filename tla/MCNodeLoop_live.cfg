CONSTANTS
  p1 = p1
  p2 = p2
  sA = sA
  x1 = x1
  x2 = x2
  Peers = {p1, p2}
  NoPeer = NoPeer
  ConnIds = {c1, c2}
  Services = {sA}
  Specs = {x1, x2}
  ServiceOf <- MCServiceOf
  TargetOf <- MCOwnTargetOf
  MAX_RELAY_RECONNECT_RETRIES = 3
  RelayAddrs = {1}
  DirectAddrs = {}
  OtherAddrs = {}
  ADDRESS_CANDIDATE_TTL = 1
  MAX_DIRECT_CANDIDATES = 1
  MAX_RELAY_CANDIDATES = 1
  MAX_REDIAL_ADDRESSES = 2
  BootstrapPeers = {}
  Faults = {"direct"}
  MaxAttempts = 5
  MaxQueries = 1
  MaxPhaseChanges = 1
SPECIFICATION FairSpec
PROPERTIES FallsBackToRelay RequestsAreOpened
CHECK_DEADLOCK FALSE
