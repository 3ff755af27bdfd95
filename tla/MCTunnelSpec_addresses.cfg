CONSTANTS
  p1 = p1
  p2 = p2
  sA = sA
  x1 = x1
  x2 = x2
  Peers = {p1}
  NoPeer = NoPeer
  Services = {sA}
  Specs = {x1}
  ServiceOf <- MCServiceOf
  TargetOf <- MCTargetOf
  MAX_RELAY_RECONNECT_RETRIES = 1
  RelayAddrs = {1, 2}
  DirectAddrs = {3, 4, 5}
  OtherAddrs = {}
  ADDRESS_CANDIDATE_TTL = 1
  MAX_DIRECT_CANDIDATES = 2
  MAX_RELAY_CANDIDATES = 1
  MAX_REDIAL_ADDRESSES = 3
  MaxClock = 3
  MaxAttemptId = 1
  MaxProviders = 1
SPECIFICATION Spec
INVARIANTS TypeOK RelayAddressesSurvive
PROPERTIES SnapshotsNeverEmptied
