CONSTANTS
  p1 = p1
  p2 = p2
  sA = sA
  x1 = x1
  x2 = x2
  Peers = {p1, p2}
  NoPeer = NoPeer
  Services = {sA}
  Specs = {x1, x2}
  ServiceOf <- MCServiceOf
  TargetOf <- MCTargetOf
  MAX_RELAY_RECONNECT_RETRIES = 1
  RelayAddrs = {}
  DirectAddrs = {}
  OtherAddrs = {3}
  ADDRESS_CANDIDATE_TTL = 1
  MAX_DIRECT_CANDIDATES = 1
  MAX_RELAY_CANDIDATES = 1
  MAX_REDIAL_ADDRESSES = 2
  MaxClock = 1
  MaxAttemptId = 1
  MaxProviders = 2
SPECIFICATION Spec
INVARIANTS IntentConservation RetryStateIsOwned
PROPERTIES ImplementsTunnelRequests DirectPathPreferred
