CONSTANTS
  Peers = {p1, p2}
  NoPeer = NoPeer
  ConnIds = {c1, c2, c3, c4, c5}
  MaxAttempts = 2
SPECIFICATION Spec
SYMMETRY Symmetries
INVARIANTS DeadlinesAreCurrent TrackedDialsAreCurrent TrackerAgreesWithSwarm
PROPERTIES AttemptIdsAreFresh
CHECK_DEADLOCK FALSE
