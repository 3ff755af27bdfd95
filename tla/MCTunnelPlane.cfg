CONSTANTS
  t1 = t1
  t2 = t2
  known = known
  long = long
  huge = huge
  Tunnels = {t1, t2}
  Clients = {c1, c2}
  Services = {known, long, huge}
  Exposed = {known}
  NoTunnel = NoTunnel
  NoService = NoService
  MayAskFor <- MCMayAskFor
  RequestSize <- MCRequestSize
  RejectionOverhead = 1
  MAX_MESSAGE_SIZE = 3
  Faults = {"bind_error", "accept_error", "open_error", "stream_lost", "service_down", "long_poll"}
SPECIFICATION FairSpec
INVARIANTS TypeOK BridgedToTheService ShutdownReachesEveryTask
PROPERTIES ClientsAreServed
CHECK_DEADLOCK FALSE
