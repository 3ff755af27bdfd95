CONSTANTS
  n1 = n1
  n2 = n2
  n3 = n3
  r1 = r1
  lan = lan
  nat_ip = nat_ip
  relay_ip = relay_ip
  NoIp = NoIp
  NoAddr = NoAddr
  NoMapping = NoMapping
  Addrs = {n1, n2, n3, r1, lan}
  IpOf <- MCIpOf
  Circuits = {r1}
  UpnpAddr = n1
  PmpAddr = n2
  StunServers = 2
  NatPorts = {1, 2}
  Peers = {b, q}
  BootstrapPeers = {b}
SPECIFICATION Spec
INVARIANTS TypeOK VerdictIsRight NoStaleAddress LatestAddressIsAdvertised ReservationsAreAdvertised PublicMeansMapped
