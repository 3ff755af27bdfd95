------------------------- MODULE ExternalAddresses -------------------------
(***************************************************************************)
(* Which of its own addresses a node advertises (src/src/node/mod.rs and   *)
(* external_addr.rs): what the event loop does when a behaviour confirms   *)
(* an address or lets it expire, and when a peer reports the address it    *)
(* sees the node at.  Each operator takes the books e of the loop and      *)
(* returns the new ones.                                                   *)
(*                                                                         *)
(* An address is a model value with an IP, NoIp when it is not a public    *)
(* one.  The swarm's set of external addresses is external; it is part of  *)
(* e because every operation changes it.  The ports seen per IP only reach *)
(* the log and are left out.                                               *)
(***************************************************************************)

CONSTANTS
  Addrs,       \* the addresses a node may be said to have
  IpOf,        \* the public IP of an address, or NoIp
  NoIp,
  NoAddr,
  Circuits     \* addresses over a relay: their IP and port are the relay's

ASSUME AddressAssumption ==
  /\ NoAddr \notin Addrs
  /\ Circuits \subseteq Addrs
  /\ DOMAIN IpOf = Addrs

Ips == {IpOf[a] : a \in Addrs} \ {NoIp}
At(ip) == {a \in Addrs : IpOf[a] = ip}

has_public_ip(a) == IpOf[a] # NoIp

is_valid_external_candidate(a) == a \notin Circuits /\ has_public_ip(a)

NoAddresses ==
  [external |-> {},                                   \* the swarm's set
   confirmed_external_by_ip |-> [ip \in Ips |-> NoAddr],
   bootstrap_observed_external_by_ip |-> [ip \in Ips |-> NoAddr]]

\* A mutation of on_confirmed: the address confirmed before is not withdrawn.
BugKeepConfirmed(e, a) ==
  IF has_public_ip(a)
  THEN [e EXCEPT !.external = @ \cup {a}, !.confirmed_external_by_ip[IpOf[a]] = a]
  ELSE [e EXCEPT !.external = @ \cup {a}]

\* A mutation of on_confirmed: one confirmed address for the node, not for the IP.
BugOnePerNode(e, a) ==
  IF has_public_ip(a)
  THEN [e EXCEPT
          !.external = (@ \ {e.confirmed_external_by_ip[ip] : ip \in Ips}) \cup {a},
          !.confirmed_external_by_ip[IpOf[a]] = a]
  ELSE [e EXCEPT !.external = @ \cup {a}]

\* ExternalAddrConfirmed: the swarm has added a; what was confirmed for the IP
\* before is withdrawn.
on_confirmed(e, a) ==
  IF has_public_ip(a)
  THEN [e EXCEPT
          !.external = (@ \cup {a}) \ ({e.confirmed_external_by_ip[IpOf[a]]} \ {a}),
          !.confirmed_external_by_ip[IpOf[a]] = a]
  ELSE [e EXCEPT !.external = @ \cup {a}]

\* ExternalAddrExpired: the swarm has removed a.
on_expired(e, a) ==
  [e EXCEPT
     !.external = @ \ {a},
     !.confirmed_external_by_ip =
        [ip \in Ips |-> IF @[ip] = a THEN NoAddr ELSE @[ip]]]

\* A node without bootstrap peers advertises whatever address a peer sees.
confirm_as_bootstrap_server(e, a) == [e EXCEPT !.external = @ \cup {a}]

\* A mutation of on_bootstrap_observation: the observation is kept for every IP.
BugOneObservation(e, a) ==
  [e EXCEPT
     !.external = (@ \ {e.bootstrap_observed_external_by_ip[IpOf[a]]}) \cup {a},
     !.bootstrap_observed_external_by_ip = [ip \in Ips |-> a]]

\* A mutation of on_bootstrap_observation: only the first one is advertised.
BugAdvertiseOnce(e, a) ==
  LET previous == e.bootstrap_observed_external_by_ip[IpOf[a]]
  IN  [e EXCEPT
         !.external = IF previous = NoAddr THEN @ \cup {a} ELSE @ \ ({previous} \ {a}),
         !.bootstrap_observed_external_by_ip[IpOf[a]] = a]

\* A bootstrap peer sees the node at a: the earlier observation for that IP is
\* withdrawn, a new one advertised.
on_bootstrap_observation(e, a) ==
  LET previous == e.bootstrap_observed_external_by_ip[IpOf[a]]
  IN  IF previous = a THEN e
      ELSE [e EXCEPT
              !.external = (@ \ {previous}) \cup {a},
              !.bootstrap_observed_external_by_ip[IpOf[a]] = a]

\* PeerIdentified with observed address a; relayed: the tracker knows of a relayed
\* connection to p.
on_identified(e, bootstrap_peers, p, relayed, a) ==
  LET e1 == IF bootstrap_peers = {} THEN confirm_as_bootstrap_server(e, a) ELSE e
  IN  IF p \in bootstrap_peers /\ ~relayed /\ is_valid_external_candidate(a)
      THEN on_bootstrap_observation(e1, a) ELSE e1
=============================================================================
