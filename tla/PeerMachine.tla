---------------------------- MODULE PeerMachine ----------------------------
(***************************************************************************)
(* PeerState (src/src/state/peer.rs): how a node joins the overlay, which  *)
(* peers it knows and when it asks for a relay reservation.  Each operator *)
(* below is one arm of PeerState::transition.  Where the code takes the    *)
(* first entry of a HashMap or HashSet any entry may be it: a transition   *)
(* returns the new state and the alternatives for its commands.            *)
(*                                                                         *)
(* A multiaddress is what the code asks of it: its public IP, or that it   *)
(* is a loopback address.  Every address has a port.                       *)
(***************************************************************************)
EXTENDS Overlay, Sequences, SequencesExt, Functions

CONSTANTS
  BootstrapPeers,
  Multiaddrs,
  NoIp,
  IpOf,         \* the public IP of an address, or NoIp
  Loopback      \* the loopback addresses

ASSUME PeerMachineAssumption ==
  /\ BootstrapPeers \subseteq Peers
  /\ DOMAIN IpOf = Multiaddrs
  /\ Loopback \subseteq {a \in Multiaddrs : IpOf[a] = NoIp}

-----------------------------------------------------------------------------
(* Commands and what a transition returns *)

KademliaBootstrap == [type |-> "KademliaBootstrap"]
KademliaAddAddress(p, a) == [type |-> "KademliaAddAddress", peer |-> p, addr |-> a]
RequestRelayReservation(p, a) ==
  [type |-> "RequestRelayReservation", peer |-> p, addr |-> a]

Out(s, cmds) == [state |-> s, alternatives |-> {cmds}]

-----------------------------------------------------------------------------
(* Addresses *)

has_public_ip(a) == IpOf[a] # NoIp

\* The addresses prefer_public_addr may return.
prefer_public_addr(addrs) ==
  LET public  == {a \in addrs : has_public_ip(a)}
      distant == addrs \ Loopback
  IN  CASE public # {} -> public
        [] public = {} /\ distant # {} -> distant
        [] OTHER -> addrs

\* A mutation of replace_stale_public_addr_for_ip: nothing is replaced.
BugKeepStale(addrs, a) == addrs

\* Addresses that share the public IP of a are out of date.
replace_stale_public_addr_for_ip(addrs, a) ==
  {known \in addrs : known = a \/ ~has_public_ip(a) \/ IpOf[known] # IpOf[a]}

-----------------------------------------------------------------------------
(* State *)

\* PeerState::new() with the bootstrap peers of the command line, after the
\* event run() feeds it: NoBootstrapPeers, or NatStatusChanged(Private).
InitialPeer ==
  [phase |-> IF BootstrapPeers = {} THEN "Ready" ELSE "Joining",
   nat_status |-> IF BootstrapPeers = {} THEN "Unknown" ELSE "Private",
   relay_reserved |-> FALSE,
   known_peers |-> [p \in {} |-> {}],
   bootstrap_peers |-> BootstrapPeers,
   kad_bootstrapped |-> FALSE,
   external_addrs |-> {}]

Known(s, p) == IF p \in DOMAIN s.known_peers THEN s.known_peers[p] ELSE {}

\* known_peers with the entry of p set, and without it.
WithPeer(known, p, addrs) ==
  [q \in DOMAIN known \cup {p} |-> IF q = p THEN addrs ELSE known[q]]
WithoutPeer(known, p) == Restrict(known, DOMAIN known \ {p})

\* What maybe_request_relay may add to cmds.
maybe_request_relay(s, cmds) ==
  LET relays == DOMAIN s.known_peers \cap s.bootstrap_peers
      Ask(p) == {cmds \cup {RequestRelayReservation(p, a)} :
                   a \in prefer_public_addr(s.known_peers[p])}
  IN  IF s.nat_status # "Private" \/ s.relay_reserved \/ relays = {} THEN {cmds}
      ELSE UNION {IF s.known_peers[p] = {} THEN {cmds} ELSE Ask(p) : p \in relays}

maybe_become_ready(s) ==
  IF s.phase = "Joining" /\ s.kad_bootstrapped /\ s.external_addrs # {}
  THEN [s EXCEPT !.phase = "Ready"]
  ELSE s

-----------------------------------------------------------------------------
(* PeerState::transition, one operator per event that does something *)

BootstrapConnected(s, p, a) ==
  Out([s EXCEPT !.bootstrap_peers = @ \cup {p},
                !.known_peers = WithPeer(@, p, Known(s, p) \cup {a})],
      {KademliaAddAddress(p, a)}
        \cup (IF s.phase = "ShuttingDown" THEN {} ELSE {KademliaBootstrap}))

KademliaBootstrapOk(s) == Out(maybe_become_ready([s EXCEPT !.kad_bootstrapped = TRUE]), {})

NatStatusChanged(s, status) ==
  LET changed == [s EXCEPT !.nat_status = status]
  IN  IF status = "Public" THEN Out([changed EXCEPT !.relay_reserved = FALSE], {})
      ELSE [state |-> changed, alternatives |-> maybe_request_relay(changed, {})]

DiscoveryTimeout(s) ==
  Out(IF s.phase = "Joining" /\ s.kad_bootstrapped /\ DOMAIN s.known_peers # {}
      THEN [s EXCEPT !.phase = "Ready"] ELSE s, {})

MdnsDiscovered(s, p, a) ==
  Out([s EXCEPT !.known_peers = WithPeer(@, p, Known(s, p) \cup {a})],
      {KademliaAddAddress(p, a)})

MdnsExpired(s, p, a) ==
  Out(IF p \notin DOMAIN s.known_peers THEN s
      ELSE IF s.known_peers[p] \subseteq {a}
      THEN [s EXCEPT !.known_peers = WithoutPeer(@, p)]
      ELSE [s EXCEPT !.known_peers[p] = @ \ {a}], {})

\* A mutation of PeerIdentified: no reservation is asked for.
BugIdentifyWithoutRequest(s, p, listen_addrs) ==
  LET Learn(addrs, a) == replace_stale_public_addr_for_ip(addrs, a) \cup {a}
  IN  Out([s EXCEPT !.known_peers =
             WithPeer(@, p, FoldLeft(Learn, Known(s, p), listen_addrs))], {})

\* listen_addrs are taken in order; a public address that is new goes to
\* Kademlia too.
PeerIdentified(s, p, listen_addrs) ==
  LET Learn(acc, a) ==
        LET kept == replace_stale_public_addr_for_ip(acc.addrs, a)
        IN  [addrs |-> kept \cup {a},
             cmds  |-> IF a \notin kept /\ has_public_ip(a)
                       THEN acc.cmds \cup {KademliaAddAddress(p, a)} ELSE acc.cmds]
      learnt == FoldLeft(Learn, [addrs |-> Known(s, p), cmds |-> {}], listen_addrs)
      after  == [s EXCEPT !.known_peers = WithPeer(@, p, learnt.addrs)]
  IN  [state |-> after,
       alternatives |-> IF p \in s.bootstrap_peers THEN maybe_request_relay(after, learnt.cmds)
                        ELSE {learnt.cmds}]

RelayReservationAccepted(s) == Out([s EXCEPT !.relay_reserved = TRUE], {})

\* A mutation of RelayReservationFailed: the lost reservation still counts.
BugStillReserved(s) == Out(s, {})

RelayReservationFailed(s) ==
  LET failed == [s EXCEPT !.relay_reserved = FALSE]
  IN  [state |-> failed, alternatives |-> maybe_request_relay(failed, {})]

ExternalAddrConfirmed(s, a) ==
  Out(maybe_become_ready([s EXCEPT !.external_addrs = @ \cup {a}]), {})

ExternalAddrExpired(s, a) == Out([s EXCEPT !.external_addrs = @ \ {a}], {})

ShutdownRequested(s) == Out([s EXCEPT !.phase = "ShuttingDown"], {})

\* A mutation of ConnectionLostAll: the lost peer stays known.
BugKeepLostPeer(s, p) == Out([s EXCEPT !.relay_reserved = @ /\ p \notin s.bootstrap_peers], {})

\* ConnectionLost with no remaining connection.  A ready node that knows no
\* peer any more joins again.
ConnectionLostAll(s, p) ==
  LET lost == [s EXCEPT !.known_peers = WithoutPeer(@, p),
                        !.relay_reserved = @ /\ p \notin s.bootstrap_peers]
  IN  IF s.phase = "Ready" /\ DOMAIN lost.known_peers = {} /\ s.bootstrap_peers # {}
      THEN Out([lost EXCEPT !.phase = "Joining", !.kad_bootstrapped = FALSE],
               {KademliaBootstrap})
      ELSE Out(lost, {})
=============================================================================
