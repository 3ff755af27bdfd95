--------------------------- MODULE BootstrapLoop ---------------------------
(***************************************************************************)
(* How the event loop keeps a node in the overlay (src/src/node/mod.rs,    *)
(* backoff.rs): PeerState fed from connections, reconnects of bootstrap    *)
(* peers with growing delays, bootstrap queries, the discovery timeout and *)
(* relay reservations.  Each action is one iteration of the loop.          *)
(*                                                                         *)
(* The swarm is external: counts of dials and connections per peer, the    *)
(* running bootstrap queries and the relay listeners.  Connections are     *)
(* direct here, so the tracker counts what the swarm has open              *)
(* (TrackerAgreesWithSwarm of ConnectionSpec).  A bootstrap peer has one   *)
(* address on the command line.  A reconnect timer may fall due at any     *)
(* time.  The loop ends with the shutdown.  Which own addresses the loop   *)
(* adds to the swarm and replaces per IP is left to the environment: they  *)
(* are confirmed and expire at any time.                                   *)
(***************************************************************************)
EXTENDS PeerMachine, Naturals

CONSTANTS
  ExternalAddrs,     \* the node's own addresses that may be confirmed
  QueryIds,          \* ids of bootstrap queries; free again when nobody holds them
  NoQuery,
  BACKOFF_INITIAL,
  BACKOFF_MAX,
  Faults,            \* the misbehaviours a run allows, see AllFaults
  MaxConns,          \* bound: connections per peer
  MaxDials,          \* bound: concurrent dials per peer
  MaxListeners,      \* bound: relay listeners per peer and stage
  MaxIdentify        \* bound: length of the address list of an identify

AllFaults ==
  {"dial_error",         \* a dial fails
   "dial_refused",       \* swarm.dial returns an error
   "behaviour_dial",     \* Kademlia dials a bootstrap peer
   "incoming",           \* a peer connects to the node
   "closed",             \* a connection breaks
   "query_error",        \* a bootstrap query fails
   "no_known_peers",     \* kademlia.bootstrap refuses at once
   "own_queries",        \* Kademlia bootstraps by itself
   "expiry",             \* an external address expires
   "nat",                \* the NAT status changes
   "listen_error",       \* listen_on refuses at once
   "denied",             \* the relay denies a reservation
   "reservation_lost",   \* an accepted reservation ends on an open connection
   "mdns",               \* the mdns feature is on
   "shutdown"}

ASSUME BootstrapLoopAssumption ==
  /\ Faults \subseteq AllFaults
  /\ NoQuery \notin QueryIds
  /\ BACKOFF_INITIAL \in Nat \ {0} /\ BACKOFF_MAX \in Nat
  /\ BACKOFF_INITIAL <= BACKOFF_MAX
  /\ MaxConns \in Nat /\ MaxDials \in Nat /\ MaxListeners \in Nat /\ MaxIdentify \in Nat

VARIABLES
  peer,                     \* app_state.peer
  delays,                   \* backoff.delays, 0 for a peer without an entry
  pending_reconnects,       \* the bootstrap peers with a reconnect timer
  active_bootstrap_query,   \* ctx.active_bootstrap_query
  discovery_timeout_fired,
  conns,                    \* external: open connections per peer
  dials,                    \* external: dials under way per bootstrap peer
  running,                  \* external: bootstrap queries under way
  requested,                \* external: relay listeners without a reservation
  reserved,                 \* external: relay listeners with one
  orphaned,                 \* external: listeners whose relay connection is gone
  unreported,               \* relays at which a reservation ended without an event
  outdated                  \* queries begun before the node last fell back to Joining

loop == <<delays, pending_reconnects, discovery_timeout_fired>>
swarm == <<conns, dials>>
relay == <<requested, reserved, orphaned, unreported>>
vars == <<peer, loop, active_bootstrap_query, swarm, running, relay, outdated>>

Up == peer.phase # "ShuttingDown"

\* The address lists an identify may bring: of any length, and of bounded length.
Lists(max) == UNION {[1..n -> Multiaddrs] : n \in 0..max}
AddressLists == Lists(MaxIdentify)

Init ==
  /\ peer = InitialPeer
  /\ delays = [p \in BootstrapPeers |-> 0]
  /\ pending_reconnects = {}
  /\ active_bootstrap_query = NoQuery
  /\ discovery_timeout_fired = FALSE
  /\ conns = [p \in Peers |-> 0]
  /\ dials = [p \in BootstrapPeers |-> 1]
  /\ running = {}
  /\ requested = [p \in BootstrapPeers |-> 0]
  /\ reserved = [p \in BootstrapPeers |-> 0]
  /\ orphaned = [p \in BootstrapPeers |-> 0]
  /\ unreported = {}
  /\ outdated = {}

-----------------------------------------------------------------------------
(* Executing commands *)

\* A mutation of ActiveAfterRefusal: the earlier query stays the active one.
BugKeepActive == active_bootstrap_query

ActiveAfterRefusal == NoQuery

\* Command::KademliaBootstrap: a new query becomes the active one, unless
\* Kademlia refuses to start it.  The id of an active query that has ended is free
\* again, as it is replaced.
StartBootstrap(old, live) ==
  \/ \E id \in QueryIds \ live :
       /\ active_bootstrap_query' = id
       /\ running' = live \cup {id}
       /\ outdated' = old \ {id}
  \/ /\ "no_known_peers" \in Faults
     /\ active_bootstrap_query' = ActiveAfterRefusal
     /\ running' = live
     /\ outdated' = old

\* Command::RequestRelayReservation: one more listener, or only a warning.
Listen(asked, req) ==
  \/ requested' = [p \in BootstrapPeers |-> IF p \in asked THEN req[p] + 1 ELSE req[p]]
  \/ "listen_error" \in Faults /\ asked # {} /\ requested' = req

\* One event of PeerState: its transition and its commands, with live bootstrap
\* queries running and req listeners waiting.
Process(out, live, req) ==
  /\ peer' = out.state
  /\ \E cmds \in out.alternatives :
       LET asked    == {p \in BootstrapPeers : \E a \in Multiaddrs :
                          RequestRelayReservation(p, a) \in cmds}
           rejoins  == peer.phase = "Ready" /\ out.state.phase = "Joining"
           old      == IF rejoins THEN live ELSE outdated
       IN  /\ IF KademliaBootstrap \in cmds THEN StartBootstrap(old, live)
              ELSE /\ running' = live
                   /\ outdated' = old
                   /\ UNCHANGED active_bootstrap_query
           /\ Listen(asked, req)
           /\ \A p \in BootstrapPeers : requested'[p] <= MaxListeners

-----------------------------------------------------------------------------
(* Back-off *)

\* A mutation of NextDelay: the delay is not capped.
BugUncappedDelay(d) == 2 * d

\* The delay after one of d.
NextDelay(d) == IF 2 * d > BACKOFF_MAX THEN BACKOFF_MAX ELSE 2 * d

schedule_reconnect(p) ==
  /\ pending_reconnects' = pending_reconnects \cup {p}
  /\ delays' = [delays EXCEPT ![p] =
                  NextDelay(IF @ = 0 THEN BACKOFF_INITIAL ELSE @)]

\* A mutation of NeedsReconnect: other connections are not looked at.
BugIgnoreConnected(p, open) == p \notin pending_reconnects

\* A mutation of NeedsReconnect: a failed dial is the end.
BugNeverReschedule(p, open) == FALSE

\* After a failed dial, with open connections left.
NeedsReconnect(p, open) == open = 0 /\ p \notin pending_reconnects

-----------------------------------------------------------------------------
(* Connections *)

CancelReconnect(p) ==
  /\ delays' = [delays EXCEPT ![p] = 0]
  /\ pending_reconnects' = pending_reconnects \ {p}

\* SwarmEvent::ConnectionEstablished, by a dial or from the peer.
ConnectionEstablished(p, a, dialled) ==
  /\ Up
  /\ conns[p] < MaxConns
  /\ IF dialled THEN p \in BootstrapPeers /\ dials[p] > 0 ELSE "incoming" \in Faults
  /\ conns' = [conns EXCEPT ![p] = @ + 1]
  /\ dials' = IF dialled THEN [dials EXCEPT ![p] = @ - 1] ELSE dials
  /\ IF p \in BootstrapPeers
     THEN CancelReconnect(p) /\ Process(BootstrapConnected(peer, p, a), running, requested)
     ELSE UNCHANGED <<delays, pending_reconnects, peer, active_bootstrap_query, running,
                      outdated, requested>>
  /\ UNCHANGED <<discovery_timeout_fired, reserved, orphaned, unreported>>

\* A relay listener lives on one connection to its relay.  Of those at p a closed
\* connection may have held some, waiting ones and held ones with a reservation;
\* the last connection held all that were left.
HeldByConnection(p, waiting, held) ==
  IF p \in BootstrapPeers
  THEN /\ waiting \in 0..requested[p] /\ held \in 0..reserved[p]
       /\ conns[p] = 1 => waiting = requested[p] /\ held = reserved[p]
       /\ orphaned[p] + held <= MaxListeners
  ELSE waiting = 0 /\ held = 0

\* SwarmEvent::ConnectionClosed.  PeerState hears of the last connection only, so
\* it still counts on what another one held.
ConnectionClosed(p, waiting, held) ==
  LET last == conns[p] = 1
      bootstrap == p \in BootstrapPeers
  IN  /\ Up
      /\ "closed" \in Faults
      /\ conns[p] > 0
      /\ HeldByConnection(p, waiting, held)
      /\ conns' = [conns EXCEPT ![p] = @ - 1]
      /\ IF last /\ bootstrap THEN schedule_reconnect(p)
         ELSE UNCHANGED <<delays, pending_reconnects>>
      /\ Process(IF last THEN ConnectionLostAll(peer, p) ELSE Out(peer, {}), running,
                 IF bootstrap THEN [requested EXCEPT ![p] = @ - waiting] ELSE requested)
      /\ IF bootstrap
         THEN /\ reserved' = [reserved EXCEPT ![p] = @ - held]
              /\ orphaned' = [orphaned EXCEPT ![p] = @ + held]
         ELSE UNCHANGED <<reserved, orphaned>>
      /\ unreported' = CASE last -> unreported \ {p}
                         [] ~last /\ held > 0 -> unreported \cup {p}
                         [] OTHER -> unreported
      /\ UNCHANGED <<discovery_timeout_fired, dials>>

\* SwarmEvent::Dialing of Kademlia.
BehaviourDial(p) ==
  /\ Up
  /\ "behaviour_dial" \in Faults
  /\ dials[p] < MaxDials
  /\ dials' = [dials EXCEPT ![p] = @ + 1]
  /\ UNCHANGED <<peer, loop, active_bootstrap_query, conns, running, relay, outdated>>

\* SwarmEvent::OutgoingConnectionError.
DialFails(p) ==
  /\ Up
  /\ "dial_error" \in Faults
  /\ dials[p] > 0
  /\ dials' = [dials EXCEPT ![p] = @ - 1]
  /\ IF NeedsReconnect(p, conns[p]) THEN schedule_reconnect(p)
     ELSE UNCHANGED <<delays, pending_reconnects>>
  /\ UNCHANGED <<peer, discovery_timeout_fired, active_bootstrap_query, conns, running,
                 relay, outdated>>

\* A reconnect timer is due.  Dialling an address asks for no condition, so a
\* second dial may join one of Kademlia; a refusal sets the timer again.
ReconnectDue(p) ==
  /\ Up
  /\ p \in pending_reconnects
  /\ \/ /\ dials[p] < MaxDials
        /\ pending_reconnects' = pending_reconnects \ {p}
        /\ dials' = [dials EXCEPT ![p] = @ + 1]
        /\ UNCHANGED delays
     \/ "dial_refused" \in Faults /\ schedule_reconnect(p) /\ UNCHANGED dials
  /\ UNCHANGED <<peer, discovery_timeout_fired, active_bootstrap_query, conns, running,
                 relay, outdated>>

-----------------------------------------------------------------------------
(* Queries, addresses and timeouts *)

\* Other bootstrap results are not translated into an event.
is_active_bootstrap_result(id) == id = active_bootstrap_query

\* The last result of a bootstrap query, ours or one of Kademlia's own.  A
\* failure changes nothing.
BootstrapQueryEnds(id, ok) ==
  /\ Up
  /\ id \in running
  /\ ok \/ "query_error" \in Faults
  /\ Process(IF ok /\ is_active_bootstrap_result(id) THEN KademliaBootstrapOk(peer)
             ELSE Out(peer, {}), running \ {id}, requested)
  /\ UNCHANGED <<loop, swarm, reserved, orphaned, unreported>>

\* Bound: an id is left for the node's own query.
KademliaBootstrapsItself(id) ==
  /\ Up
  /\ "own_queries" \in Faults
  /\ id \notin running \cup {active_bootstrap_query}
  /\ QueryIds \ (running \cup {id}) # {}
  /\ running' = running \cup {id}
  /\ outdated' = outdated \ {id}
  /\ UNCHANGED <<peer, loop, active_bootstrap_query, swarm, relay>>

DiscoveryTimedOut ==
  /\ Up
  /\ ~discovery_timeout_fired
  /\ discovery_timeout_fired' = TRUE
  /\ Process(DiscoveryTimeout(peer), running, requested)
  /\ UNCHANGED <<delays, pending_reconnects, swarm, reserved, orphaned, unreported>>

\* One of the events that change nothing but PeerState.
PeerEvent(out) ==
  /\ Up
  /\ Process(out, running, requested)
  /\ UNCHANGED <<loop, swarm, reserved, orphaned, unreported>>

Identified(p, listen_addrs) ==
  conns[p] > 0 /\ PeerEvent(PeerIdentified(peer, p, listen_addrs))

ExternalConfirmed(a) ==
  a \notin peer.external_addrs /\ PeerEvent(ExternalAddrConfirmed(peer, a))

ExternalExpired(a) ==
  /\ "expiry" \in Faults
  /\ a \in peer.external_addrs
  /\ PeerEvent(ExternalAddrExpired(peer, a))

NatChanged(status) ==
  "nat" \in Faults /\ PeerEvent(NatStatusChanged(peer, status))

MdnsEvent(p, a) ==
  /\ "mdns" \in Faults
  /\ PeerEvent(MdnsDiscovered(peer, p, a)) \/ PeerEvent(MdnsExpired(peer, p, a))

Shutdown == "shutdown" \in Faults /\ PeerEvent(ShutdownRequested(peer))

-----------------------------------------------------------------------------
(* Relay reservations *)

\* The relay accepts, and the listener gets its address.
ReservationAccepted(p) ==
  /\ Up
  /\ conns[p] > 0
  /\ requested[p] > 0
  /\ reserved[p] < MaxListeners
  /\ Process(RelayReservationAccepted(peer), running, [requested EXCEPT ![p] = @ - 1])
  /\ reserved' = [reserved EXCEPT ![p] = @ + 1]
  /\ unreported' = unreported \ {p}
  /\ UNCHANGED <<loop, swarm, orphaned>>

\* A renewal is reported like the first acceptance.
ReservationRenewed(p) ==
  /\ conns[p] > 0
  /\ reserved[p] > 0
  /\ PeerEvent(RelayReservationAccepted(peer))

\* A listener closes that never had an address: the loop cannot tell whose it
\* was, and raises no event.
ReservationDenied(p) ==
  /\ Up
  /\ "denied" \in Faults
  /\ requested[p] > 0
  /\ requested' = [requested EXCEPT ![p] = @ - 1]
  /\ UNCHANGED <<peer, loop, active_bootstrap_query, swarm, running, reserved, orphaned,
                 unreported, outdated>>

\* The listener of an accepted reservation closes with an error: a renewal has
\* failed, on an open connection or just before its connection closed.
ReservationLost(p) ==
  /\ Up
  /\ \/ /\ "reservation_lost" \in Faults
        /\ reserved[p] > 0
        /\ reserved' = [reserved EXCEPT ![p] = @ - 1]
        /\ UNCHANGED orphaned
     \/ /\ "reservation_lost" \in Faults
        /\ orphaned[p] > 0
        /\ orphaned' = [orphaned EXCEPT ![p] = @ - 1]
        /\ UNCHANGED reserved
  /\ Process(RelayReservationFailed(peer), running, requested)
  /\ unreported' = {}
  /\ UNCHANGED <<loop, swarm>>

\* The listener of an accepted reservation closes with Ok(()), as its connection
\* is gone: that is logged and raises no event.
ListenerCloses(p) ==
  /\ Up
  /\ orphaned[p] > 0
  /\ orphaned' = [orphaned EXCEPT ![p] = @ - 1]
  /\ UNCHANGED <<peer, loop, active_bootstrap_query, swarm, running, requested, reserved,
                 unreported, outdated>>

Next ==
  \/ \E p \in Peers, a \in Multiaddrs, dialled \in BOOLEAN :
       ConnectionEstablished(p, a, dialled)
  \/ \E p \in Peers, waiting, held \in 0..MaxListeners : ConnectionClosed(p, waiting, held)
  \/ \E p \in BootstrapPeers : BehaviourDial(p)
  \/ \E p \in BootstrapPeers : DialFails(p)
  \/ \E p \in BootstrapPeers : ReconnectDue(p)
  \/ \E id \in QueryIds, ok \in BOOLEAN : BootstrapQueryEnds(id, ok)
  \/ \E id \in QueryIds : KademliaBootstrapsItself(id)
  \/ DiscoveryTimedOut
  \/ \E p \in Peers, listen_addrs \in AddressLists : Identified(p, listen_addrs)
  \/ \E a \in ExternalAddrs : ExternalConfirmed(a)
  \/ \E a \in ExternalAddrs : ExternalExpired(a)
  \/ \E status \in {"Unknown", "Public", "Private"} : NatChanged(status)
  \/ \E p \in Peers, a \in Multiaddrs : MdnsEvent(p, a)
  \/ \E p \in BootstrapPeers : ReservationAccepted(p)
  \/ \E p \in BootstrapPeers : ReservationRenewed(p)
  \/ \E p \in BootstrapPeers : ReservationDenied(p)
  \/ \E p \in BootstrapPeers : ReservationLost(p)
  \/ \E p \in BootstrapPeers : ListenerCloses(p)
  \/ Shutdown

Spec == Init /\ [][Next]_vars

\* The loop polls for ever, so timers fire and queries and dials end (both time
\* out).  Assumed of the environment: a bootstrap peer that is dialled again
\* and again answers at some time, its connection then lasts long enough, at
\* some time, for an identify, for a bootstrap query and for a reservation
\* that are begun again and again, an address of the node is observed, and
\* relays renew the reservations they hold.  A bootstrap peer listens somewhere,
\* so its identify names an address.
Fairness ==
  /\ \A p \in BootstrapPeers :
       /\ WF_vars(ReconnectDue(p))
       /\ WF_vars(DialFails(p) \/ \E a \in Multiaddrs : ConnectionEstablished(p, a, TRUE))
       /\ SF_vars(\E a \in Multiaddrs : ConnectionEstablished(p, a, TRUE))
       /\ SF_vars(\E list \in AddressLists \ {<<>>} : Identified(p, list))
       /\ SF_vars(ReservationAccepted(p))
       /\ WF_vars(ReservationRenewed(p))
  /\ \A id \in QueryIds : WF_vars(\E ok \in BOOLEAN : BootstrapQueryEnds(id, ok))
  /\ SF_vars(BootstrapQueryEnds(active_bootstrap_query, TRUE))
  /\ \A a \in ExternalAddrs : WF_vars(ExternalConfirmed(a))

FairSpec == Spec /\ Fairness

-----------------------------------------------------------------------------
(* Properties *)

\* Every field holds what its Rust type says, and no delay exceeds BACKOFF_MAX.
TypeOK ==
  /\ peer.phase \in {"Joining", "Ready", "ShuttingDown"}
  /\ peer.nat_status \in {"Unknown", "Public", "Private"}
  /\ {peer.relay_reserved, peer.kad_bootstrapped, discovery_timeout_fired} \subseteq BOOLEAN
  /\ DOMAIN peer.known_peers \subseteq Peers
  /\ \A p \in DOMAIN peer.known_peers : peer.known_peers[p] \subseteq Multiaddrs
  /\ peer.bootstrap_peers = BootstrapPeers
  /\ peer.external_addrs \subseteq ExternalAddrs
  /\ delays \in [BootstrapPeers -> 0..BACKOFF_MAX]
  /\ pending_reconnects \subseteq BootstrapPeers
  /\ active_bootstrap_query \in QueryIds \cup {NoQuery}
  /\ running \subseteq QueryIds /\ outdated \subseteq QueryIds
  /\ conns \in [Peers -> Nat] /\ dials \in [BootstrapPeers -> Nat]
  /\ {requested, reserved, orphaned} \subseteq [BootstrapPeers -> Nat]
  /\ unreported \subseteq BootstrapPeers

\* A bootstrap peer is never forgotten: it is connected, being dialled, or has
\* a reconnect timer, whatever the order of closes, failed dials, dials of
\* Kademlia and timers that meet a dial under way.
BootstrapPeersAreDriven ==
  \A p \in BootstrapPeers : conns[p] > 0 \/ dials[p] > 0 \/ p \in pending_reconnects

\* While a bootstrap peer is connected no timer is left to dial it and its
\* delay starts over, even when other dials to it fail late.
ReconnectStateIsReset ==
  \A p \in BootstrapPeers : conns[p] > 0 => p \notin pending_reconnects /\ delays[p] = 0

\* Without mDNS the known peers are connected and every connected bootstrap
\* peer is known: the node joins again exactly when its last identified
\* connection is gone.
KnownPeersAreConnected ==
  "mdns" \notin Faults =>
    /\ \A p \in DOMAIN peer.known_peers : conns[p] > 0
    /\ \A p \in BootstrapPeers : conns[p] > 0 => p \in DOMAIN peer.known_peers

\* A node that fell back to Joining is bootstrapped only by a query it began
\* after the fall, never by a late answer of an earlier one.
BootstrappedByFreshQuery ==
  [][~peer.kad_bootstrapped /\ peer'.kad_bootstrapped
       => (running \ running') \cap outdated = {}]_vars

\* A node that counts on a reservation is connected to a relay that granted one,
\* and that one is still held or ended in the one way nobody reports: with a
\* connection beside which another one to the relay stayed open.  No other end
\* (denials, failed renewals, lost relays, late closes of old listeners) leaves
\* relay_reserved set for nothing.
ReservedFlagHasReason ==
  peer.relay_reserved =>
    \E p \in BootstrapPeers : conns[p] > 0 /\ (reserved[p] > 0 \/ p \in unreported)

\* Whatever identify a connected peer sends next, each public IP it announces
\* then stands for one address only, the last one announced with it: older
\* ports of that IP, learnt from connections or identifies, are gone.
IdentifyReplacesStale ==
  \A p \in Peers, list \in Lists(2) : conns[p] > 0 =>
    LET known == PeerIdentified(peer, p, list).state.known_peers[p]
        SameIp(a) == {i \in DOMAIN list : IpOf[list[i]] = IpOf[a]}
    IN  \A a \in ToSet(list) : has_public_ip(a) =>
          {b \in known : IpOf[b] = IpOf[a]} = {list[Max(SameIp(a))]}

\* A node joins the overlay, again after every loss of its peers, although
\* dials fail, connections break and Kademlia runs queries of its own.
JoinsTheOverlay == peer.phase = "Joining" ~> peer.phase # "Joining"

\* A private node gets a relay reservation, although reservations are denied
\* (which raises no event), lost, or cleared with a lost connection.
RelayIsReserved ==
  peer.nat_status = "Private" ~>
    peer.relay_reserved \/ peer.nat_status # "Private" \/ ~Up
=============================================================================
