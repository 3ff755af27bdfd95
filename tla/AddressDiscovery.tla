-------------------------- MODULE AddressDiscovery --------------------------
(***************************************************************************)
(* How a node learns where it can be reached: the NAT probe at start, then *)
(* the event loop with the books of ExternalAddresses, and beside it the   *)
(* port-mapping task whose result the loop takes in with the next swarm    *)
(* event.  Connections, reservations and AutoNAT are external.             *)
(***************************************************************************)
EXTENDS ExternalAddresses, NatProbe, PortMapping

CONSTANTS
  Peers,
  BootstrapPeers    \* what --bootstrap names, on a node that has it

ASSUME DiscoveryAssumption ==
  /\ BootstrapPeers \subseteq Peers
  /\ UpnpAddr \in Addrs \ Circuits /\ PmpAddr \in Addrs \ Circuits
  /\ NoMapping \notin Addrs

VARIABLES
  bootstrap_peer_ids,   \* none on the first node of an overlay
  books,                \* the loop's maps and the swarm's external addresses
  public_by_mapping,    \* NatStatusChanged(Public) was raised for a port mapping
  conns,                \* external: the kinds of connection to each peer
  reservations          \* external: circuit addresses with a live reservation

vars == <<probe, mapper, bootstrap_peer_ids, books, public_by_mapping, conns, reservations>>

Kinds == {"direct", "relayed"}

Init ==
  /\ ProbeInit
  /\ MapperInit
  /\ bootstrap_peer_ids \in {{}, BootstrapPeers}
  /\ books = NoAddresses
  /\ public_by_mapping = FALSE
  /\ conns = [p \in Peers |-> {}]
  /\ reservations = {}

-----------------------------------------------------------------------------
(* Before the loop *)

ProbeStep ==
  /\ bootstrap_peer_ids # {}
  /\ ProbeNext
  /\ UNCHANGED <<mapper, bootstrap_peer_ids, books, public_by_mapping, conns, reservations>>

SkipProbe ==
  /\ bootstrap_peer_ids = {}
  /\ Probing
  /\ nat_mapping' = "Unknown"
  /\ UNCHANGED <<mapped, asked, waiting, answers, results, mapper, bootstrap_peer_ids, books,
                 public_by_mapping, conns, reservations>>

-----------------------------------------------------------------------------
(* Iterations of the loop *)

\* The books with the port mapping, if the task has one to take.
WithMapping(b) == IF Taken THEN [b EXCEPT !.external = @ \cup {mapping}] ELSE b

\* What every swarm event does besides its own handling.
SwarmEvent ==
  /\ ~Probing
  /\ TakeMapping
  /\ public_by_mapping' = (public_by_mapping \/ Taken)
  /\ UNCHANGED <<probe, bootstrap_peer_ids>>

\* AutoNAT was dialled back at a.
AutoNatConfirms(a) ==
  /\ is_valid_external_candidate(a)
  /\ SwarmEvent
  /\ books' = WithMapping(on_confirmed(books, a))
  /\ UNCHANGED <<conns, reservations>>

ReservationAccepted(a) ==
  /\ a \in Circuits \ reservations
  /\ SwarmEvent
  /\ reservations' = reservations \cup {a}
  /\ books' = WithMapping(on_confirmed(books, a))
  /\ UNCHANGED conns

ReservationEnds(a) ==
  /\ a \in reservations
  /\ SwarmEvent
  /\ reservations' = reservations \ {a}
  /\ books' = WithMapping(on_expired(books, a))
  /\ UNCHANGED conns

ConnectionChanges(p, kinds) ==
  /\ kinds # conns[p]
  /\ SwarmEvent
  /\ conns' = [conns EXCEPT ![p] = kinds]
  /\ books' = WithMapping(books)
  /\ UNCHANGED reservations

\* Identify over one of the connections: over a relay the peer sees the relay.
Identified(p, kind, a) ==
  /\ kind \in conns[p]
  /\ a \in Circuits <=> kind = "relayed"
  /\ SwarmEvent
  /\ books' = on_identified(WithMapping(books), bootstrap_peer_ids, p,
                            "relayed" \in conns[p], a)
  /\ UNCHANGED <<conns, reservations>>

\* NewListenAddr with a UDP port starts the port mapping, once.
ListensOnUdp ==
  /\ ~Probing
  /\ bootstrap_peer_ids # {}
  /\ ~port_mapping_spawned
  /\ SpawnMapper
  /\ UNCHANGED <<probe, bootstrap_peer_ids, books, public_by_mapping, conns, reservations>>

\* Any other event, as a ping.
OtherEvent ==
  /\ SwarmEvent
  /\ books' = WithMapping(books)
  /\ UNCHANGED <<conns, reservations>>

MapperStep ==
  /\ MapperNext
  /\ UNCHANGED <<probe, bootstrap_peer_ids, books, public_by_mapping, conns, reservations>>

Next ==
  \/ ProbeStep
  \/ SkipProbe
  \/ \E a \in Addrs : AutoNatConfirms(a)
  \/ \E a \in Circuits : ReservationAccepted(a)
  \/ \E a \in Circuits : ReservationEnds(a)
  \/ \E p \in Peers, kinds \in SUBSET Kinds : ConnectionChanges(p, kinds)
  \/ \E p \in Peers, kind \in Kinds, a \in Addrs : Identified(p, kind, a)
  \/ ListensOnUdp
  \/ OtherEvent
  \/ MapperStep

Spec == Init /\ [][Next]_vars

-----------------------------------------------------------------------------
(* Properties *)

\* Every variable has its type: the maps are keyed by the IP of what they hold.
TypeOK ==
  /\ books.external \subseteq Addrs
  /\ \A ip \in Ips :
       /\ books.confirmed_external_by_ip[ip] \in At(ip) \cup {NoAddr}
       /\ books.bootstrap_observed_external_by_ip[ip] \in (At(ip) \ Circuits) \cup {NoAddr}
  /\ nat_mapping \in Verdicts \cup {"none"}
  /\ asked \in 0..StunServers /\ Len(results) <= asked
  /\ mapping_task \in {"none", "probing", "finished", "taken"}
  /\ mapping \in {UpnpAddr, PmpAddr, NoMapping}
  /\ reservations \subseteq Circuits

\* The verdict on the NAT is never wrong, only missing: it is endpoint
\* independent only if two servers saw the same port, address dependent only if
\* two saw different ones, however answers are lost, delayed or duplicated.
VerdictIsRight ==
  LET Some(same) == \E s, t \in DOMAIN mapped : s # t /\ (mapped[s] = mapped[t]) = same
  IN  /\ nat_mapping = "EndpointIndependent" => Some(TRUE)
      /\ nat_mapping = "AddressDependent" => Some(FALSE)

\* A node that is not the first of its overlay advertises no stale address: for
\* each public IP at most the address confirmed last, the one a bootstrap peer
\* saw last and the one the gateway forwards.
NoStaleAddress ==
  \A a \in books.external :
    bootstrap_peer_ids # {} /\ has_public_ip(a) =>
      a \in {books.confirmed_external_by_ip[IpOf[a]],
             books.bootstrap_observed_external_by_ip[IpOf[a]], mapping}

\* An observation of a bootstrap peer is withdrawn when AutoNAT had confirmed that
\* address, too, and then confirms another port of its IP (mod.rs:462), and a repeated
\* observation does not bring it back (mod.rs:601), although the comment at mod.rs:573
\* calls such observations authoritative.  What holds is that the two sources never
\* withdraw both addresses: for each public IP that is not also a relay's, while the
\* one observed last is missing the one confirmed last is advertised.
LatestAddressIsAdvertised ==
  \A ip \in Ips :
    LET latest == {books.confirmed_external_by_ip[ip],
                   books.bootstrap_observed_external_by_ip[ip]} \ {NoAddr}
    IN  latest # {} /\ At(ip) \cap Circuits = {} => latest \cap books.external # {}

\* A relay address is advertised as long as its reservation lives, unless other
\* addresses share the IP of the relay: those replace each other.
ReservationsAreAdvertised ==
  \A a \in reservations : At(IpOf[a]) = {a} => a \in books.external

\* The node calls itself public for a port mapping only when the gateway has a
\* public address and forwards the port, whichever probe was first and whatever
\* was cancelled or timed out.
PublicMeansMapped ==
  public_by_mapping => gateway_public /\ mapping \in gateway
=============================================================================
