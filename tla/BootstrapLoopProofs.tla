------------------------ MODULE BootstrapLoopProofs ------------------------
(***************************************************************************)
(* Proofs about BootstrapLoop, for every set of peers, addresses, queries  *)
(* and faults.  The arms of PeerState get one lemma each (what they keep   *)
(* and whom they make known), the commands one (Process), and every action *)
(* one per part of the invariant that it can disturb.                      *)
(***************************************************************************)
EXTENDS BootstrapLoop, WellFoundedInduction, TLAPS

\* The fields of PeerState have their types; of known_peers only whom it knows is
\* looked at, not with which addresses.
PeerOK(s) ==
  /\ s \in [phase : {"Joining", "Ready", "ShuttingDown"},
            nat_status : {"Unknown", "Public", "Private"},
            relay_reserved : BOOLEAN,
            known_peers : {s.known_peers},
            bootstrap_peers : {BootstrapPeers},
            kad_bootstrapped : BOOLEAN,
            external_addrs : {s.external_addrs}]
  /\ DOMAIN s.known_peers \subseteq Peers

Rejoins(s, r) == s.phase = "Ready" /\ r.phase = "Joining"

\* Nothing is gained that the node counts on: no reservation, no bootstrap.
Calm(s, r) ==
  /\ PeerOK(r)
  /\ r.relay_reserved => s.relay_reserved
  /\ r.kad_bootstrapped => s.kad_bootstrapped
  /\ ~Rejoins(s, r)

Knows(r) == DOMAIN r.known_peers

\* What relay_reserved may rest on, see ReservedFlagHasReason: on a relay with an
\* open connection and a reservation that is held or was lost silently.
Grounded(open, held, lost) ==
  \E p \in BootstrapPeers : open[p] > 0 /\ (held[p] > 0 \/ p \in lost)

\* The entry of p is set, the others stay.
LEMMA WithPeerFacts ==
  ASSUME NEW known, NEW p, NEW addrs
  PROVE  DOMAIN WithPeer(known, p, addrs) = DOMAIN known \cup {p}
  BY DEF WithPeer

\* The entry of p is removed, the others stay.
LEMMA WithoutPeerFacts ==
  ASSUME NEW known, NEW p
  PROVE  DOMAIN WithoutPeer(known, p) = DOMAIN known \ {p}
  BY DEF WithoutPeer, Restrict

-----------------------------------------------------------------------------
(* The arms of PeerState *)

\* A bootstrap connection makes its peer known.
LEMMA ConnectedFacts ==
  ASSUME NEW s, PeerOK(s), NEW p \in BootstrapPeers, NEW a
  PROVE  LET r == BootstrapConnected(s, p, a).state
         IN  Calm(s, r) /\ Knows(r) = Knows(s) \cup {p}
<1> DEFINE r == BootstrapConnected(s, p, a).state
           known == WithPeer(s.known_peers, p, Known(s, p) \cup {a})
<1>1. r = [s EXCEPT !.bootstrap_peers = @ \cup {p}, !.known_peers = known]
  BY DEF BootstrapConnected, Out
<1>2. DOMAIN known = DOMAIN s.known_peers \cup {p}
  BY WithPeerFacts
<1>3. s.bootstrap_peers \cup {p} = BootstrapPeers /\ p \in Peers
  BY PeerMachineAssumption DEF PeerOK
<1> HIDE DEF known, r
<1>4. /\ r.known_peers = known
      /\ r.relay_reserved = s.relay_reserved
      /\ r.kad_bootstrapped = s.kad_bootstrapped
      /\ r.phase = s.phase
  BY <1>1 DEF PeerOK
<1>5. PeerOK(r)
  BY <1>1, <1>2, <1>3 DEF PeerOK
<1>6. ~Rejoins(s, r)
  BY <1>4 DEF Rejoins
<1> QED BY <1>2, <1>4, <1>5, <1>6 DEF Calm, Knows, r

\* A finished bootstrap makes the node bootstrapped and changes nothing else but
\* the phase, which does not fall.
LEMMA BootstrapOkFacts ==
  ASSUME NEW s, PeerOK(s)
  PROVE  LET r == KademliaBootstrapOk(s).state
         IN  /\ PeerOK(r)
             /\ r.relay_reserved = s.relay_reserved
             /\ ~Rejoins(s, r)
             /\ Knows(r) = Knows(s)
  BY DEF KademliaBootstrapOk, maybe_become_ready, Out, PeerOK, Rejoins, Knows

\* A new NAT status never brings a reservation.
LEMMA NatFacts ==
  ASSUME NEW s, PeerOK(s), NEW status \in {"Unknown", "Public", "Private"}
  PROVE  LET r == NatStatusChanged(s, status).state
         IN  Calm(s, r) /\ Knows(r) = Knows(s)
<1> DEFINE changed == [s EXCEPT !.nat_status = status]
           r == NatStatusChanged(s, status).state
<1>1. r = changed \/ r = [changed EXCEPT !.relay_reserved = FALSE]
  BY DEF NatStatusChanged, Out
<1> HIDE DEF r
<1> QED BY <1>1 DEF Calm, PeerOK, Rejoins, Knows, r

\* The discovery timeout may only raise the phase.
LEMMA TimeoutFacts ==
  ASSUME NEW s, PeerOK(s)
  PROVE  LET r == DiscoveryTimeout(s).state
         IN  Calm(s, r) /\ Knows(r) = Knows(s)
  BY DEF DiscoveryTimeout, Out, Calm, PeerOK, Rejoins, Knows

\* mDNS changes whom the node knows and nothing else.
LEMMA MdnsFacts ==
  ASSUME NEW s, PeerOK(s), NEW p \in Peers, NEW a
  PROVE  Calm(s, MdnsDiscovered(s, p, a).state) /\ Calm(s, MdnsExpired(s, p, a).state)
<1> DEFINE more == WithPeer(s.known_peers, p, Known(s, p) \cup {a})
           fewer == WithoutPeer(s.known_peers, p)
           less == [s.known_peers EXCEPT ![p] = @ \ {a}]
<1>1. DOMAIN more = DOMAIN s.known_peers \cup {p}
  BY WithPeerFacts
<1>2. DOMAIN fewer = DOMAIN s.known_peers \ {p}
  BY WithoutPeerFacts
<1>3. DOMAIN less = DOMAIN s.known_peers
  OBVIOUS
<1>4. MdnsDiscovered(s, p, a).state = [s EXCEPT !.known_peers = more]
  BY DEF MdnsDiscovered, Out
<1>5. \/ MdnsExpired(s, p, a).state = s
      \/ MdnsExpired(s, p, a).state = [s EXCEPT !.known_peers = fewer]
      \/ MdnsExpired(s, p, a).state = [s EXCEPT !.known_peers = less]
  BY DEF MdnsExpired, Out
<1> HIDE DEF more, fewer, less
<1>6. ASSUME NEW known, DOMAIN known \subseteq Peers
      PROVE  Calm(s, [s EXCEPT !.known_peers = known])
  BY <1>6 DEF Calm, PeerOK, Rejoins
<1>7. Calm(s, s)
  BY DEF Calm, Rejoins
<1>8. DOMAIN more \subseteq Peers /\ DOMAIN fewer \subseteq Peers /\ DOMAIN less \subseteq Peers
  BY <1>1, <1>2, <1>3 DEF PeerOK
<1> QED BY <1>4, <1>5, <1>6, <1>7, <1>8

\* An identify makes its peer known, whatever addresses it brings.
LEMMA IdentifiedFacts ==
  ASSUME NEW s, PeerOK(s), NEW p \in Peers, NEW listen_addrs
  PROVE  LET r == PeerIdentified(s, p, listen_addrs).state
         IN  Calm(s, r) /\ Knows(r) = Knows(s) \cup {p}
<1> DEFINE r == PeerIdentified(s, p, listen_addrs).state
           Learn(acc, a) ==
             LET kept == replace_stale_public_addr_for_ip(acc.addrs, a)
             IN  [addrs |-> kept \cup {a},
                  cmds  |-> IF a \notin kept /\ has_public_ip(a)
                            THEN acc.cmds \cup {KademliaAddAddress(p, a)} ELSE acc.cmds]
           learnt == FoldLeft(Learn, [addrs |-> Known(s, p), cmds |-> {}], listen_addrs)
           known == WithPeer(s.known_peers, p, learnt.addrs)
<1>1. r = [s EXCEPT !.known_peers = known]
  BY DEF PeerIdentified
<1>2. DOMAIN known = DOMAIN s.known_peers \cup {p}
  BY WithPeerFacts
<1> HIDE DEF known, r
<1>3. Calm(s, r) /\ r.known_peers = known
  BY <1>1, <1>2 DEF Calm, PeerOK, Rejoins
<1> QED BY <1>2, <1>3 DEF Knows, r

\* Confirmed and expired addresses may only raise the phase.
LEMMA ExternalFacts ==
  ASSUME NEW s, PeerOK(s), NEW a
  PROVE  /\ Calm(s, ExternalAddrConfirmed(s, a).state)
         /\ Knows(ExternalAddrConfirmed(s, a).state) = Knows(s)
         /\ Calm(s, ExternalAddrExpired(s, a).state)
         /\ Knows(ExternalAddrExpired(s, a).state) = Knows(s)
<1>1. /\ Calm(s, ExternalAddrConfirmed(s, a).state)
      /\ Knows(ExternalAddrConfirmed(s, a).state) = Knows(s)
  BY DEF ExternalAddrConfirmed, maybe_become_ready, Out, Calm, PeerOK, Rejoins, Knows
<1>2. /\ Calm(s, ExternalAddrExpired(s, a).state)
      /\ Knows(ExternalAddrExpired(s, a).state) = Knows(s)
  BY DEF ExternalAddrExpired, Out, Calm, PeerOK, Rejoins, Knows
<1> QED BY <1>1, <1>2

\* An accepted reservation is all that changes.
LEMMA AcceptedFacts ==
  ASSUME NEW s, PeerOK(s)
  PROVE  LET r == RelayReservationAccepted(s).state
         IN  /\ PeerOK(r)
             /\ r.kad_bootstrapped = s.kad_bootstrapped
             /\ ~Rejoins(s, r)
             /\ Knows(r) = Knows(s)
  BY DEF RelayReservationAccepted, Out, PeerOK, Rejoins, Knows

\* After a failed reservation the node counts on none.
LEMMA FailedFacts ==
  ASSUME NEW s, PeerOK(s)
  PROVE  LET r == RelayReservationFailed(s).state
         IN  Calm(s, r) /\ Knows(r) = Knows(s) /\ ~r.relay_reserved
  BY DEF RelayReservationFailed, Calm, PeerOK, Rejoins, Knows

\* A shutdown changes the phase only.
LEMMA ShutdownFacts ==
  ASSUME NEW s, PeerOK(s)
  PROVE  LET r == ShutdownRequested(s).state
         IN  Calm(s, r) /\ Knows(r) = Knows(s)
  BY DEF ShutdownRequested, Out, Calm, PeerOK, Rejoins, Knows

\* The last connection to p is gone: p is not known any more, a reservation does
\* not survive a bootstrap peer, and a node that joins again bootstraps.
LEMMA LostFacts ==
  ASSUME NEW s, PeerOK(s), NEW p \in Peers
  PROVE  LET o == ConnectionLostAll(s, p)
             r == o.state
         IN  /\ PeerOK(r)
             /\ r.relay_reserved => s.relay_reserved /\ p \notin BootstrapPeers
             /\ r.kad_bootstrapped => s.kad_bootstrapped
             /\ Knows(r) = Knows(s) \ {p}
             /\ Rejoins(s, r) => \A cmds \in o.alternatives : KademliaBootstrap \in cmds
<1> DEFINE o == ConnectionLostAll(s, p)
           r == o.state
           known == WithoutPeer(s.known_peers, p)
           kept == s.relay_reserved /\ p \notin s.bootstrap_peers
           lost == [s EXCEPT !.known_peers = known, !.relay_reserved = kept]
           joining == [lost EXCEPT !.phase = "Joining", !.kad_bootstrapped = FALSE]
<1>1. o = Out(lost, {}) \/ o = Out(joining, {KademliaBootstrap})
  BY DEF ConnectionLostAll
<1>2. DOMAIN known = DOMAIN s.known_peers \ {p}
  BY WithoutPeerFacts
<1>3. kept \in BOOLEAN /\ (kept => s.relay_reserved /\ p \notin BootstrapPeers)
  BY DEF PeerOK
<1> HIDE DEF known, kept, o
<1>4. /\ PeerOK(lost)
      /\ lost.relay_reserved = kept
      /\ lost.kad_bootstrapped = s.kad_bootstrapped
      /\ lost.known_peers = known
      /\ lost.phase = s.phase
  BY <1>2, <1>3 DEF PeerOK
<1> HIDE DEF lost
<1>5. /\ PeerOK(joining)
      /\ joining.relay_reserved = kept
      /\ joining.kad_bootstrapped = FALSE
      /\ joining.known_peers = known
  BY <1>4 DEF PeerOK
<1> HIDE DEF joining
<1>6. CASE o = Out(lost, {})
  <2>1. r = lost
    BY <1>6 DEF Out
  <2>2. ~Rejoins(s, r)
    BY <1>4, <2>1 DEF Rejoins
  <2> HIDE DEF r
  <2> QED BY <1>2, <1>3, <1>4, <2>1, <2>2 DEF Knows, r, o
<1>7. CASE o = Out(joining, {KademliaBootstrap})
  <2>1. r = joining /\ o.alternatives = {{KademliaBootstrap}}
    BY <1>7 DEF Out
  <2> HIDE DEF r
  <2> QED BY <1>2, <1>3, <1>5, <2>1 DEF Knows, r, o
<1> QED BY <1>1, <1>6, <1>7

-----------------------------------------------------------------------------
(* The invariant *)

\* The bounds of the variables outside PeerState.
LoopOK ==
  /\ delays \in [BootstrapPeers -> 0..BACKOFF_MAX]
  /\ pending_reconnects \subseteq BootstrapPeers
  /\ conns \in [Peers -> Nat]
  /\ dials \in [BootstrapPeers -> Nat]
  /\ requested \in [BootstrapPeers -> Nat]
  /\ reserved \in [BootstrapPeers -> Nat]
  /\ orphaned \in [BootstrapPeers -> Nat]
  /\ unreported \subseteq BootstrapPeers

\* The active query was begun after the node last fell back to Joining.
QueriesOK ==
  /\ active_bootstrap_query \in QueryIds \cup {NoQuery}
  /\ running \subseteq QueryIds
  /\ outdated \subseteq QueryIds
  /\ active_bootstrap_query \notin outdated

\* The inductive invariant.
IInv ==
  /\ PeerOK(peer)
  /\ LoopOK
  /\ QueriesOK
  /\ BootstrapPeersAreDriven
  /\ ReconnectStateIsReset
  /\ KnownPeersAreConnected
  /\ ReservedFlagHasReason

\* Executing the commands of a transition: the queries stay in order, and only
\* the queries in live go on.
LEMMA ProcessFacts ==
  ASSUME NEW out, NEW live, NEW req, Process(out, live, req), QueriesOK,
         live \subseteq QueryIds, req \in [BootstrapPeers -> Nat],
         Rejoins(peer, out.state) => \A cmds \in out.alternatives : KademliaBootstrap \in cmds
  PROVE  /\ peer' = out.state
         /\ QueriesOK'
         /\ requested' \in [BootstrapPeers -> Nat]
         /\ live \subseteq running'
<1>1. peer' = out.state
  BY DEF Process
<1>2. PICK cmds \in out.alternatives :
        LET asked    == {p \in BootstrapPeers : \E a \in Multiaddrs :
                           RequestRelayReservation(p, a) \in cmds}
            rejoins  == peer.phase = "Ready" /\ out.state.phase = "Joining"
            old      == IF rejoins THEN live ELSE outdated
        IN  /\ IF KademliaBootstrap \in cmds THEN StartBootstrap(old, live)
               ELSE /\ running' = live
                    /\ outdated' = old
                    /\ UNCHANGED active_bootstrap_query
            /\ Listen(asked, req)
  BY Zenon DEF Process
<1> DEFINE asked == {p \in BootstrapPeers : \E a \in Multiaddrs :
                       RequestRelayReservation(p, a) \in cmds}
           old == IF Rejoins(peer, out.state) THEN live ELSE outdated
<1>3. /\ IF KademliaBootstrap \in cmds THEN StartBootstrap(old, live)
         ELSE /\ running' = live
              /\ outdated' = old
              /\ UNCHANGED active_bootstrap_query
      /\ Listen(asked, req)
  BY <1>2, Zenon DEF Rejoins
<1> HIDE DEF asked
<1>4. requested' \in [BootstrapPeers -> Nat]
  BY <1>3 DEF Listen
<1>5. old \subseteq QueryIds
  BY DEF QueriesOK
<1>6. CASE KademliaBootstrap \in cmds
  <2>1. StartBootstrap(old, live)
    BY <1>3, <1>6
  <2> HIDE DEF old
  <2>2. ASSUME NEW id \in QueryIds \ live,
               active_bootstrap_query' = id, running' = live \cup {id}, outdated' = old \ {id}
        PROVE  QueriesOK' /\ live \subseteq running'
    BY <1>5, <2>2 DEF QueriesOK
  <2>3. ASSUME active_bootstrap_query' = NoQuery, running' = live, outdated' = old
        PROVE  QueriesOK' /\ live \subseteq running'
    BY <1>5, <2>3, BootstrapLoopAssumption DEF QueriesOK
  <2> QED BY <1>1, <1>4, <2>1, <2>2, <2>3 DEF StartBootstrap, ActiveAfterRefusal
<1>7. CASE KademliaBootstrap \notin cmds
  <2>1. old = outdated
    BY <1>2, <1>7
  <2>2. running' = live /\ outdated' = outdated /\ UNCHANGED active_bootstrap_query
    BY <1>3, <1>7, <2>1
  <2> QED BY <1>1, <1>4, <2>2 DEF QueriesOK
<1> QED BY <1>6, <1>7

\* The invariant holds at the start.
LEMMA InitEstablishesIInv ==
  Init => IInv
<1> SUFFICES ASSUME Init PROVE IInv
  OBVIOUS
<1>1. PeerOK(peer) /\ DOMAIN peer.known_peers = {} /\ ~peer.relay_reserved
  BY DEF Init, InitialPeer, PeerOK
<1>2. LoopOK
  BY BootstrapLoopAssumption DEF Init, LoopOK
<1>3. QueriesOK
  BY DEF Init, QueriesOK
<1>4. BootstrapPeersAreDriven
  <2>1. \A p \in BootstrapPeers : dials[p] = 1
    BY DEF Init
  <2> QED BY <2>1 DEF BootstrapPeersAreDriven
<1>5. ReconnectStateIsReset /\ KnownPeersAreConnected
  BY <1>1, PeerMachineAssumption DEF Init, ReconnectStateIsReset, KnownPeersAreConnected
<1>6. ReservedFlagHasReason
  BY <1>1 DEF ReservedFlagHasReason, Grounded
<1> QED BY <1>1, <1>2, <1>3, <1>4, <1>5, <1>6 DEF IInv

\* The delays stay within their limit.
LEMMA DelayFacts ==
  ASSUME NEW d \in 0..BACKOFF_MAX
  PROVE  NextDelay(IF d = 0 THEN BACKOFF_INITIAL ELSE d) \in 0..BACKOFF_MAX
<1> DEFINE e == IF d = 0 THEN BACKOFF_INITIAL ELSE d
<1>1. e \in Nat
  BY BootstrapLoopAssumption
<1> HIDE DEF e
<1> QED BY <1>1, BootstrapLoopAssumption DEF NextDelay, e

\* Setting a timer keeps the types and touches one peer only.
LEMMA ScheduleFacts ==
  ASSUME LoopOK, NEW p \in BootstrapPeers, schedule_reconnect(p)
  PROVE  /\ delays' \in [BootstrapPeers -> 0..BACKOFF_MAX]
         /\ pending_reconnects' = pending_reconnects \cup {p}
         /\ \A q \in BootstrapPeers \ {p} : delays'[q] = delays[q]
<1>1. delays[p] \in 0..BACKOFF_MAX
  BY DEF LoopOK
<1>2. NextDelay(IF delays[p] = 0 THEN BACKOFF_INITIAL ELSE delays[p]) \in 0..BACKOFF_MAX
  BY <1>1, DelayFacts
<1>3. delays' = [delays EXCEPT ![p] =
                   NextDelay(IF delays[p] = 0 THEN BACKOFF_INITIAL ELSE delays[p])]
  BY DEF schedule_reconnect
<1>4. pending_reconnects' = pending_reconnects \cup {p}
  BY DEF schedule_reconnect
<1> HIDE DEF NextDelay
<1> QED BY <1>2, <1>3, <1>4 DEF LoopOK

\* A new connection: its peer has no timer left and is known.
LEMMA EstablishedPreservesIInv ==
  ASSUME IInv, NEW p \in Peers, NEW a \in Multiaddrs, NEW dialled \in BOOLEAN,
         ConnectionEstablished(p, a, dialled)
  PROVE  IInv'
<1>1. conns' \in [Peers -> Nat] /\ dials' \in [BootstrapPeers -> Nat]
  <2>1. conns' = [conns EXCEPT ![p] = @ + 1]
    BY DEF ConnectionEstablished
  <2>2. \/ dials' = dials
        \/ p \in BootstrapPeers /\ dials[p] > 0 /\ dials' = [dials EXCEPT ![p] = @ - 1]
    BY DEF ConnectionEstablished
  <2> QED BY <2>1, <2>2 DEF IInv, LoopOK
<1>2. /\ conns'[p] > 0
      /\ \A q \in Peers \ {p} : conns'[q] = conns[q]
      /\ \A q \in BootstrapPeers \ {p} : dials'[q] = dials[q]
      /\ conns[p] \in Nat
      /\ UNCHANGED <<reserved, orphaned, unreported>>
  BY DEF ConnectionEstablished, IInv, LoopOK
<1>3. CASE p \in BootstrapPeers
  <2> DEFINE o == BootstrapConnected(peer, p, a)
  <2>1. /\ Process(o, running, requested)
        /\ delays' = [delays EXCEPT ![p] = 0]
        /\ pending_reconnects' = pending_reconnects \ {p}
    BY <1>3 DEF ConnectionEstablished, CancelReconnect
  <2>2. Calm(peer, o.state) /\ Knows(o.state) = Knows(peer) \cup {p}
    BY <1>3, ConnectedFacts DEF IInv
  <2> HIDE DEF o
  <2>3. /\ peer' = o.state
        /\ QueriesOK'
        /\ requested' \in [BootstrapPeers -> Nat]
    BY <2>1, <2>2, ProcessFacts DEF IInv, LoopOK, QueriesOK, Calm
  <2>4. LoopOK'
    <3>1. /\ delays' \in [BootstrapPeers -> 0..BACKOFF_MAX]
          /\ pending_reconnects' \subseteq BootstrapPeers
      BY <1>3, <2>1, BootstrapLoopAssumption DEF IInv, LoopOK
    <3>2. /\ reserved' \in [BootstrapPeers -> Nat]
          /\ orphaned' \in [BootstrapPeers -> Nat]
          /\ unreported' \subseteq BootstrapPeers
      BY <1>2 DEF IInv, LoopOK
    <3> QED BY <1>1, <2>3, <3>1, <3>2 DEF LoopOK
  <2>5. BootstrapPeersAreDriven'
    BY <1>2, <2>1, PeerMachineAssumption DEF IInv, LoopOK, BootstrapPeersAreDriven
  <2>6. ReconnectStateIsReset'
    BY <1>2, <2>1, PeerMachineAssumption DEF IInv, LoopOK, ReconnectStateIsReset
  <2>7. KnownPeersAreConnected'
    BY <1>2, <2>2, <2>3, PeerMachineAssumption DEF IInv, PeerOK, KnownPeersAreConnected, Knows
  <2>8. ReservedFlagHasReason'
    BY <1>2, <2>2, <2>3, PeerMachineAssumption DEF IInv, ReservedFlagHasReason, Calm
  <2> QED BY <2>2, <2>3, <2>4, <2>5, <2>6, <2>7, <2>8 DEF IInv, Calm
<1>4. CASE p \notin BootstrapPeers
  <2>1. UNCHANGED <<delays, pending_reconnects, peer, active_bootstrap_query, running,
                    outdated, requested>>
    BY <1>4 DEF ConnectionEstablished
  <2>2. LoopOK' /\ QueriesOK' /\ PeerOK(peer)'
    BY <1>1, <1>2, <2>1 DEF IInv, LoopOK, QueriesOK
  <2>3. BootstrapPeersAreDriven' /\ ReconnectStateIsReset'
    BY <1>2, <1>4, <2>1, PeerMachineAssumption
       DEF IInv, LoopOK, BootstrapPeersAreDriven, ReconnectStateIsReset
  <2>4. KnownPeersAreConnected'
    BY <1>2, <1>4, <2>1, PeerMachineAssumption DEF IInv, PeerOK, KnownPeersAreConnected
  <2>5. ReservedFlagHasReason'
    BY <1>2, <2>1, PeerMachineAssumption DEF IInv, ReservedFlagHasReason
  <2> QED BY <2>2, <2>3, <2>4, <2>5 DEF IInv
<1> QED BY <1>3, <1>4

\* A connection closes: with the last one to a bootstrap peer a timer is set, the
\* peer is forgotten and so is a reservation; what another one held is noted.
LEMMA ClosedPreservesIInv ==
  ASSUME IInv, NEW p \in Peers, NEW waiting, NEW held, ConnectionClosed(p, waiting, held)
  PROVE  IInv'
<1> DEFINE last == conns[p] = 1
           bootstrap == p \in BootstrapPeers
           gone == last /\ bootstrap
           o == IF last THEN ConnectionLostAll(peer, p) ELSE Out(peer, {})
           req == IF bootstrap THEN [requested EXCEPT ![p] = @ - waiting] ELSE requested
<1>1. /\ conns[p] > 0
      /\ HeldByConnection(p, waiting, held)
      /\ conns' = [conns EXCEPT ![p] = @ - 1]
      /\ Process(o, running, req)
      /\ IF gone THEN schedule_reconnect(p) ELSE UNCHANGED <<delays, pending_reconnects>>
      /\ IF bootstrap
         THEN /\ reserved' = [reserved EXCEPT ![p] = @ - held]
              /\ orphaned' = [orphaned EXCEPT ![p] = @ + held]
         ELSE UNCHANGED <<reserved, orphaned>>
      /\ unreported' = CASE last -> unreported \ {p}
                         [] ~last /\ held > 0 -> unreported \cup {p}
                         [] OTHER -> unreported
      /\ UNCHANGED dials
  BY DEF ConnectionClosed
<1>2. /\ PeerOK(o.state)
      /\ o.state.relay_reserved => peer.relay_reserved /\ ~gone
      /\ Knows(o.state) = IF last THEN Knows(peer) \ {p} ELSE Knows(peer)
      /\ Rejoins(peer, o.state) => \A cmds \in o.alternatives : KademliaBootstrap \in cmds
  <2>1. CASE last
    BY <2>1, LostFacts DEF IInv
  <2>2. CASE ~last
    BY <2>2 DEF IInv, Out, Rejoins
  <2> QED BY <2>1, <2>2
<1>3. /\ req \in [BootstrapPeers -> Nat]
      /\ reserved' \in [BootstrapPeers -> Nat]
      /\ orphaned' \in [BootstrapPeers -> Nat]
      /\ unreported' \subseteq BootstrapPeers
      /\ \A q \in BootstrapPeers \ {p} :
           reserved'[q] = reserved[q] /\ (q \in unreported => q \in unreported')
      /\ bootstrap /\ ~last /\ (reserved[p] > 0 \/ p \in unreported) =>
           reserved'[p] > 0 \/ p \in unreported'
  <2>1. CASE bootstrap
    <3>1. /\ requested[p] \in Nat /\ reserved[p] \in Nat /\ orphaned[p] \in Nat
          /\ waiting \in 0..requested[p] /\ held \in 0..reserved[p]
      BY <1>1, <2>1 DEF IInv, LoopOK, HeldByConnection
    <3>2. /\ requested[p] - waiting \in Nat
          /\ reserved[p] - held \in Nat
          /\ orphaned[p] + held \in Nat
      BY <3>1
    <3>3. /\ req = [requested EXCEPT ![p] = requested[p] - waiting]
          /\ reserved' = [reserved EXCEPT ![p] = reserved[p] - held]
          /\ orphaned' = [orphaned EXCEPT ![p] = orphaned[p] + held]
      BY <1>1, <2>1
    <3>4. /\ req \in [BootstrapPeers -> Nat]
          /\ reserved' \in [BootstrapPeers -> Nat]
          /\ orphaned' \in [BootstrapPeers -> Nat]
          /\ \A q \in BootstrapPeers \ {p} : reserved'[q] = reserved[q]
          /\ reserved'[p] = reserved[p] - held
      BY <2>1, <3>2, <3>3 DEF IInv, LoopOK
    <3>5. /\ unreported' \subseteq BootstrapPeers
          /\ \A q \in BootstrapPeers \ {p} : q \in unreported => q \in unreported'
          /\ ~last => (p \in unreported \/ held > 0 => p \in unreported')
      BY <1>1, <2>1 DEF IInv, LoopOK
    <3>6. held = 0 \/ held > 0
      BY <3>1
    <3> QED BY <3>1, <3>4, <3>5, <3>6
  <2>2. CASE ~bootstrap
    <3>1. held = 0
      BY <1>1, <2>2 DEF HeldByConnection
    <3> QED BY <1>1, <2>2, <3>1 DEF IInv, LoopOK
  <2> QED BY <2>1, <2>2
<1>4. /\ conns' \in [Peers -> Nat]
      /\ last <=> conns'[p] = 0
      /\ \A q \in Peers \ {p} : conns'[q] = conns[q]
  BY <1>1 DEF IInv, LoopOK
<1>5. /\ delays' \in [BootstrapPeers -> 0..BACKOFF_MAX]
      /\ pending_reconnects' = IF gone THEN pending_reconnects \cup {p} ELSE pending_reconnects
      /\ \A q \in BootstrapPeers : delays'[q] = delays[q] \/ (gone /\ q = p)
  <2>1. CASE gone
    BY <1>1, <2>1, ScheduleFacts DEF IInv
  <2>2. CASE ~gone
    BY <1>1, <2>2 DEF IInv, LoopOK
  <2> QED BY <2>1, <2>2
<1> HIDE DEF o, req
<1>6. /\ peer' = o.state
      /\ QueriesOK'
      /\ requested' \in [BootstrapPeers -> Nat]
  BY <1>1, <1>2, <1>3, ProcessFacts DEF IInv, QueriesOK
<1>7. LoopOK'
  BY <1>1, <1>3, <1>4, <1>5, <1>6 DEF IInv, LoopOK
<1>8. BootstrapPeersAreDriven'
  BY <1>1, <1>4, <1>5, PeerMachineAssumption DEF IInv, LoopOK, BootstrapPeersAreDriven
<1>9. ReconnectStateIsReset'
  BY <1>1, <1>4, <1>5, PeerMachineAssumption DEF IInv, LoopOK, ReconnectStateIsReset
<1>10. KnownPeersAreConnected'
  BY <1>1, <1>2, <1>4, <1>6, PeerMachineAssumption
     DEF IInv, LoopOK, PeerOK, KnownPeersAreConnected, Knows
<1>11. ReservedFlagHasReason'
  <2> SUFFICES ASSUME o.state.relay_reserved
               PROVE  Grounded(conns', reserved', unreported')
    BY <1>6 DEF ReservedFlagHasReason, Grounded
  <2>1. PICK q \in BootstrapPeers : conns[q] > 0 /\ (reserved[q] > 0 \/ q \in unreported)
    BY <1>2 DEF IInv, ReservedFlagHasReason
  <2>2. q \in Peers /\ conns'[q] \in Nat
    BY <1>4, PeerMachineAssumption
  <2>3. CASE q = p
    <3>1. bootstrap /\ ~last
      BY <1>2, <2>3
    <3>2. conns'[p] > 0
      BY <1>4, <2>2, <2>3, <3>1
    <3> QED BY <1>3, <2>1, <2>3, <3>1, <3>2 DEF Grounded
  <2>4. CASE q # p
    <3>1. conns'[q] > 0
      BY <1>4, <2>1, <2>2, <2>4
    <3> QED BY <1>3, <2>1, <2>4, <3>1 DEF Grounded
  <2> QED BY <2>3, <2>4
<1> QED BY <1>2, <1>6, <1>7, <1>8, <1>9, <1>10, <1>11 DEF IInv

\* A dial of Kademlia is one more dial.
LEMMA BehaviourDialPreservesIInv ==
  ASSUME IInv, NEW p \in BootstrapPeers, BehaviourDial(p)
  PROVE  IInv'
<1>1. /\ dials' = [dials EXCEPT ![p] = @ + 1]
      /\ UNCHANGED <<peer, delays, pending_reconnects, active_bootstrap_query, conns, running,
                     requested, reserved, orphaned, unreported, outdated>>
  BY DEF BehaviourDial, loop, relay
<1>2. LoopOK' /\ \A q \in BootstrapPeers : dials[q] > 0 => dials'[q] > 0
  BY <1>1 DEF IInv, LoopOK
<1>3. BootstrapPeersAreDriven'
  BY <1>1, <1>2 DEF IInv, BootstrapPeersAreDriven
<1>4. QueriesOK' /\ PeerOK(peer)' /\ ReconnectStateIsReset' /\ KnownPeersAreConnected'
      /\ ReservedFlagHasReason'
  BY <1>1 DEF IInv, QueriesOK, ReconnectStateIsReset, KnownPeersAreConnected,
              ReservedFlagHasReason
<1> QED BY <1>2, <1>3, <1>4 DEF IInv

\* A failed dial sets a timer when nothing else drives the peer.
LEMMA DialFailsPreservesIInv ==
  ASSUME IInv, NEW p \in BootstrapPeers, DialFails(p)
  PROVE  IInv'
<1>1. /\ dials[p] > 0
      /\ dials' = [dials EXCEPT ![p] = @ - 1]
      /\ IF NeedsReconnect(p, conns[p]) THEN schedule_reconnect(p)
         ELSE UNCHANGED <<delays, pending_reconnects>>
      /\ UNCHANGED <<peer, active_bootstrap_query, conns, running, requested, reserved,
                     orphaned, unreported, outdated>>
  BY DEF DialFails, relay
<1>2. /\ delays' \in [BootstrapPeers -> 0..BACKOFF_MAX]
      /\ pending_reconnects \subseteq pending_reconnects'
      /\ \A q \in BootstrapPeers : conns[q] > 0 =>
           delays'[q] = delays[q] /\ (q \in pending_reconnects' => q \in pending_reconnects)
      /\ conns[p] > 0 \/ p \in pending_reconnects'
      /\ pending_reconnects' \subseteq BootstrapPeers
  <2>1. CASE NeedsReconnect(p, conns[p])
    <3>1. conns[p] = 0
      BY <2>1 DEF NeedsReconnect
    <3> QED BY <1>1, <2>1, <3>1, ScheduleFacts DEF IInv, LoopOK
  <2>2. CASE ~NeedsReconnect(p, conns[p])
    <3>1. conns[p] \in Nat
      BY PeerMachineAssumption DEF IInv, LoopOK
    <3> QED BY <1>1, <2>2, <3>1 DEF IInv, LoopOK, NeedsReconnect
  <2> QED BY <2>1, <2>2
<1>3. LoopOK'
  <2>1. dials' \in [BootstrapPeers -> Nat]
    BY <1>1 DEF IInv, LoopOK
  <2>2. /\ conns' \in [Peers -> Nat]
        /\ requested' \in [BootstrapPeers -> Nat]
        /\ reserved' \in [BootstrapPeers -> Nat]
        /\ orphaned' \in [BootstrapPeers -> Nat]
        /\ unreported' \subseteq BootstrapPeers
    BY <1>1 DEF IInv, LoopOK
  <2> QED BY <1>2, <2>1, <2>2 DEF LoopOK
<1>4. BootstrapPeersAreDriven'
  BY <1>1, <1>2, PeerMachineAssumption DEF IInv, LoopOK, BootstrapPeersAreDriven
<1>5. ReconnectStateIsReset'
  BY <1>1, <1>2 DEF IInv, ReconnectStateIsReset
<1>6. QueriesOK' /\ PeerOK(peer)' /\ KnownPeersAreConnected' /\ ReservedFlagHasReason'
  BY <1>1 DEF IInv, QueriesOK, KnownPeersAreConnected, ReservedFlagHasReason
<1> QED BY <1>3, <1>4, <1>5, <1>6 DEF IInv

\* A timer becomes a dial, or is set again.
LEMMA ReconnectPreservesIInv ==
  ASSUME IInv, NEW p \in BootstrapPeers, ReconnectDue(p)
  PROVE  IInv'
<1>1. /\ p \in pending_reconnects
      /\ UNCHANGED <<peer, active_bootstrap_query, conns, running, requested, reserved,
                     orphaned, unreported, outdated>>
  BY DEF ReconnectDue, relay
<1>2. ~(conns[p] > 0)
  BY <1>1 DEF IInv, ReconnectStateIsReset
<1>3. QueriesOK' /\ PeerOK(peer)' /\ KnownPeersAreConnected' /\ ReservedFlagHasReason'
  BY <1>1 DEF IInv, QueriesOK, KnownPeersAreConnected, ReservedFlagHasReason
<1>4. CASE /\ pending_reconnects' = pending_reconnects \ {p}
           /\ dials' = [dials EXCEPT ![p] = @ + 1]
           /\ UNCHANGED delays
  <2>1. LoopOK'
    BY <1>1, <1>4 DEF IInv, LoopOK
  <2>2. BootstrapPeersAreDriven'
    BY <1>1, <1>4, PeerMachineAssumption DEF IInv, LoopOK, BootstrapPeersAreDriven
  <2>3. ReconnectStateIsReset'
    BY <1>1, <1>4 DEF IInv, ReconnectStateIsReset
  <2> QED BY <1>3, <2>1, <2>2, <2>3 DEF IInv
<1>5. CASE schedule_reconnect(p) /\ UNCHANGED dials
  <2>1. /\ delays' \in [BootstrapPeers -> 0..BACKOFF_MAX]
        /\ pending_reconnects' = pending_reconnects \cup {p}
        /\ \A q \in BootstrapPeers \ {p} : delays'[q] = delays[q]
    BY <1>5, ScheduleFacts DEF IInv
  <2>2. LoopOK'
    BY <1>1, <1>5, <2>1 DEF IInv, LoopOK
  <2>3. BootstrapPeersAreDriven'
    BY <1>1, <1>5, <2>1, PeerMachineAssumption DEF IInv, LoopOK, BootstrapPeersAreDriven
  <2>4. ReconnectStateIsReset'
    BY <1>1, <1>2, <2>1 DEF IInv, ReconnectStateIsReset
  <2> QED BY <1>3, <2>2, <2>3, <2>4 DEF IInv
<1> QED BY <1>4, <1>5 DEF ReconnectDue

\* An event that touches neither connections nor timers: what it says of known
\* peers and of reservations is all there is to check.
LEMMA EventPreservesIInv ==
  ASSUME IInv, NEW o, NEW live, NEW req, Process(o, live, req), live \subseteq running,
         req \in [BootstrapPeers -> Nat],
         UNCHANGED <<delays, pending_reconnects, conns, dials>>,
         reserved' \in [BootstrapPeers -> Nat], orphaned' \in [BootstrapPeers -> Nat],
         unreported' \subseteq BootstrapPeers,
         PeerOK(o.state), ~Rejoins(peer, o.state),
         "mdns" \notin Faults => /\ Knows(peer) \subseteq Knows(o.state)
                                 /\ \A p \in Knows(o.state) : conns[p] > 0,
         o.state.relay_reserved => Grounded(conns, reserved', unreported')
  PROVE  IInv'
<1>1. /\ peer' = o.state
      /\ QueriesOK'
      /\ requested' \in [BootstrapPeers -> Nat]
  BY ProcessFacts DEF IInv, QueriesOK
<1>2. LoopOK'
  BY <1>1 DEF IInv, LoopOK
<1>3. BootstrapPeersAreDriven' /\ ReconnectStateIsReset'
  BY DEF IInv, BootstrapPeersAreDriven, ReconnectStateIsReset
<1>4. KnownPeersAreConnected'
  BY <1>1 DEF IInv, KnownPeersAreConnected, Knows
<1>5. ReservedFlagHasReason'
  BY <1>1 DEF ReservedFlagHasReason, Grounded
<1> QED BY <1>1, <1>2, <1>3, <1>4, <1>5 DEF IInv

\* An event that only concerns PeerState and gains nothing there.
LEMMA CalmPreservesIInv ==
  ASSUME IInv, NEW o, PeerEvent(o), Calm(peer, o.state),
         "mdns" \notin Faults => Knows(o.state) = Knows(peer)
  PROVE  IInv'
<1>1. /\ Process(o, running, requested)
      /\ UNCHANGED <<delays, pending_reconnects, conns, dials, reserved, orphaned, unreported>>
  BY DEF PeerEvent, loop, swarm
<1>2. "mdns" \notin Faults => \A p \in Knows(peer) : conns[p] > 0
  BY DEF IInv, KnownPeersAreConnected, Knows
<1>3. o.state.relay_reserved => Grounded(conns, reserved', unreported')
  BY <1>1 DEF IInv, ReservedFlagHasReason, Grounded, Calm
<1>4. /\ requested \in [BootstrapPeers -> Nat]
      /\ reserved' \in [BootstrapPeers -> Nat]
      /\ orphaned' \in [BootstrapPeers -> Nat]
      /\ unreported' \subseteq BootstrapPeers
  BY <1>1 DEF IInv, LoopOK
<1>5. "mdns" \notin Faults => /\ Knows(peer) \subseteq Knows(o.state)
                              /\ \A p \in Knows(o.state) : conns[p] > 0
  BY <1>2
<1> QED BY <1>1, <1>3, <1>4, <1>5, EventPreservesIInv DEF Calm

\* The end of a bootstrap query keeps the invariant.
LEMMA QueryEndsPreservesIInv ==
  ASSUME IInv, NEW id \in QueryIds, NEW ok \in BOOLEAN, BootstrapQueryEnds(id, ok)
  PROVE  IInv'
<1> DEFINE o == IF ok /\ is_active_bootstrap_result(id) THEN KademliaBootstrapOk(peer)
                ELSE Out(peer, {})
<1>1. /\ Process(o, running \ {id}, requested)
      /\ UNCHANGED <<delays, pending_reconnects, conns, dials, reserved, orphaned, unreported>>
  BY DEF BootstrapQueryEnds, loop, swarm
<1>2. /\ PeerOK(o.state)
      /\ ~Rejoins(peer, o.state)
      /\ Knows(o.state) = Knows(peer)
      /\ o.state.relay_reserved = peer.relay_reserved
  <2>1. CASE o = KademliaBootstrapOk(peer)
    BY <2>1, BootstrapOkFacts DEF IInv
  <2>2. CASE o = Out(peer, {})
    BY <2>2 DEF Out, IInv, Rejoins
  <2> QED BY <2>1, <2>2
<1> HIDE DEF o
<1>3. "mdns" \notin Faults => /\ Knows(peer) \subseteq Knows(o.state)
                              /\ \A p \in Knows(o.state) : conns[p] > 0
  BY <1>2 DEF IInv, KnownPeersAreConnected, Knows
<1>4. o.state.relay_reserved => Grounded(conns, reserved', unreported')
  BY <1>1, <1>2 DEF IInv, ReservedFlagHasReason, Grounded
<1>5. /\ requested \in [BootstrapPeers -> Nat]
      /\ reserved' \in [BootstrapPeers -> Nat]
      /\ orphaned' \in [BootstrapPeers -> Nat]
      /\ unreported' \subseteq BootstrapPeers
  BY <1>1 DEF IInv, LoopOK
<1> DEFINE live == running \ {id}
<1>6. Process(o, live, requested) /\ live \subseteq running
  BY <1>1
<1> HIDE DEF live
<1> QED BY <1>1, <1>2, <1>3, <1>4, <1>5, <1>6, EventPreservesIInv

\* A query Kademlia begins by itself keeps the invariant.
LEMMA OwnQueryPreservesIInv ==
  ASSUME IInv, NEW id \in QueryIds, KademliaBootstrapsItself(id)
  PROVE  IInv'
<1>1. /\ id # active_bootstrap_query
      /\ running' = running \cup {id}
      /\ outdated' = outdated \ {id}
      /\ UNCHANGED <<peer, delays, pending_reconnects, active_bootstrap_query, conns, dials,
                     requested, reserved, orphaned, unreported>>
  BY DEF KademliaBootstrapsItself, loop, swarm, relay
<1>2. QueriesOK'
  BY <1>1 DEF IInv, QueriesOK
<1>3. PeerOK(peer)' /\ LoopOK'
  BY <1>1 DEF IInv, LoopOK
<1>4. BootstrapPeersAreDriven' /\ ReconnectStateIsReset' /\ KnownPeersAreConnected'
      /\ ReservedFlagHasReason'
  BY <1>1 DEF IInv, BootstrapPeersAreDriven, ReconnectStateIsReset, KnownPeersAreConnected,
              ReservedFlagHasReason
<1> QED BY <1>2, <1>3, <1>4 DEF IInv

\* The discovery timeout keeps the invariant.
LEMMA TimedOutPreservesIInv ==
  ASSUME IInv, DiscoveryTimedOut
  PROVE  IInv'
<1> DEFINE o == DiscoveryTimeout(peer)
<1>1. /\ Process(o, running, requested)
      /\ UNCHANGED <<delays, pending_reconnects, conns, dials, reserved, orphaned, unreported>>
  BY DEF DiscoveryTimedOut, swarm
<1>2. Calm(peer, o.state) /\ Knows(o.state) = Knows(peer)
  BY TimeoutFacts DEF IInv
<1> HIDE DEF o
<1>3. "mdns" \notin Faults => /\ Knows(peer) \subseteq Knows(o.state)
                              /\ \A p \in Knows(o.state) : conns[p] > 0
  BY <1>2 DEF IInv, KnownPeersAreConnected, Knows
<1>4. o.state.relay_reserved => Grounded(conns, reserved', unreported')
  BY <1>1, <1>2 DEF IInv, ReservedFlagHasReason, Grounded, Calm
<1>5. /\ requested \in [BootstrapPeers -> Nat]
      /\ reserved' \in [BootstrapPeers -> Nat]
      /\ orphaned' \in [BootstrapPeers -> Nat]
      /\ unreported' \subseteq BootstrapPeers
  BY <1>1 DEF IInv, LoopOK
<1> QED BY <1>1, <1>2, <1>3, <1>4, <1>5, EventPreservesIInv DEF Calm

\* An identify comes over a connection, so its peer is known and connected.
LEMMA IdentifiedPreservesIInv ==
  ASSUME IInv, NEW p \in Peers, NEW listen_addrs, Identified(p, listen_addrs)
  PROVE  IInv'
<1> DEFINE o == PeerIdentified(peer, p, listen_addrs)
<1>1. /\ conns[p] > 0
      /\ Process(o, running, requested)
      /\ UNCHANGED <<delays, pending_reconnects, conns, dials, reserved, orphaned, unreported>>
  BY DEF Identified, PeerEvent, loop, swarm
<1>2. Calm(peer, o.state) /\ Knows(o.state) = Knows(peer) \cup {p}
  BY IdentifiedFacts DEF IInv
<1> HIDE DEF o
<1>3. "mdns" \notin Faults => /\ Knows(peer) \subseteq Knows(o.state)
                              /\ \A q \in Knows(o.state) : conns[q] > 0
  BY <1>1, <1>2 DEF IInv, KnownPeersAreConnected, Knows
<1>4. o.state.relay_reserved => Grounded(conns, reserved', unreported')
  BY <1>1, <1>2 DEF IInv, ReservedFlagHasReason, Grounded, Calm
<1>5. /\ requested \in [BootstrapPeers -> Nat]
      /\ reserved' \in [BootstrapPeers -> Nat]
      /\ orphaned' \in [BootstrapPeers -> Nat]
      /\ unreported' \subseteq BootstrapPeers
  BY <1>1 DEF IInv, LoopOK
<1> QED BY <1>1, <1>2, <1>3, <1>4, <1>5, EventPreservesIInv DEF Calm

\* An accepted reservation comes with its listener.
LEMMA AcceptedPreservesIInv ==
  ASSUME IInv, NEW p \in BootstrapPeers, ReservationAccepted(p)
  PROVE  IInv'
<1> DEFINE o == RelayReservationAccepted(peer)
           req == [requested EXCEPT ![p] = @ - 1]
<1>1. /\ requested[p] > 0
      /\ conns[p] > 0
      /\ Process(o, running, req)
      /\ reserved' = [reserved EXCEPT ![p] = @ + 1]
      /\ unreported' = unreported \ {p}
      /\ UNCHANGED <<delays, pending_reconnects, conns, dials, orphaned>>
  BY DEF ReservationAccepted, loop, swarm
<1>2. PeerOK(o.state) /\ ~Rejoins(peer, o.state) /\ Knows(o.state) = Knows(peer)
  BY AcceptedFacts DEF IInv
<1>3. /\ req \in [BootstrapPeers -> Nat]
      /\ reserved' \in [BootstrapPeers -> Nat]
      /\ Grounded(conns, reserved', unreported')
  BY <1>1 DEF IInv, LoopOK, Grounded
<1>4. orphaned' \in [BootstrapPeers -> Nat] /\ unreported' \subseteq BootstrapPeers
  BY <1>1 DEF IInv, LoopOK
<1> HIDE DEF o, req
<1>5. "mdns" \notin Faults => /\ Knows(peer) \subseteq Knows(o.state)
                              /\ \A q \in Knows(o.state) : conns[q] > 0
  BY <1>2 DEF IInv, KnownPeersAreConnected, Knows
<1> QED BY <1>1, <1>2, <1>3, <1>4, <1>5, EventPreservesIInv

\* A renewal comes from a listener that has a reservation.
LEMMA RenewedPreservesIInv ==
  ASSUME IInv, NEW p \in BootstrapPeers, ReservationRenewed(p)
  PROVE  IInv'
<1> DEFINE o == RelayReservationAccepted(peer)
<1>1. /\ reserved[p] > 0
      /\ conns[p] > 0
      /\ Process(o, running, requested)
      /\ UNCHANGED <<delays, pending_reconnects, conns, dials, reserved, orphaned, unreported>>
  BY DEF ReservationRenewed, PeerEvent, loop, swarm
<1>2. PeerOK(o.state) /\ ~Rejoins(peer, o.state) /\ Knows(o.state) = Knows(peer)
  BY AcceptedFacts DEF IInv
<1> HIDE DEF o
<1>3. "mdns" \notin Faults => /\ Knows(peer) \subseteq Knows(o.state)
                              /\ \A q \in Knows(o.state) : conns[q] > 0
  BY <1>2 DEF IInv, KnownPeersAreConnected, Knows
<1>4. /\ requested \in [BootstrapPeers -> Nat]
      /\ reserved' \in [BootstrapPeers -> Nat]
      /\ orphaned' \in [BootstrapPeers -> Nat]
      /\ unreported' \subseteq BootstrapPeers
      /\ Grounded(conns, reserved', unreported')
  BY <1>1 DEF IInv, LoopOK, Grounded
<1> QED BY <1>1, <1>2, <1>3, <1>4, EventPreservesIInv

\* A denied reservation was none.
LEMMA DeniedPreservesIInv ==
  ASSUME IInv, NEW p \in BootstrapPeers, ReservationDenied(p)
  PROVE  IInv'
<1>1. /\ requested[p] > 0
      /\ requested' = [requested EXCEPT ![p] = @ - 1]
      /\ UNCHANGED <<peer, delays, pending_reconnects, active_bootstrap_query, conns, dials,
                     running, reserved, orphaned, unreported, outdated>>
  BY DEF ReservationDenied, loop, swarm
<1>2. requested' \in [BootstrapPeers -> Nat]
  BY <1>1 DEF IInv, LoopOK
<1>3. PeerOK(peer)' /\ LoopOK' /\ QueriesOK'
  BY <1>1, <1>2 DEF IInv, LoopOK, QueriesOK
<1>4. BootstrapPeersAreDriven' /\ ReconnectStateIsReset' /\ KnownPeersAreConnected'
      /\ ReservedFlagHasReason'
  BY <1>1 DEF IInv, BootstrapPeersAreDriven, ReconnectStateIsReset, KnownPeersAreConnected,
              ReservedFlagHasReason
<1> QED BY <1>3, <1>4 DEF IInv

\* After a lost reservation the node counts on none, even when others are left.
LEMMA LostPreservesIInv ==
  ASSUME IInv, NEW p \in BootstrapPeers, ReservationLost(p)
  PROVE  IInv'
<1> DEFINE o == RelayReservationFailed(peer)
<1>1. /\ Process(o, running, requested)
      /\ unreported' = {}
      /\ UNCHANGED <<delays, pending_reconnects, conns, dials>>
  BY DEF ReservationLost, loop, swarm
<1>2. \/ reserved[p] > 0 /\ reserved' = [reserved EXCEPT ![p] = @ - 1] /\ UNCHANGED orphaned
      \/ orphaned[p] > 0 /\ orphaned' = [orphaned EXCEPT ![p] = @ - 1] /\ UNCHANGED reserved
  BY DEF ReservationLost
<1>3. reserved' \in [BootstrapPeers -> Nat] /\ orphaned' \in [BootstrapPeers -> Nat]
  BY <1>2 DEF IInv, LoopOK
<1>4. Calm(peer, o.state) /\ Knows(o.state) = Knows(peer) /\ ~o.state.relay_reserved
  BY FailedFacts DEF IInv
<1> HIDE DEF o
<1>5. "mdns" \notin Faults => /\ Knows(peer) \subseteq Knows(o.state)
                              /\ \A q \in Knows(o.state) : conns[q] > 0
  BY <1>4 DEF IInv, KnownPeersAreConnected, Knows
<1>6. requested \in [BootstrapPeers -> Nat]
  BY DEF IInv, LoopOK
<1> QED BY <1>1, <1>3, <1>4, <1>5, <1>6, EventPreservesIInv DEF Calm

\* A listener that closes silently was counted on no longer, or is noted already.
LEMMA ListenerClosesPreservesIInv ==
  ASSUME IInv, NEW p \in BootstrapPeers, ListenerCloses(p)
  PROVE  IInv'
<1>1. /\ orphaned[p] > 0
      /\ orphaned' = [orphaned EXCEPT ![p] = @ - 1]
      /\ UNCHANGED <<peer, delays, pending_reconnects, active_bootstrap_query, conns, dials,
                     running, requested, reserved, unreported, outdated>>
  BY DEF ListenerCloses, loop, swarm
<1>2. orphaned' \in [BootstrapPeers -> Nat]
  BY <1>1 DEF IInv, LoopOK
<1>3. PeerOK(peer)' /\ LoopOK' /\ QueriesOK'
  BY <1>1, <1>2 DEF IInv, LoopOK, QueriesOK
<1>4. BootstrapPeersAreDriven' /\ ReconnectStateIsReset' /\ KnownPeersAreConnected'
      /\ ReservedFlagHasReason'
  BY <1>1 DEF IInv, BootstrapPeersAreDriven, ReconnectStateIsReset, KnownPeersAreConnected,
              ReservedFlagHasReason
<1> QED BY <1>3, <1>4 DEF IInv

\* Every step keeps the invariant.
LEMMA NextPreservesIInv ==
  IInv /\ [Next]_vars => IInv'
<1> SUFFICES ASSUME IInv, [Next]_vars PROVE IInv'
  OBVIOUS
<1>1. ASSUME NEW p \in Peers, NEW a \in Multiaddrs, NEW dialled \in BOOLEAN,
             ConnectionEstablished(p, a, dialled)
      PROVE  IInv'
  BY <1>1, EstablishedPreservesIInv
<1>2. ASSUME NEW p \in Peers, NEW waiting \in 0..MaxListeners, NEW held \in 0..MaxListeners,
             ConnectionClosed(p, waiting, held)
      PROVE  IInv'
  BY <1>2, ClosedPreservesIInv
<1>3. ASSUME NEW p \in BootstrapPeers,
             BehaviourDial(p) \/ DialFails(p) \/ ReconnectDue(p)
      PROVE  IInv'
  BY <1>3, BehaviourDialPreservesIInv, DialFailsPreservesIInv, ReconnectPreservesIInv
<1>4. ASSUME NEW id \in QueryIds, NEW ok \in BOOLEAN, BootstrapQueryEnds(id, ok) PROVE IInv'
  BY <1>4, QueryEndsPreservesIInv
<1>5. ASSUME NEW id \in QueryIds, KademliaBootstrapsItself(id) PROVE IInv'
  BY <1>5, OwnQueryPreservesIInv
<1>6. CASE DiscoveryTimedOut
  BY <1>6, TimedOutPreservesIInv
<1>7. ASSUME NEW p \in Peers, NEW listen_addrs \in AddressLists, Identified(p, listen_addrs)
      PROVE  IInv'
  BY <1>7, IdentifiedPreservesIInv
<1>8. ASSUME NEW a \in ExternalAddrs, ExternalConfirmed(a) \/ ExternalExpired(a) PROVE IInv'
  <2>1. CASE PeerEvent(ExternalAddrConfirmed(peer, a))
    BY <2>1, ExternalFacts, CalmPreservesIInv, Zenon DEF IInv
  <2>2. CASE PeerEvent(ExternalAddrExpired(peer, a))
    BY <2>2, ExternalFacts, CalmPreservesIInv, Zenon DEF IInv
  <2> QED BY <1>8, <2>1, <2>2 DEF ExternalConfirmed, ExternalExpired
<1>9. ASSUME NEW status \in {"Unknown", "Public", "Private"}, NatChanged(status) PROVE IInv'
  <2>1. PeerEvent(NatStatusChanged(peer, status))
    BY <1>9 DEF NatChanged
  <2> QED BY <2>1, NatFacts, CalmPreservesIInv, Zenon DEF IInv
<1>10. ASSUME NEW p \in Peers, NEW a \in Multiaddrs, MdnsEvent(p, a) PROVE IInv'
  <2>1. /\ "mdns" \in Faults
        /\ PeerEvent(MdnsDiscovered(peer, p, a)) \/ PeerEvent(MdnsExpired(peer, p, a))
    BY <1>10 DEF MdnsEvent
  <2>2. CASE PeerEvent(MdnsDiscovered(peer, p, a))
    BY <2>1, <2>2, MdnsFacts, CalmPreservesIInv, Zenon DEF IInv
  <2>3. CASE PeerEvent(MdnsExpired(peer, p, a))
    BY <2>1, <2>3, MdnsFacts, CalmPreservesIInv, Zenon DEF IInv
  <2> QED BY <2>1, <2>2, <2>3
<1>11. ASSUME NEW p \in BootstrapPeers,
              \/ ReservationAccepted(p) \/ ReservationRenewed(p)
              \/ ReservationDenied(p) \/ ReservationLost(p) \/ ListenerCloses(p)
       PROVE  IInv'
  BY <1>11, AcceptedPreservesIInv, RenewedPreservesIInv, DeniedPreservesIInv,
     LostPreservesIInv, ListenerClosesPreservesIInv
<1>12. CASE Shutdown
  <2>1. PeerEvent(ShutdownRequested(peer))
    BY <1>12 DEF Shutdown
  <2> QED BY <2>1, ShutdownFacts, CalmPreservesIInv, Zenon DEF IInv
<1>13. CASE UNCHANGED vars
  <2>1. UNCHANGED <<peer, delays, pending_reconnects, active_bootstrap_query, conns, dials,
                    running, requested, reserved, orphaned, unreported, outdated>>
    BY <1>13 DEF vars, loop, swarm, relay
  <2>2. PeerOK(peer)' /\ LoopOK' /\ QueriesOK'
    BY <2>1 DEF IInv, LoopOK, QueriesOK
  <2>3. BootstrapPeersAreDriven' /\ ReconnectStateIsReset' /\ KnownPeersAreConnected'
        /\ ReservedFlagHasReason'
    BY <2>1 DEF IInv, BootstrapPeersAreDriven, ReconnectStateIsReset,
                KnownPeersAreConnected, ReservedFlagHasReason
  <2> QED BY <2>2, <2>3 DEF IInv
<1> QED BY <1>1, <1>2, <1>3, <1>4, <1>5, <1>6, <1>7, <1>8, <1>9, <1>10, <1>11, <1>12, <1>13,
           Zenon DEF Next

\* The invariant holds for good.
LEMMA LoopInvariant ==
  Spec => []IInv
<1> QED BY InitEstablishesIInv, NextPreservesIInv, PTL DEF Spec

-----------------------------------------------------------------------------
(* The theorems *)

\* A bootstrap peer is connected, dialled or has a reconnect timer in every state,
\* for any number of peers and any order of closes, failed dials and timers: the
\* handlers of ConnectionClosed and OutgoingConnectionError never both decline.
THEOREM BootstrapIsDriven ==
  Spec => []BootstrapPeersAreDriven
<1>1. IInv => BootstrapPeersAreDriven
  BY DEF IInv
<1> QED BY <1>1, LoopInvariant, PTL

\* A connected bootstrap peer has no timer left and its delay starts over, as every
\* connection cancels both and a late failure of another dial sets neither.
THEOREM ReconnectIsReset ==
  Spec => []ReconnectStateIsReset
<1>1. IInv => ReconnectStateIsReset
  BY DEF IInv
<1> QED BY <1>1, LoopInvariant, PTL

\* Without mDNS, PeerState knows exactly peers that are connected, and all
\* bootstrap peers among them, so it joins again when the last one is gone.
THEOREM KnownAreConnected ==
  Spec => []KnownPeersAreConnected
<1>1. IInv => KnownPeersAreConnected
  BY DEF IInv
<1> QED BY <1>1, LoopInvariant, PTL

\* relay_reserved is set only while the node is connected to a relay that granted
\* a reservation and either holds it still or lost it with one connection of
\* several, the Ok(()) close of a listener that translate_swarm_event passes over.
THEOREM ReservationsHaveReasons ==
  Spec => []ReservedFlagHasReason
<1>1. IInv => ReservedFlagHasReason
  BY DEF IInv
<1> QED BY <1>1, LoopInvariant, PTL

\* Only the end of the active query makes the node bootstrapped, and the active
\* query was begun after the last fall back to Joining: active_bootstrap_query is
\* replaced or cleared by the KademliaBootstrap of the fall itself.
THEOREM FreshQueryBootstraps ==
  Spec => BootstrappedByFreshQuery
<1> DEFINE Fresh == ~peer.kad_bootstrapped /\ peer'.kad_bootstrapped
                      => (running \ running') \cap outdated = {}
<1>1. ASSUME peer'.kad_bootstrapped => peer.kad_bootstrapped PROVE Fresh
  BY <1>1
<1>2. ASSUME IInv, NEW o, NEW live, NEW req, Process(o, live, req), Calm(peer, o.state)
      PROVE  Fresh
  BY <1>1, <1>2 DEF Process, Calm
<1>3. ASSUME NEW id \in QueryIds, NEW ok \in BOOLEAN, IInv, BootstrapQueryEnds(id, ok)
      PROVE  Fresh
  <2> DEFINE o == IF ok /\ is_active_bootstrap_result(id) THEN KademliaBootstrapOk(peer)
                  ELSE Out(peer, {})
  <2>1. Process(o, running \ {id}, requested)
    BY <1>3 DEF BootstrapQueryEnds
  <2>2. CASE id = active_bootstrap_query
    <3>1. PeerOK(peer) /\ QueriesOK /\ requested \in [BootstrapPeers -> Nat]
      BY <1>3 DEF IInv, LoopOK
    <3>2. ~Rejoins(peer, o.state)
      <4>1. ~Rejoins(peer, KademliaBootstrapOk(peer).state)
        BY <3>1, BootstrapOkFacts
      <4>2. ~Rejoins(peer, Out(peer, {}).state)
        BY DEF Out, Rejoins
      <4> QED BY <4>1, <4>2
    <3> DEFINE live == running \ {id}
    <3>3. Process(o, live, requested) /\ live \subseteq QueryIds
      BY <2>1, <3>1 DEF QueriesOK
    <3> HIDE DEF o, live
    <3>4. live \subseteq running'
      BY <3>1, <3>2, <3>3, ProcessFacts
    <3>5. running \ running' \subseteq {id}
      BY <3>4 DEF live
    <3> QED BY <2>2, <3>1, <3>5 DEF QueriesOK
  <2>3. CASE id # active_bootstrap_query
    <3>1. peer' = peer
      BY <2>1, <2>3 DEF Process, Out, is_active_bootstrap_result
    <3> QED BY <1>1, <3>1
  <2> QED BY <2>2, <2>3
<1>4. ASSUME IInv, Next PROVE Fresh
  <2> HIDE DEF Fresh
  <2> USE <1>4
  <2>1. ASSUME NEW p \in Peers, NEW a \in Multiaddrs, NEW dialled \in BOOLEAN,
               ConnectionEstablished(p, a, dialled)
        PROVE  Fresh
    <3>1. CASE p \in BootstrapPeers
      <4>1. Process(BootstrapConnected(peer, p, a), running, requested)
        BY <2>1, <3>1 DEF ConnectionEstablished
      <4>2. Calm(peer, BootstrapConnected(peer, p, a).state)
        BY <3>1, ConnectedFacts DEF IInv
      <4> QED BY <1>2, <4>1, <4>2, Zenon
    <3>2. CASE p \notin BootstrapPeers
      <4>1. peer' = peer
        BY <2>1, <3>2 DEF ConnectionEstablished
      <4> QED BY <1>1, <4>1
    <3> QED BY <3>1, <3>2
  <2>2. ASSUME NEW p \in Peers, NEW waiting \in 0..MaxListeners, NEW held \in 0..MaxListeners,
               ConnectionClosed(p, waiting, held)
        PROVE  Fresh
    <3>1. peer' = ConnectionLostAll(peer, p).state \/ peer' = peer
      BY <2>2 DEF ConnectionClosed, Process, Out
    <3>2. ConnectionLostAll(peer, p).state.kad_bootstrapped => peer.kad_bootstrapped
      BY LostFacts DEF IInv
    <3> QED BY <1>1, <3>1, <3>2
  <2>3. ASSUME NEW p \in BootstrapPeers,
               \/ BehaviourDial(p) \/ DialFails(p) \/ ReconnectDue(p) \/ ReservationDenied(p)
               \/ ListenerCloses(p)
        PROVE  Fresh
    <3>1. peer' = peer
      BY <2>3 DEF BehaviourDial, DialFails, ReconnectDue, ReservationDenied, ListenerCloses
    <3> QED BY <1>1, <3>1
  <2>4. ASSUME NEW id \in QueryIds, KademliaBootstrapsItself(id) PROVE Fresh
    <3>1. peer' = peer
      BY <2>4 DEF KademliaBootstrapsItself
    <3> QED BY <1>1, <3>1
  <2>5. CASE DiscoveryTimedOut
    <3>1. Process(DiscoveryTimeout(peer), running, requested)
      BY <2>5 DEF DiscoveryTimedOut
    <3>2. Calm(peer, DiscoveryTimeout(peer).state)
      BY TimeoutFacts DEF IInv
    <3> QED BY <1>2, <3>1, <3>2, Zenon
  <2>6. ASSUME NEW o, PeerEvent(o), Calm(peer, o.state) PROVE Fresh
    BY <1>2, <2>6 DEF PeerEvent
  <2>7. ASSUME NEW p \in Peers, NEW listen_addrs \in AddressLists, Identified(p, listen_addrs)
        PROVE  Fresh
    <3>1. PeerEvent(PeerIdentified(peer, p, listen_addrs))
      BY <2>7, Zenon DEF Identified
    <3> QED BY <2>6, <3>1, IdentifiedFacts, Zenon DEF IInv
  <2>8. ASSUME NEW a \in ExternalAddrs, ExternalConfirmed(a) \/ ExternalExpired(a)
        PROVE  Fresh
    <3>1. \/ PeerEvent(ExternalAddrConfirmed(peer, a))
          \/ PeerEvent(ExternalAddrExpired(peer, a))
      BY <2>8, Zenon DEF ExternalConfirmed, ExternalExpired
    <3> QED BY <2>6, <3>1, ExternalFacts, Zenon DEF IInv
  <2>9. ASSUME NEW status \in {"Unknown", "Public", "Private"}, NatChanged(status)
        PROVE  Fresh
    <3>1. PeerEvent(NatStatusChanged(peer, status))
      BY <2>9, Zenon DEF NatChanged
    <3> QED BY <2>6, <3>1, NatFacts, Zenon DEF IInv
  <2>10. ASSUME NEW p \in Peers, NEW a \in Multiaddrs, MdnsEvent(p, a) PROVE Fresh
    <3>1. PeerEvent(MdnsDiscovered(peer, p, a)) \/ PeerEvent(MdnsExpired(peer, p, a))
      BY <2>10, Zenon DEF MdnsEvent
    <3> QED BY <2>6, <3>1, MdnsFacts, Zenon DEF IInv
  <2>11. ASSUME NEW p \in BootstrapPeers, ReservationAccepted(p) \/ ReservationRenewed(p)
         PROVE  Fresh
    <3>1. peer' = RelayReservationAccepted(peer).state
      BY <2>11 DEF ReservationAccepted, ReservationRenewed, PeerEvent, Process
    <3>2. peer'.kad_bootstrapped = peer.kad_bootstrapped
      BY <3>1, AcceptedFacts DEF IInv
    <3> QED BY <1>1, <3>2
  <2>12. ASSUME NEW p \in BootstrapPeers, ReservationLost(p) PROVE Fresh
    <3>1. Process(RelayReservationFailed(peer), running, requested)
      BY <2>12 DEF ReservationLost
    <3>2. Calm(peer, RelayReservationFailed(peer).state)
      BY FailedFacts DEF IInv
    <3> QED BY <1>2, <3>1, <3>2, Zenon
  <2>13. CASE Shutdown
    <3>1. PeerEvent(ShutdownRequested(peer))
      BY <2>13, Zenon DEF Shutdown
    <3> QED BY <2>6, <3>1, ShutdownFacts, Zenon DEF IInv
  <2> QED BY <1>3, <2>1, <2>2, <2>3, <2>4, <2>5, <2>7, <2>8, <2>9, <2>10, <2>11, <2>12,
             <2>13, Zenon DEF Next
<1>5. IInv /\ [Next]_vars => [Fresh]_vars
  BY <1>4
<1> QED BY <1>5, LoopInvariant, PTL DEF Spec, BootstrappedByFreshQuery, Fresh
-----------------------------------------------------------------------------
(* Types: the addresses PeerState keeps *)

AddrsOK(s) ==
  /\ \A p \in DOMAIN s.known_peers : s.known_peers[p] \subseteq Multiaddrs
  /\ s.external_addrs \subseteq ExternalAddrs

\* The parts of TypeOK that are not parts of IInv.
TInv == AddrsOK(peer) /\ discovery_timeout_fired \in BOOLEAN

\* What is known of any peer are addresses.
LEMMA KnownFacts ==
  ASSUME NEW s, AddrsOK(s), NEW p
  PROVE  Known(s, p) \subseteq Multiaddrs
  BY DEF Known, AddrsOK

\* Setting, removing and narrowing the entry of a peer.
LEMMA EntriesOK ==
  ASSUME NEW s, PeerOK(s), AddrsOK(s), NEW p, NEW addrs \in SUBSET Multiaddrs, NEW a
  PROVE  /\ AddrsOK([s EXCEPT !.known_peers = WithPeer(s.known_peers, p, addrs)])
         /\ AddrsOK([s EXCEPT !.known_peers = WithoutPeer(s.known_peers, p)])
         /\ AddrsOK([s EXCEPT !.known_peers[p] = @ \ {a}])
<1> DEFINE with == WithPeer(s.known_peers, p, addrs)
           without == WithoutPeer(s.known_peers, p)
           less == [s.known_peers EXCEPT ![p] = @ \ {a}]
<1>1. \A q \in DOMAIN with : with[q] \subseteq Multiaddrs
  BY DEF WithPeer, AddrsOK
<1>2. \A q \in DOMAIN without : without[q] \subseteq Multiaddrs
  BY DEF WithoutPeer, Restrict, AddrsOK
<1>3. \A q \in DOMAIN less : less[q] \subseteq Multiaddrs
  BY DEF AddrsOK
<1>4. [s EXCEPT !.known_peers[p] = @ \ {a}] = [s EXCEPT !.known_peers = less]
  BY DEF PeerOK
<1> HIDE DEF with, without, less
<1>5. ASSUME NEW known, \A q \in DOMAIN known : known[q] \subseteq Multiaddrs
      PROVE  AddrsOK([s EXCEPT !.known_peers = known])
  BY <1>5 DEF PeerOK, AddrsOK
<1> QED BY <1>1, <1>2, <1>3, <1>4, <1>5 DEF with, without

\* Arms that leave the addresses alone.
LEMMA QuietArms ==
  ASSUME NEW s, PeerOK(s), AddrsOK(s), NEW status
  PROVE  /\ AddrsOK(KademliaBootstrapOk(s).state)
         /\ AddrsOK(NatStatusChanged(s, status).state)
         /\ AddrsOK(DiscoveryTimeout(s).state)
         /\ AddrsOK(RelayReservationAccepted(s).state)
         /\ AddrsOK(RelayReservationFailed(s).state)
         /\ AddrsOK(ShutdownRequested(s).state)
         /\ AddrsOK(Out(s, {}).state)
<1>1. AddrsOK(KademliaBootstrapOk(s).state)
  BY DEF KademliaBootstrapOk, maybe_become_ready, Out, PeerOK, AddrsOK
<1>2. AddrsOK(NatStatusChanged(s, status).state)
  <2> DEFINE changed == [s EXCEPT !.nat_status = status]
             r == NatStatusChanged(s, status).state
  <2>1. r = changed \/ r = [changed EXCEPT !.relay_reserved = FALSE]
    BY DEF NatStatusChanged, Out
  <2> HIDE DEF r
  <2> QED BY <2>1 DEF PeerOK, AddrsOK, r
<1>3. AddrsOK(DiscoveryTimeout(s).state)
  BY DEF DiscoveryTimeout, Out, PeerOK, AddrsOK
<1>4. AddrsOK(RelayReservationAccepted(s).state) /\ AddrsOK(RelayReservationFailed(s).state)
  BY DEF RelayReservationAccepted, RelayReservationFailed, Out, PeerOK, AddrsOK
<1>5. AddrsOK(ShutdownRequested(s).state) /\ AddrsOK(Out(s, {}).state)
  BY DEF ShutdownRequested, Out, PeerOK, AddrsOK
<1> QED BY <1>1, <1>2, <1>3, <1>4, <1>5

\* Arms that add or remove one address or one peer.
LEMMA AddressArms ==
  ASSUME NEW s, PeerOK(s), AddrsOK(s), NEW p \in Peers, NEW a \in Multiaddrs
  PROVE  /\ AddrsOK(BootstrapConnected(s, p, a).state)
         /\ AddrsOK(MdnsDiscovered(s, p, a).state)
         /\ AddrsOK(MdnsExpired(s, p, a).state)
<1>1. Known(s, p) \cup {a} \in SUBSET Multiaddrs
  BY KnownFacts
<1> DEFINE more == [s EXCEPT !.known_peers = WithPeer(@, p, Known(s, p) \cup {a})]
           fewer == [s EXCEPT !.known_peers = WithoutPeer(@, p)]
           less == [s EXCEPT !.known_peers[p] = @ \ {a}]
<1>2. AddrsOK(more) /\ AddrsOK(fewer) /\ AddrsOK(less)
  BY <1>1, EntriesOK
<1>3. MdnsDiscovered(s, p, a).state = more
  BY DEF MdnsDiscovered, Out
<1>4. \/ MdnsExpired(s, p, a).state = s
      \/ MdnsExpired(s, p, a).state = fewer
      \/ MdnsExpired(s, p, a).state = less
  BY DEF MdnsExpired, Out
<1>5. AddrsOK(BootstrapConnected(s, p, a).state)
  <2> DEFINE r == BootstrapConnected(s, p, a).state
             known == WithPeer(s.known_peers, p, Known(s, p) \cup {a})
  <2>1. r = [s EXCEPT !.bootstrap_peers = @ \cup {p}, !.known_peers = known]
    BY DEF BootstrapConnected, Out
  <2> HIDE DEF known, r
  <2>2. r.known_peers = more.known_peers /\ r.external_addrs = more.external_addrs
    BY <2>1 DEF PeerOK, known
  <2> HIDE DEF more
  <2> QED BY <1>2, <2>2 DEF AddrsOK, r
<1> HIDE DEF more, fewer, less
<1> QED BY <1>2, <1>3, <1>4, <1>5

\* The last connection to p is gone.
LEMMA LostArm ==
  ASSUME NEW s, PeerOK(s), AddrsOK(s), NEW p \in Peers
  PROVE  AddrsOK(ConnectionLostAll(s, p).state)
<1> DEFINE fewer == [s EXCEPT !.known_peers = WithoutPeer(s.known_peers, p)]
           o == ConnectionLostAll(s, p)
           known == WithoutPeer(s.known_peers, p)
           kept == s.relay_reserved /\ p \notin s.bootstrap_peers
           lost == [s EXCEPT !.known_peers = known, !.relay_reserved = kept]
           joining == [lost EXCEPT !.phase = "Joining", !.kad_bootstrapped = FALSE]
<1>1. AddrsOK(fewer)
  <2>1. {} \in SUBSET Multiaddrs
    OBVIOUS
  <2> QED BY <2>1, EntriesOK
<1>2. o.state = lost \/ o.state = joining
  <2>1. o = Out(lost, {}) \/ o = Out(joining, {KademliaBootstrap})
    BY DEF ConnectionLostAll
  <2> QED BY <2>1 DEF Out
<1> HIDE DEF o, known, kept
<1>3. /\ lost.known_peers = known /\ lost.external_addrs = s.external_addrs
      /\ joining.known_peers = known /\ joining.external_addrs = s.external_addrs
  BY DEF PeerOK
<1>4. fewer.known_peers = known /\ fewer.external_addrs = s.external_addrs
  BY DEF PeerOK, known
<1> HIDE DEF lost, joining, fewer
<1> QED BY <1>1, <1>2, <1>3, <1>4 DEF AddrsOK, o

\* Confirmed and expired addresses of the node.
LEMMA ExternalArms ==
  ASSUME NEW s, PeerOK(s), AddrsOK(s), NEW a \in ExternalAddrs
  PROVE  /\ AddrsOK(ExternalAddrConfirmed(s, a).state)
         /\ AddrsOK(ExternalAddrExpired(s, a).state)
<1>1. AddrsOK(ExternalAddrConfirmed(s, a).state)
  BY DEF ExternalAddrConfirmed, maybe_become_ready, Out, PeerOK, AddrsOK
<1>2. AddrsOK(ExternalAddrExpired(s, a).state)
  BY DEF ExternalAddrExpired, Out, PeerOK, AddrsOK
<1> QED BY <1>1, <1>2

\* The least element of a set of numbers.
LEMMA LeastNumber ==
  ASSUME NEW T \in SUBSET Nat, T # {}
  PROVE  \E n \in T : \A m \in T : n <= m
<1>1. IsWellFoundedOn({ss \in Nat \X Nat : ss[1] < ss[2]}, Nat)
  BY NatLessThanWellFounded DEF OpToRel
<1>2. PICK n \in T : \A m \in T : ~(<<m, n>> \in {ss \in Nat \X Nat : ss[1] < ss[2]})
  BY <1>1, WFMin
<1>3. ASSUME NEW m \in T
      PROVE  n <= m
  <2>1. m \in Nat /\ n \in Nat
    OBVIOUS
  <2>2. <<m, n>> \in Nat \X Nat /\ <<m, n>>[1] = m /\ <<m, n>>[2] = n
    BY <2>1
  <2>3. ~(m < n)
    BY <1>2, <2>2, Zenon
  <2> QED BY <2>1, <2>3
<1> QED BY <1>3

\* The greatest element of a bounded set of numbers.
LEMMA GreatestNumber ==
  ASSUME NEW n \in Nat, NEW T \in SUBSET (1..n), T # {}
  PROVE  /\ Max(T) \in T
         /\ \A m \in T : Max(T) >= m
<1> DEFINE gaps == {n - m : m \in T}
<1>1. gaps \in SUBSET Nat /\ gaps # {}
  <2>1. ASSUME NEW m \in T PROVE n - m \in Nat
    <3>1. m \in 1..n
      OBVIOUS
    <3> QED BY <3>1
  <2>2. \E m \in T : n - m \in gaps
    OBVIOUS
  <2> QED BY <2>1, <2>2
<1>2. PICK g \in gaps : \A h \in gaps : g <= h
  BY <1>1, LeastNumber
<1>3. PICK m \in T : g = n - m
  OBVIOUS
<1>4. ASSUME NEW k \in T PROVE m >= k
  <2>1. n - k \in gaps
    OBVIOUS
  <2>2. n - m <= n - k
    BY <1>2, <1>3, <2>1
  <2>3. m \in 1..n /\ k \in 1..n
    OBVIOUS
  <2> QED BY <2>2, <2>3
<1> QED BY <1>4 DEF Max

\* What holds for 0 and from every number below n for the next holds up to n.
LEMMA UpTo ==
  ASSUME NEW n \in Nat, NEW good \in SUBSET (0..n), 0 \in good,
         \A m \in 0..n : m + 1 \in 0..n /\ m \in good => m + 1 \in good
  PROVE  good = 0..n
<1> SUFFICES ASSUME (0..n) \ good # {} PROVE FALSE
  OBVIOUS
<1> DEFINE bad == (0..n) \ good
<1>1. bad \in SUBSET Nat /\ bad # {}
  OBVIOUS
<1>2. PICK k \in bad : \A m \in bad : k <= m
  BY <1>1, LeastNumber
<1>3. k \in 0..n /\ k # 0
  OBVIOUS
<1>4. k - 1 \in 0..n /\ k - 1 \notin bad /\ (k - 1) + 1 = k
  BY <1>2, <1>3
<1> QED BY <1>3, <1>4

\* f folds list with the step function L: on a set of places it takes the last one
\* last.
IsFold(f, n, list, base, L) ==
  \A u \in SUBSET (1..n) :
    f[u] = IF u = {} THEN base ELSE L[<<f[u \ {Max(u)}], list[Max(u)]>>]

\* A fold over the numbers up to n, with a step function, is defined.
LEMMA FoldExists ==
  ASSUME NEW n \in Nat, NEW V, NEW A, NEW list \in [1..n -> A], NEW base \in V,
         NEW L \in [V \X A -> V]
  PROVE  \E f \in [SUBSET (1..n) -> V] : IsFold(f, n, list, base, L)
<1> DEFINE Folds(k, f) == IsFold(f, k, list, base, L)
           good == {k \in 0..n : \E f \in [SUBSET (1..k) -> V] : Folds(k, f)}
<1>1. 0 \in good
  <2> DEFINE f == [u \in SUBSET (1..0) |-> base]
  <2>1. f \in [SUBSET (1..0) -> V]
    OBVIOUS
  <2>2. 1..0 = {}
    OBVIOUS
  <2>3. Folds(0, f)
    BY <2>2 DEF IsFold
  <2> HIDE DEF f, Folds
  <2>4. \E h \in [SUBSET (1..0) -> V] : Folds(0, h)
    BY <2>1, <2>3, Zenon
  <2>5. 0 \in 0..n
    OBVIOUS
  <2> QED BY <2>4, <2>5, Zenon
<1>2. ASSUME NEW k \in 0..n, k + 1 \in 0..n, k \in good
      PROVE  k + 1 \in good
  <2>1. PICK g \in [SUBSET (1..k) -> V] : Folds(k, g)
    BY <1>2
  <2> DEFINE x == k + 1
             f == [u \in SUBSET (1..x) |->
                     IF x \in u THEN L[<<g[u \ {x}], list[x]>>] ELSE g[u]]
  <2>2. x \in 1..n /\ list[x] \in A /\ k \in Nat /\ x \in Nat
    BY <1>2
  <2>3. ASSUME NEW u \in SUBSET (1..x), x \notin u
        PROVE  u \in SUBSET (1..k)
    <3> SUFFICES ASSUME NEW e \in u PROVE e \in 1..k
      OBVIOUS
    <3>1. e \in 1..x /\ e # x
      BY <2>3
    <3> QED BY <2>2, <3>1
  <2>4. ASSUME NEW u \in SUBSET (1..x)
        PROVE  u \ {x} \in SUBSET (1..k)
    <3> SUFFICES ASSUME NEW e \in u \ {x} PROVE e \in 1..k
      OBVIOUS
    <3>1. e \in 1..x /\ e # x
      OBVIOUS
    <3> QED BY <2>2, <3>1
  <2> HIDE DEF x, Folds
  <2>5. f \in [SUBSET (1..x) -> V]
    <3> SUFFICES ASSUME NEW u \in SUBSET (1..x)
                 PROVE  (IF x \in u THEN L[<<g[u \ {x}], list[x]>>] ELSE g[u]) \in V
      OBVIOUS
    <3>1. CASE x \in u
      <4>1. g[u \ {x}] \in V
        BY <2>1, <2>4
      <4>2. <<g[u \ {x}], list[x]>> \in V \X A
        BY <2>2, <4>1
      <4> QED BY <3>1, <4>2
    <3>2. CASE x \notin u
      BY <2>1, <2>3, <3>2
    <3> QED BY <3>1, <3>2
  <2>6. ASSUME NEW u \in SUBSET (1..x)
        PROVE  f[u] = IF u = {} THEN base ELSE L[<<f[u \ {Max(u)}], list[Max(u)]>>]
    <3>1. CASE x \in u
      <4>1. Max(u) \in u /\ \A m \in u : Max(u) >= m
        BY <2>2, <3>1, GreatestNumber
      <4>2. Max(u) = x
        <5>1. Max(u) \in 1..x /\ Max(u) >= x
          BY <3>1, <4>1
        <5> QED BY <2>2, <5>1
      <4>3. u \ {x} \in SUBSET (1..x) /\ x \notin u \ {x}
        OBVIOUS
      <4>4. f[u \ {x}] = g[u \ {x}]
        BY <4>3, Zenon
      <4>5. f[u] = L[<<g[u \ {x}], list[x]>>]
        BY <3>1, Zenon
      <4>6. u # {}
        BY <3>1
      <4> HIDE DEF f
      <4> QED BY <4>2, <4>4, <4>5, <4>6
    <3>2. CASE x \notin u
      <4>1. u \in SUBSET (1..k)
        BY <2>3, <3>2
      <4>2. f[u] = g[u]
        BY <3>2, Zenon
      <4>3. g[u] = IF u = {} THEN base ELSE L[<<g[u \ {Max(u)}], list[Max(u)]>>]
        BY <2>1, <4>1, Zenon DEF Folds, IsFold
      <4>4. u \ {Max(u)} \in SUBSET (1..x) /\ x \notin u \ {Max(u)}
        BY <3>2
      <4>5. f[u \ {Max(u)}] = g[u \ {Max(u)}]
        BY <4>4, Zenon
      <4> HIDE DEF f
      <4> QED BY <4>2, <4>3, <4>5
    <3> QED BY <3>1, <3>2
  <2> HIDE DEF f
  <2>7. Folds(x, f)
    BY <2>6, Zenon DEF Folds, IsFold
  <2> QED BY <1>2, <2>5, <2>7 DEF x
<1> HIDE DEF good
<1>3. good \in SUBSET (0..n)
  BY DEF good
<1>4. n \in good
  BY <1>1, <1>2, <1>3, UpTo
<1> QED BY <1>4, Zenon DEF good, Folds

\* The addresses PeerIdentified knows after a list of listen addresses.
Learnt(p, addrs, list) ==
  LET Learn(acc, a) ==
        LET kept == replace_stale_public_addr_for_ip(acc.addrs, a)
        IN  [addrs |-> kept \cup {a},
             cmds  |-> IF a \notin kept /\ has_public_ip(a)
                       THEN acc.cmds \cup {KademliaAddAddress(p, a)} ELSE acc.cmds]
  IN  FoldLeft(Learn, [addrs |-> addrs, cmds |-> {}], list).addrs

\* at[m] are the addresses known after the first m of list.
Learning(at, addrs, n, list) ==
  /\ at[0] = addrs
  /\ \A m \in 1..n :
       at[m] = replace_stale_public_addr_for_ip(at[m - 1], list[m]) \cup {list[m]}

\* They are learnt one after the other.
LEMMA LearningSteps ==
  ASSUME NEW p, NEW addrs \in SUBSET Multiaddrs,
         NEW n \in Nat, NEW list \in [1..n -> Multiaddrs]
  PROVE  \E at : Learning(at, addrs, n, list) /\ at[n] = Learnt(p, addrs, list)
<1> DEFINE Learn(acc, a) ==
             LET kept == replace_stale_public_addr_for_ip(acc.addrs, a)
             IN  [addrs |-> kept \cup {a},
                  cmds  |-> IF a \notin kept /\ has_public_ip(a)
                            THEN acc.cmds \cup {KademliaAddAddress(p, a)} ELSE acc.cmds]
           base == [addrs |-> addrs, cmds |-> {}]
           V == [addrs : SUBSET Multiaddrs,
                 cmds : SUBSET {KademliaAddAddress(p, a) : a \in Multiaddrs}]
           L == [w \in V \X Multiaddrs |-> Learn(w[1], w[2])]
           D == SUBSET (1..n)
           Folds(f) == f = [u \in D |-> IF u = {} THEN base
                                        ELSE Learn(f[u \ {Max(u)}], list[Max(u)])]
           iter == CHOOSE f : Folds(f)
<1>1. FoldLeft(Learn, base, list) = iter[1..n]
  <2>1. DOMAIN list = 1..n
    OBVIOUS
  <2> HIDE DEF Learn, base
  <2> QED BY <2>1, Zenon DEF FoldLeft, MapThenFoldSet
<1>2. base \in V
  BY DEF base
<1>3. ASSUME NEW v \in V, NEW a \in Multiaddrs PROVE Learn(v, a) \in V
  <2>1. v.addrs \subseteq Multiaddrs
    OBVIOUS
  <2>2. replace_stale_public_addr_for_ip(v.addrs, a) \cup {a} \subseteq Multiaddrs
    BY <2>1 DEF replace_stale_public_addr_for_ip
  <2> DEFINE new == replace_stale_public_addr_for_ip(v.addrs, a) \cup {a}
             C == {KademliaAddAddress(p, b) : b \in Multiaddrs}
  <2>3. v.cmds \subseteq C /\ v.cmds \cup {KademliaAddAddress(p, a)} \subseteq C
    <3> HIDE DEF KademliaAddAddress
    <3> QED OBVIOUS
  <2> DEFINE more == IF /\ a \notin replace_stale_public_addr_for_ip(v.addrs, a)
                        /\ has_public_ip(a)
                     THEN v.cmds \cup {KademliaAddAddress(p, a)} ELSE v.cmds
  <2>4. more \subseteq C
    BY <2>3
  <2>5. Learn(v, a) = [addrs |-> new, cmds |-> more]
    OBVIOUS
  <2> HIDE DEF new, more, C, Learn
  <2>6. [addrs |-> new, cmds |-> more] \in [addrs : SUBSET Multiaddrs, cmds : SUBSET C]
    BY <2>2, <2>4 DEF new
  <2> QED BY <2>5, <2>6 DEF C
<1> HIDE DEF base, V, Learn
<1>4. L \in [V \X Multiaddrs -> V]
  BY <1>3
<1>5. ASSUME NEW v \in V, NEW a \in Multiaddrs PROVE L[<<v, a>>] = Learn(v, a)
  OBVIOUS
<1> HIDE DEF L
<1>6. PICK f \in [D -> V] : \A u \in D :
        f[u] = IF u = {} THEN base ELSE L[<<f[u \ {Max(u)}], list[Max(u)]>>]
  <2>1. \E f \in [SUBSET (1..n) -> V] : IsFold(f, n, list, base, L)
    BY <1>2, <1>4, FoldExists
  <2> QED BY <2>1, Zenon DEF IsFold
<1>7. Folds(f)
  <2>1. ASSUME NEW u \in D
        PROVE  f[u] = IF u = {} THEN base ELSE Learn(f[u \ {Max(u)}], list[Max(u)])
    <3>1. CASE u = {}
      BY <1>6, <3>1
    <3>2. CASE u # {}
      <4>1. Max(u) \in 1..n
        BY <3>2, GreatestNumber
      <4>2. f[u \ {Max(u)}] \in V /\ list[Max(u)] \in Multiaddrs
        BY <4>1
      <4>3. f[u] = L[<<f[u \ {Max(u)}], list[Max(u)]>>]
        BY <1>6, <3>2
      <4>4. f[u] = Learn(f[u \ {Max(u)}], list[Max(u)])
        BY <1>5, <4>2, <4>3
      <4> QED BY <3>2, <4>4
    <3> QED BY <3>1, <3>2
  <2> QED BY <2>1
<1>8. Folds(iter)
  <2> HIDE DEF Folds
  <2> QED BY <1>7, Zenon
<1>9. iter[{}] = base
  <2> HIDE DEF iter
  <2> QED BY <1>8
<1>10. ASSUME NEW m \in 1..n
       PROVE  iter[1..m] = Learn(iter[1..(m - 1)], list[m])
  <2> DEFINE u == 1..m
  <2>1. u \in D /\ m \in u
    OBVIOUS
  <2>2. u # {} /\ m \in Nat
    BY <2>1
  <2>3. Max(u) \in u /\ \A k \in u : Max(u) >= k
    BY <2>2, GreatestNumber
  <2>4. Max(u) = m
    BY <2>1, <2>3
  <2>5. u \ {m} = 1..(m - 1)
    OBVIOUS
  <2> HIDE DEF u, iter
  <2>6. iter[u] = Learn(iter[u \ {Max(u)}], list[Max(u)])
    BY <1>8, <2>1, <2>2, Zenon
  <2> QED BY <2>4, <2>5, <2>6 DEF u
<1> DEFINE at == [m \in 0..n |-> iter[1..m].addrs]
<1>11. at[0] = addrs
  <2>1. 1..0 = {}
    OBVIOUS
  <2>2. at[0] = iter[1..0].addrs
    OBVIOUS
  <2> HIDE DEF at, iter
  <2> QED BY <1>9, <2>1, <2>2 DEF base
<1>12. ASSUME NEW m \in 1..n
       PROVE  at[m] = replace_stale_public_addr_for_ip(at[m - 1], list[m]) \cup {list[m]}
  <2>1. m \in 0..n /\ m - 1 \in 0..n
    OBVIOUS
  <2> HIDE DEF iter
  <2>2. at[m] = iter[1..m].addrs /\ at[m - 1] = iter[1..(m - 1)].addrs
    BY <2>1
  <2> HIDE DEF at
  <2>3. iter[1..m] = Learn(iter[1..(m - 1)], list[m])
    BY <1>10
  <2> QED BY <2>2, <2>3 DEF Learn
<1>13. at[n] = FoldLeft(Learn, base, list).addrs
  <2> HIDE DEF iter
  <2> QED BY <1>1
<1> HIDE DEF at, iter
<1>14. Learning(at, addrs, n, list)
  BY <1>11, <1>12 DEF Learning
<1>15. at[n] = Learnt(p, addrs, list)
  BY <1>13, Zenon DEF Learn, base, Learnt
<1> QED BY <1>14, <1>15

\* The addresses known after an identify are addresses, and of those with the public
\* IP of an announced one only the last one announced with it is left.  The lists
\* may have any length.
LEMMA LearntAddresses ==
  ASSUME NEW s, PeerOK(s), NEW p, Known(s, p) \subseteq Multiaddrs,
         NEW n \in Nat, NEW list \in [1..n -> Multiaddrs]
  PROVE  LET known == PeerIdentified(s, p, list).state.known_peers[p]
         IN  /\ known \subseteq Multiaddrs
             /\ \A i \in 1..n :
                  /\ has_public_ip(list[i])
                  /\ \A j \in 1..n : IpOf[list[j]] = IpOf[list[i]] => j <= i
                  => {b \in known : IpOf[b] = IpOf[list[i]]} = {list[i]}
<1> DEFINE addrs == Known(s, p)
           known == PeerIdentified(s, p, list).state.known_peers[p]
           learnt == Learnt(p, addrs, list)
<1>1. known = learnt
  <2> DEFINE with == WithPeer(s.known_peers, p, learnt)
  <2>1. PeerIdentified(s, p, list).state = [s EXCEPT !.known_peers = with]
    BY DEF PeerIdentified, Learnt
  <2>2. with[p] = learnt
    <3> HIDE DEF learnt
    <3> QED BY DEF WithPeer
  <2> HIDE DEF with, learnt
  <2>3. [s EXCEPT !.known_peers = with].known_peers = with
    BY DEF PeerOK
  <2> QED BY <2>1, <2>2, <2>3
<1>2. PICK at : Learning(at, addrs, n, list) /\ at[n] = learnt
  <2> HIDE DEF known, addrs
  <2>1. addrs \in SUBSET Multiaddrs
    BY DEF addrs
  <2> QED BY <2>1, LearningSteps
<1> HIDE DEF learnt, known, addrs
<1> DEFINE LastOf(m, i) ==
             /\ has_public_ip(list[i])
             /\ \A j \in 1..m : IpOf[list[j]] = IpOf[list[i]] => j <= i
           Holds(m) ==
             /\ at[m] \subseteq Multiaddrs
             /\ \A i \in 1..m : LastOf(m, i) =>
                  /\ list[i] \in at[m]
                  /\ \A b \in at[m] : IpOf[b] = IpOf[list[i]] => b = list[i]
           good == {m \in 0..n : Holds(m)}
<1>3. 0 \in good
  BY <1>2 DEF addrs, Learning
<1>4. ASSUME NEW k \in 0..n, k + 1 \in 0..n, k \in good
      PROVE  k + 1 \in good
  <2> DEFINE m == k + 1
             a == list[m]
  <2>1. m \in 1..n /\ m - 1 = k /\ a \in Multiaddrs
    BY <1>4
  <2>2. at[m] = replace_stale_public_addr_for_ip(at[k], a) \cup {a}
    BY <1>2, <2>1 DEF Learning
  <2>3. \A b : b \in at[m] <=> \/ b = a
                               \/ /\ b \in at[k]
                                  /\ ~has_public_ip(a) \/ IpOf[b] # IpOf[a]
    BY <2>2 DEF replace_stale_public_addr_for_ip
  <2>4. Holds(k)
    BY <1>4
  <2>5. at[m] \subseteq Multiaddrs
    BY <2>1, <2>3, <2>4
  <2>6. ASSUME NEW i \in 1..m, LastOf(m, i)
        PROVE  /\ list[i] \in at[m]
               /\ \A b \in at[m] : IpOf[b] = IpOf[list[i]] => b = list[i]
    <3>1. CASE i = m
      BY <2>3, <2>6, <3>1
    <3>2. CASE i # m
      <4>1. i \in 1..k /\ 1..k \subseteq 1..m
        BY <2>1, <3>2
      <4>2. LastOf(k, i)
        BY <2>6, <4>1
      <4>3. IpOf[a] # IpOf[list[i]]
        <5>1. ~(m <= i) /\ m \in 1..m
          BY <2>1, <3>2
        <5> QED BY <2>6, <5>1
      <4> HIDE DEF LastOf, a, m
      <4>4. /\ list[i] \in at[k]
            /\ \A b \in at[k] : IpOf[b] = IpOf[list[i]] => b = list[i]
        BY <2>4, <4>1, <4>2
      <4> QED BY <2>3, <4>3, <4>4
    <3> QED BY <3>1, <3>2
  <2> HIDE DEF LastOf
  <2>7. Holds(m)
    BY <2>5, <2>6
  <2> HIDE DEF Holds
  <2> QED BY <1>4, <2>7
<1>5. n \in good
  <2> HIDE DEF Holds
  <2>1. good \in SUBSET (0..n)
    OBVIOUS
  <2> HIDE DEF good
  <2> QED BY <1>3, <1>4, <2>1, UpTo
<1>6. Holds(n)
  <2> HIDE DEF Holds
  <2> QED BY <1>5
<1>7. at[n] = known
  BY <1>1, <1>2
<1>8. known \subseteq Multiaddrs
  BY <1>6, <1>7
<1>9. ASSUME NEW i \in 1..n, LastOf(n, i)
      PROVE  {b \in known : IpOf[b] = IpOf[list[i]]} = {list[i]}
  <2> HIDE DEF LastOf
  <2>1. /\ list[i] \in known
        /\ \A b \in known : IpOf[b] = IpOf[list[i]] => b = list[i]
    BY <1>6, <1>7, <1>9
  <2> QED BY <2>1
<1> HIDE DEF Holds
<1> QED BY <1>8, <1>9, Zenon DEF known, LastOf

\* An identify leaves addresses in the entry of its peer.
LEMMA IdentifyArm ==
  ASSUME NEW s, PeerOK(s), AddrsOK(s), NEW p, NEW list \in AddressLists
  PROVE  AddrsOK(PeerIdentified(s, p, list).state)
<1>1. PICK n \in 0..MaxIdentify : list \in [1..n -> Multiaddrs]
  BY DEF AddressLists, Lists
<1>2. n \in Nat /\ Known(s, p) \subseteq Multiaddrs
  BY KnownFacts
<1> DEFINE r == PeerIdentified(s, p, list).state
           learnt == Learnt(p, Known(s, p), list)
<1>3. r = [s EXCEPT !.known_peers = WithPeer(s.known_peers, p, learnt)]
  BY DEF PeerIdentified, Learnt
<1>4. r.known_peers[p] \subseteq Multiaddrs
  BY <1>1, <1>2, LearntAddresses
<1> HIDE DEF learnt, r
<1>5. r.known_peers = WithPeer(s.known_peers, p, learnt)
  BY <1>3 DEF PeerOK
<1>6. learnt \in SUBSET Multiaddrs
  BY <1>4, <1>5 DEF WithPeer
<1>7. AddrsOK(r)
  BY <1>3, <1>6, EntriesOK
<1> QED BY <1>7 DEF r

\* Every step keeps the types.
LEMMA NextPreservesTInv ==
  ASSUME IInv, TInv, [Next]_vars
  PROVE  TInv'
<1> USE DEF TInv
<1>1. PeerOK(peer) /\ AddrsOK(peer)
  BY DEF IInv
<1>2. ASSUME NEW o, NEW live, NEW req, Process(o, live, req), AddrsOK(o.state)
      PROVE  AddrsOK(peer)'
  BY <1>2 DEF Process, AddrsOK
<1>3. ASSUME peer' = peer PROVE AddrsOK(peer)'
  BY <1>1, <1>3 DEF AddrsOK
<1>4. ASSUME NEW o, PeerEvent(o), AddrsOK(o.state) PROVE TInv'
  BY <1>2, <1>4 DEF PeerEvent, loop
<1>5. CASE UNCHANGED vars
  BY <1>3, <1>5 DEF vars, loop
<1>6. ASSUME NEW p \in Peers, NEW a \in Multiaddrs, NEW dialled \in BOOLEAN,
             ConnectionEstablished(p, a, dialled)
      PROVE  TInv'
  <2>1. CASE p \in BootstrapPeers
    <3>1. Process(BootstrapConnected(peer, p, a), running, requested)
      BY <1>6, <2>1 DEF ConnectionEstablished
    <3>2. AddrsOK(peer)'
      BY <1>1, <1>2, <3>1, AddressArms
    <3> QED BY <1>6, <3>2 DEF ConnectionEstablished
  <2>2. CASE p \notin BootstrapPeers
    <3>1. peer' = peer /\ UNCHANGED discovery_timeout_fired
      BY <1>6, <2>2 DEF ConnectionEstablished
    <3> QED BY <1>3, <3>1
  <2> QED BY <2>1, <2>2
<1>7. ASSUME NEW p \in Peers, NEW waiting \in 0..MaxListeners, NEW held \in 0..MaxListeners,
             ConnectionClosed(p, waiting, held)
      PROVE  TInv'
  <2>1. peer' = ConnectionLostAll(peer, p).state \/ peer' = peer
    BY <1>7 DEF ConnectionClosed, Process, Out
  <2>2. AddrsOK(peer)'
    BY <1>1, <2>1, LostArm DEF AddrsOK
  <2> QED BY <1>7, <2>2 DEF ConnectionClosed
<1>8. ASSUME NEW p \in BootstrapPeers,
             \/ BehaviourDial(p) \/ DialFails(p) \/ ReconnectDue(p) \/ ReservationDenied(p)
             \/ ListenerCloses(p)
      PROVE  TInv'
  <2>1. peer' = peer /\ UNCHANGED discovery_timeout_fired
    BY <1>8 DEF BehaviourDial, DialFails, ReconnectDue, ReservationDenied, ListenerCloses, loop
  <2> QED BY <1>3, <2>1
<1>9. ASSUME NEW id \in QueryIds, NEW ok \in BOOLEAN, BootstrapQueryEnds(id, ok)
      PROVE  TInv'
  <2> DEFINE o == IF ok /\ is_active_bootstrap_result(id) THEN KademliaBootstrapOk(peer)
                  ELSE Out(peer, {})
  <2>1. Process(o, running \ {id}, requested) /\ UNCHANGED discovery_timeout_fired
    BY <1>9 DEF BootstrapQueryEnds, loop
  <2>2. AddrsOK(o.state)
    BY <1>1, QuietArms
  <2> HIDE DEF o
  <2> QED BY <1>2, <2>1, <2>2
<1>10. ASSUME NEW id \in QueryIds, KademliaBootstrapsItself(id) PROVE TInv'
  BY <1>3, <1>10 DEF KademliaBootstrapsItself, loop
<1>11. CASE DiscoveryTimedOut
  <2>1. Process(DiscoveryTimeout(peer), running, requested) /\ discovery_timeout_fired' = TRUE
    BY <1>11 DEF DiscoveryTimedOut
  <2> QED BY <1>1, <1>2, <2>1, QuietArms
<1>12. ASSUME NEW p \in Peers, NEW list \in AddressLists, Identified(p, list) PROVE TInv'
  <2>1. PeerEvent(PeerIdentified(peer, p, list))
    BY <1>12, Zenon DEF Identified
  <2> QED BY <1>1, <1>4, <2>1, IdentifyArm, Zenon
<1>13. ASSUME NEW a \in ExternalAddrs, ExternalConfirmed(a) \/ ExternalExpired(a) PROVE TInv'
  <2>1. \/ PeerEvent(ExternalAddrConfirmed(peer, a))
        \/ PeerEvent(ExternalAddrExpired(peer, a))
    BY <1>13, Zenon DEF ExternalConfirmed, ExternalExpired
  <2> QED BY <1>1, <1>4, <2>1, ExternalArms, Zenon
<1>14. ASSUME NEW status \in {"Unknown", "Public", "Private"}, NatChanged(status) PROVE TInv'
  <2>1. PeerEvent(NatStatusChanged(peer, status))
    BY <1>14, Zenon DEF NatChanged
  <2> QED BY <1>1, <1>4, <2>1, QuietArms, Zenon
<1>15. ASSUME NEW p \in Peers, NEW a \in Multiaddrs, MdnsEvent(p, a) PROVE TInv'
  <2>1. PeerEvent(MdnsDiscovered(peer, p, a)) \/ PeerEvent(MdnsExpired(peer, p, a))
    BY <1>15, Zenon DEF MdnsEvent
  <2> QED BY <1>1, <1>4, <2>1, AddressArms, Zenon
<1>16. ASSUME NEW p \in BootstrapPeers,
              ReservationAccepted(p) \/ ReservationRenewed(p) \/ ReservationLost(p)
       PROVE  TInv'
  <2>1. /\ \/ peer' = RelayReservationAccepted(peer).state
           \/ peer' = RelayReservationFailed(peer).state
        /\ UNCHANGED discovery_timeout_fired
    BY <1>16 DEF ReservationAccepted, ReservationRenewed, ReservationLost, PeerEvent, Process,
                 loop
  <2>2. AddrsOK(peer)'
    BY <1>1, <2>1, QuietArms DEF AddrsOK
  <2> QED BY <2>1, <2>2
<1>17. CASE Shutdown
  <2>1. PeerEvent(ShutdownRequested(peer))
    BY <1>17, Zenon DEF Shutdown
  <2> QED BY <1>1, <1>4, <2>1, QuietArms, Zenon
<1> HIDE DEF TInv
<1> QED BY <1>5, <1>6, <1>7, <1>8, <1>9, <1>10, <1>11, <1>12, <1>13, <1>14, <1>15, <1>16,
           <1>17, Zenon DEF Next

\* IInv and the types hold together.
LEMMA TypeInvariant ==
  Spec => [](IInv /\ TInv)
<1>1. ASSUME Init PROVE TInv
  <2>1. /\ DOMAIN peer.known_peers = {}
        /\ peer.external_addrs = {}
        /\ discovery_timeout_fired = FALSE
    BY <1>1 DEF Init, InitialPeer
  <2> QED BY <2>1 DEF TInv, AddrsOK
<1>2. IInv /\ TInv /\ [Next]_vars => TInv'
  BY NextPreservesTInv
<1> QED BY <1>1, <1>2, LoopInvariant, PTL DEF Spec

\* PeerState, the back-off and the swarm's books have their types for every set of
\* peers, addresses and queries: what identifies, connections and mDNS teach the
\* node are addresses, and no delay exceeds BACKOFF_MAX.
THEOREM TypesAreKept ==
  Spec => []TypeOK
<1>1. IInv /\ TInv => TypeOK
  BY DEF IInv, TInv, PeerOK, LoopOK, QueriesOK, AddrsOK, TypeOK
<1> QED BY <1>1, TypeInvariant, PTL

\* After an identify (PeerEvent::PeerIdentified) of a connected peer each public IP
\* it announced stands for the last address announced with it.
THEOREM IdentifyForgetsStale ==
  Spec => []IdentifyReplacesStale
<1>1. ASSUME IInv, TInv PROVE IdentifyReplacesStale
  <2> SUFFICES ASSUME NEW p \in Peers, NEW list \in Lists(2),
                      NEW a \in ToSet(list), has_public_ip(a)
               PROVE  LET known == PeerIdentified(peer, p, list).state.known_peers[p]
                          S == {i \in DOMAIN list : IpOf[list[i]] = IpOf[a]}
                      IN  {b \in known : IpOf[b] = IpOf[a]} = {list[Max(S)]}
    BY Zenon DEF IdentifyReplacesStale
  <2>1. PICK n \in 0..2 : list \in [1..n -> Multiaddrs]
    BY DEF Lists
  <2> DEFINE known == PeerIdentified(peer, p, list).state.known_peers[p]
             S == {i \in DOMAIN list : IpOf[list[i]] = IpOf[a]}
             last == Max(S)
  <2>2. S \in SUBSET (1..n) /\ S # {}
    BY <2>1 DEF ToSet
  <2>3. last \in S /\ \A m \in S : last >= m
    BY <2>2, GreatestNumber
  <2>4. /\ last \in 1..n
        /\ IpOf[list[last]] = IpOf[a]
        /\ has_public_ip(list[last])
        /\ \A j \in 1..n : IpOf[list[j]] = IpOf[list[last]] => j <= last
    BY <2>1, <2>3 DEF has_public_ip
  <2>5. PeerOK(peer) /\ Known(peer, p) \subseteq Multiaddrs /\ n \in Nat
    BY <1>1, <2>1, KnownFacts DEF IInv, TInv
  <2> HIDE DEF last, known
  <2>6. {b \in known : IpOf[b] = IpOf[list[last]]} = {list[last]}
    BY <2>1, <2>4, <2>5, LearntAddresses DEF known
  <2> QED BY <2>4, <2>6, Zenon DEF known, last
<1> QED BY <1>1, TypeInvariant, PTL
=============================================================================
