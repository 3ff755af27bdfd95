----------------------------- MODULE TunnelSpec -----------------------------
(***************************************************************************)
(* TunnelState on its own: the machine of TunnelMachine fed with any event *)
(* at any time, in any order, repeated or stale.  What holds here holds    *)
(* whatever the swarm, the DHT and the peers do.                           *)
(***************************************************************************)
EXTENDS TunnelMachine

CONSTANTS
  MaxClock,        \* bound: the clock stops here
  MaxAttemptId,    \* bound: hole-punch attempt ids of the events
  MaxProviders     \* bound: length of a DHT answer

ASSUME TunnelBounds ==
  MaxClock \in Nat /\ MaxAttemptId \in Nat /\ MaxProviders \in Nat

VARIABLES
  tunnel,    \* the TunnelState value
  spawned,   \* the peers each request was opened on, one per SpawnTunnel
  commands,  \* what the last transition returned
  now        \* Instant::now()

vars == <<tunnel, spawned, commands, now>>

Answers ==
  UNION {[1..n -> [peer : Peers, connected : BOOLEAN]] : n \in 0..MaxProviders}

Init ==
  /\ tunnel = InitialTunnels
  /\ spawned = [x \in Specs |-> <<>>]
  /\ commands = {}
  /\ now = 1

\* One transition: the new state is kept, the commands go to the executor.
Transition(out) ==
  /\ tunnel' = out.state
  /\ commands' = out.commands
  /\ spawned' = [x \in Specs |->
                   IF x \in SpawnedBy(out.commands)
                   THEN Append(spawned[x], SpawnPeer(out.commands, x)) ELSE spawned[x]]
  /\ UNCHANGED now

NodeReady == Transition(PhaseChangedReady(tunnel))

ReservationAccepted == Transition(RelayReservationAccepted(tunnel))

PeerLookedUp(p, connected) == Transition(DhtPeerLookupComplete(tunnel, p, connected))

ServiceResolved(s, providers) == Transition(DhtServiceResolved(tunnel, s, providers))

ServiceLookupFailed(s) == Transition(DhtServiceFailed(tunnel, s))

DialFailed(p, aborted) ==
  \E asg \in RerouteChoices(tunnel, p) :
    Transition(TunnelDialFailed(tunnel, p, aborted, asg, now))

Identified(p, listen_addrs) == Transition(PeerIdentified(tunnel, p, listen_addrs, now))

Connected(p, relayed) == Transition(TunnelPeerConnected(tunnel, p, relayed))

AttemptStarted(p, id) == Transition(HolePunchAttemptStarted(tunnel, p, id))

AttemptFailed(p, id) == Transition(HolePunchAttemptFailed(tunnel, p, id))

LastConnectionLost(p) == Transition(ConnectionLostAll(tunnel, p, now))

Tick ==
  /\ now < MaxClock
  /\ now' = now + 1
  /\ commands' = {}
  /\ UNCHANGED <<tunnel, spawned>>

Next ==
  \/ NodeReady
  \/ ReservationAccepted
  \/ \E p \in Peers, connected \in BOOLEAN : PeerLookedUp(p, connected)
  \/ \E s \in Services, providers \in Answers : ServiceResolved(s, providers)
  \/ \E s \in Services : ServiceLookupFailed(s)
  \/ \E p \in Peers, aborted \in BOOLEAN : DialFailed(p, aborted)
  \/ \E p \in Peers, listen_addrs \in SUBSET Addrs : Identified(p, listen_addrs)
  \/ \E p \in Peers, relayed \in BOOLEAN : Connected(p, relayed)
  \/ \E p \in Peers, id \in 1..MaxAttemptId : AttemptStarted(p, id)
  \/ \E p \in Peers, id \in 1..MaxAttemptId : AttemptFailed(p, id)
  \/ \E p \in Peers : LastConnectionLost(p)
  \/ Tick

Spec == Init /\ [][Next]_vars

-----------------------------------------------------------------------------
(* Properties *)

Sessions ==
  [attempt_id : Nat, phase : Phases \cup {"None"}, relay_redial_addrs : Seq(RelayAddrs),
   direct_snapshot : Seq(DirectAddrs), dial_retry_dispatched : BOOLEAN]

\* Every field holds what its Rust type and its name say: snapshots and
\* candidate lists hold addresses of their own class, provider lists hold peers.
TypeOK ==
  /\ tunnel \in
       [pending_by_peer : [Peers -> SUBSET Specs],
        pending_by_service : [Services -> SUBSET Specs],
        service_provider_candidates : [Services -> Seq(Peers)],
        awaiting_holepunch : [Peers -> SUBSET Specs],
        relayed_peers : SUBSET Peers,
        holepunch_retry_attempts : [Peers -> Nat],
        pending_retry_redial : SUBSET Peers,
        holepunch_sessions : [Peers -> Sessions],
        address_oracle : [Peers -> [relay : Seq(RelayAddrs), direct : Seq(DirectAddrs)]],
        address_last_seen : [Peers -> [Addrs -> Nat]]]
  /\ spawned \in [Specs -> Seq(Peers)]
  /\ now \in Nat

\* The places a request can wait in.
Holders(x) ==
     ({"pending_by_peer"} \X {p \in Peers : x \in tunnel.pending_by_peer[p]})
  \cup ({"pending_by_service"} \X {s \in Services : x \in tunnel.pending_by_service[s]})
  \cup ({"awaiting_holepunch"} \X {p \in Peers : x \in tunnel.awaiting_holepunch[p]})

\* No request is lost and none is opened twice: at any time a tunnel request
\* either waits in exactly one of the three maps, under its own service if it
\* waits by service, or it was handed to SpawnTunnel exactly once and waits
\* nowhere.  Rerouting, fallback, duplicate DHT answers and repeated failures
\* all move requests between the maps.
IntentConservation ==
  \A x \in Specs :
    /\ \/ Len(spawned[x]) = 0 /\ \E h \in Holders(x) : Holders(x) = {h}
       \/ Len(spawned[x]) = 1 /\ Holders(x) = {}
    /\ \A s \in Services : x \in tunnel.pending_by_service[s] => s = ServiceOf[x]

\* The place of a request in the terms of TunnelRequests.
PlaceOf(x) ==
  IF spawned[x] # <<>> THEN At("open", Last(spawned[x])) ELSE WaitingPlace(tunnel, x)

Requests == INSTANCE TunnelRequests WITH place <- [x \in Specs |-> PlaceOf(x)]

\* The tunnel machine implements TunnelRequests: whatever events come in, a
\* request moves between searching, pending, held and open only in the ways
\* promised there.  Requests held for a direct path stay with their peer when
\* the connection is lost, only a failed dial takes a request away from its
\* peer, and requests that share a place move together.
ImplementsTunnelRequests == Requests!Spec

\* The retry bookkeeping of a peer lives exactly as long as somebody waits for
\* it: retries were counted, or a redial is due, only while requests are in
\* awaiting_holepunch, so a later request for the same peer starts with the
\* whole budget and no disconnect is answered with a redial nobody needs.
RetryStateIsOwned ==
  \A p \in Peers :
    /\ tunnel.holepunch_retry_attempts[p] <= MAX_RELAY_RECONNECT_RETRIES
    /\ tunnel.holepunch_retry_attempts[p] > 0 => tunnel.awaiting_holepunch[p] # {}
    /\ p \in tunnel.pending_retry_redial => tunnel.holepunch_retry_attempts[p] > 0

\* A tunnel is opened over a relayed connection only after the direct upgrade
\* was retried MAX_RELAY_RECONNECT_RETRIES times; every other path that opens
\* tunnels (lookups, DHT answers, new connections) respects relayed_peers.
DirectPathPreferred ==
  [][\A p \in Peers, x \in Specs :
       SpawnTunnel(p, x) \in commands' /\ p \in tunnel'.relayed_peers
         => /\ tunnel.holepunch_retry_attempts[p] = MAX_RELAY_RECONNECT_RETRIES
            /\ x \in tunnel.awaiting_holepunch[p]]_vars

\* The limit of a redial list never cuts off the relayed addresses: direct
\* candidates come first and can fill at most MAX_DIRECT_CANDIDATES places, as
\* snapshot, oracle and fresh sightings of one attempt never disagree by more
\* than what has expired; so a retry can always reach the relay again.
RelayAddressesSurvive ==
  \A p \in Peers :
    LET session == tunnel.holepunch_sessions[p]
        redial  == prioritized_redial_addrs(tunnel.address_oracle[p],
                                            tunnel.address_last_seen[p], session, now)
    IN  HasSession(tunnel, p)
          => ToSet(session.relay_redial_addrs) \subseteq ToSet(redial)

\* A running attempt keeps usable addresses of each class once it had some,
\* whatever the peer announces or whatever expires later: only the start of
\* another attempt may leave a snapshot empty.
SnapshotsNeverEmptied ==
  [][\A p \in Peers :
       LET old == tunnel.holepunch_sessions[p]
           new == tunnel'.holepunch_sessions[p]
       IN  /\ old.phase # "None" /\ new.phase # "None"
           /\ \A id \in 1..MaxAttemptId : ~AttemptStarted(p, id)
           => /\ old.relay_redial_addrs # <<>> => new.relay_redial_addrs # <<>>
              /\ old.direct_snapshot # <<>> => new.direct_snapshot # <<>>]_vars
=============================================================================
