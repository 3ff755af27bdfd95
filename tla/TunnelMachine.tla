--------------------------- MODULE TunnelMachine ---------------------------
(***************************************************************************)
(* The Mealy machine that decides, for every tunnel the user asked for,    *)
(* when and over which peer it is opened (src/src/state/tunnel.rs).  Each  *)
(* operator below is one arm of TunnelState::transition: it takes the      *)
(* state t and an event's data and returns the new state and the set of    *)
(* commands.                                                               *)
(*                                                                         *)
(* A tunnel request, the (service, bind) pair of the code, is an element   *)
(* of Specs; what identifies its service is ServiceOf.  A HashMap whose    *)
(* entries are never empty is a total function: an absent key is mapped to *)
(* {}, <<>>, 0 or NoSession.  The order of the requests inside one Vec     *)
(* matters in one place only, and is a choice there (RerouteChoices).      *)
(***************************************************************************)
EXTENDS AddressOracle, Overlay

CONSTANTS
  Services,
  Specs,
  ServiceOf,      \* the service a request asks for
  TargetOf,       \* the peer a request names, or NoPeer: found by service name
  MAX_RELAY_RECONNECT_RETRIES

ASSUME TunnelAssumption ==
  /\ ServiceOf \in [Specs -> Services]
  /\ TargetOf \in [Specs -> Peers \cup {NoPeer}]
  /\ MAX_RELAY_RECONNECT_RETRIES \in Nat

Phases == {"Punching", "WaitingDisconnect", "WaitingRedial"}

NoSession == [attempt_id |-> 0, phase |-> "None", relay_redial_addrs |-> <<>>,
              direct_snapshot |-> <<>>, dial_retry_dispatched |-> FALSE]

HasSession(t, p) == t.holepunch_sessions[p].phase # "None"

-----------------------------------------------------------------------------
(* Commands *)

PublishServices == [type |-> "PublishServices"]
DhtLookupPeer(p) == [type |-> "DhtLookupPeer", peer |-> p]
DhtGetProviders(s) == [type |-> "DhtGetProviders", service |-> s]
DialPeer(p) == [type |-> "DialPeer", peer |-> p]
DialPeerWithAddrs(p, addrs, id) ==
  [type |-> "DialPeerWithAddrs", peer |-> p, addrs |-> addrs, attempt_id |-> id]
DisconnectPeer(p) == [type |-> "DisconnectPeer", peer |-> p]
SpawnTunnel(p, x) == [type |-> "SpawnTunnel", peer |-> p, spec |-> x]

SpawnAll(p, specs) == {SpawnTunnel(p, x) : x \in specs}

\* The requests a set of commands opens a tunnel for.
SpawnedBy(cmds) == {x \in Specs : \E p \in Peers : SpawnTunnel(p, x) \in cmds}

SpawnPeer(cmds, x) == CHOOSE p \in Peers : SpawnTunnel(p, x) \in cmds

\* What a transition returns.
Out(t, cmds) == [state |-> t, commands |-> cmds]

-----------------------------------------------------------------------------
(* State *)

\* TunnelState::new() after run() added the requests of the command line.
InitialTunnels ==
  [pending_by_peer |-> [p \in Peers |-> {x \in Specs : TargetOf[x] = p}],
   pending_by_service |->
     [s \in Services |-> {x \in Specs : TargetOf[x] = NoPeer /\ ServiceOf[x] = s}],
   service_provider_candidates |-> [s \in Services |-> <<>>],
   awaiting_holepunch |-> [p \in Peers |-> {}],
   relayed_peers |-> {},
   holepunch_retry_attempts |-> [p \in Peers |-> 0],
   pending_retry_redial |-> {},
   holepunch_sessions |-> [p \in Peers |-> NoSession],
   address_oracle |-> [p \in Peers |-> NoCandidates],
   address_last_seen |-> [p \in Peers |-> NothingSeen]]

has_holepunch_intent(t, p) ==
  t.pending_by_peer[p] # {} \/ t.awaiting_holepunch[p] # {}

\* The same question for every peer at once.
holepunch_target_peers(t) == {p \in Peers : has_holepunch_intent(t, p)}

initiate_lookups(t) ==
     {DhtLookupPeer(p) : p \in {q \in Peers : t.pending_by_peer[q] # {}}}
  \cup {DhtGetProviders(s) : s \in {r \in Services : t.pending_by_service[r] # {}}}

\* A mutation of clear_retry_state: the retry budget is not reset.
BugKeepRetryBudget(t, p) ==
  [t EXCEPT !.pending_retry_redial = @ \ {p},
            !.holepunch_sessions[p] = NoSession]

clear_retry_state(t, p) ==
  [t EXCEPT !.holepunch_retry_attempts[p] = 0,
            !.pending_retry_redial = @ \ {p},
            !.holepunch_sessions[p] = NoSession]

\* A mutation of route_connected_peer: the kind of connection is not asked.
BugIgnoreRelayed(t, p, specs) == Out(t, SpawnAll(p, specs))

\* Requests for a connected peer: opened at once, unless the connection is
\* relayed; then they wait for a direct one.
route_connected_peer(t, p, specs) ==
  IF p \in t.relayed_peers
  THEN Out([t EXCEPT !.awaiting_holepunch[p] = @ \cup specs], {})
  ELSE Out(t, SpawnAll(p, specs))

-----------------------------------------------------------------------------
(* Rerouting after a failed dial *)

\* The fallback providers of s that next_fallback_provider may return.
Fallbacks(t, s, p) == SelectSeq(t.service_provider_candidates[s], LAMBDA q : q # p)

\* The pending requests of p for service s.
PendingFor(t, p, s) == {x \in t.pending_by_peer[p] : ServiceOf[x] = s}

\* For each pending request of p the provider it moves to, never p itself, or
\* NoPeer when the list is exhausted: the requests of one service take its
\* fallback providers in order, one each, in the order of the Vec.
RerouteChoices(t, p) ==
  {asg \in [t.pending_by_peer[p] -> (Peers \ {p}) \cup {NoPeer}] :
    \A s \in Services :
      LET n     == Cardinality(PendingFor(t, p, s))
          avail == Fallbacks(t, s, p)
          taken == SubSeq(avail, 1, Min({n, Len(avail)}))
          moved == {x \in PendingFor(t, p, s) : asg[x] # NoPeer}
      IN  /\ {asg[x] : x \in moved} = ToSet(taken)
          /\ Cardinality(moved) = Len(taken)}

\* What is left of the list of s after n calls of next_fallback_provider.
RemainingCandidates(t, s, p, n) ==
  LET list  == t.service_provider_candidates[s]
      avail == Fallbacks(t, s, p)
  IN  IF n = 0 THEN list
      ELSE IF n > Len(avail) THEN <<>>
      ELSE SubSeq(list, SelectInSeq(list, LAMBDA q : q = avail[n]) + 1, Len(list))

reroute_specs_after_dial_failure(t, p, asg) ==
  LET specs    == t.pending_by_peer[p]
      To(q)    == {x \in specs : asg[x] = q}
      Requeued(s) == {x \in To(NoPeer) : ServiceOf[x] = s}
  IN  Out([t EXCEPT
             !.pending_by_peer =
                [q \in Peers |-> IF q = p THEN To(q) ELSE @[q] \cup To(q)],
             !.pending_by_service = [s \in Services |-> @[s] \cup Requeued(s)],
             !.service_provider_candidates =
                [s \in Services |->
                   RemainingCandidates(t, s, p, Cardinality(PendingFor(t, p, s)))]],
            {DhtLookupPeer(q) : q \in {r \in Peers : To(r) # {}}}
         \cup {DhtGetProviders(s) : s \in {r \in Services : Requeued(r) # {}}})

-----------------------------------------------------------------------------
(* Addresses and hole-punch sessions *)

\* A mutation of update_address_oracle: an identify without usable addresses
\* empties the snapshots of the running attempt.
BugOverwriteSnapshots(t, p, listen_addrs, now) ==
  LET seen   == record_address_candidates(t.address_last_seen[p], listen_addrs, now)
      relay  == fresh_candidates(seen, now, RelayAddrs, MAX_RELAY_CANDIDATES)
      direct == fresh_candidates(seen, now, DirectAddrs, MAX_DIRECT_CANDIDATES)
      session == t.holepunch_sessions[p]
  IN  [t EXCEPT
         !.address_last_seen[p] = seen,
         !.address_oracle[p] = [relay |-> relay, direct |-> direct],
         !.holepunch_sessions[p] =
           IF HasSession(t, p)
           THEN [session EXCEPT !.relay_redial_addrs = relay, !.direct_snapshot = direct]
           ELSE session]

\* The identify data of p: the sightings, the oracle and, when it brings
\* different usable addresses, the snapshots of a running attempt, which may
\* then dial once more.
update_address_oracle(t, p, listen_addrs, now) ==
  LET seen   == record_address_candidates(t.address_last_seen[p], listen_addrs, now)
      relay  == fresh_candidates(seen, now, RelayAddrs, MAX_RELAY_CANDIDATES)
      direct == fresh_candidates(seen, now, DirectAddrs, MAX_DIRECT_CANDIDATES)
      session       == t.holepunch_sessions[p]
      newRelay      == relay # <<>> /\ relay # session.relay_redial_addrs
      newDirect     == direct # <<>> /\ direct # session.direct_snapshot
      refreshed     ==
        [session EXCEPT
           !.relay_redial_addrs = IF newRelay THEN relay ELSE @,
           !.direct_snapshot = IF newDirect THEN direct ELSE @,
           !.dial_retry_dispatched = IF newRelay \/ newDirect THEN FALSE ELSE @]
  IN  [t EXCEPT
         !.address_last_seen[p] = seen,
         !.address_oracle[p] = [relay |-> relay, direct |-> direct],
         !.holepunch_sessions[p] = IF HasSession(t, p) THEN refreshed ELSE session]

\* A mutation of begin_holepunch_attempt: a session that exists is kept.
BugKeepSession(t, p, id) ==
  IF HasSession(t, p) THEN t
  ELSE [t EXCEPT !.holepunch_sessions[p].attempt_id = id,
                 !.holepunch_sessions[p].phase = "Punching"]

begin_holepunch_attempt(t, p, id) ==
  [t EXCEPT !.holepunch_sessions[p] =
     [attempt_id |-> id, phase |-> "Punching",
      relay_redial_addrs |-> t.address_oracle[p].relay,
      direct_snapshot |-> t.address_oracle[p].direct,
      dial_retry_dispatched |-> FALSE]]

\* The dial of a retry: the ranked addresses, or whatever the swarm knows.
RedialCommand(t, p, now) ==
  LET session == t.holepunch_sessions[p]
      addrs   == prioritized_redial_addrs(t.address_oracle[p], t.address_last_seen[p],
                                          session, now)
  IN  IF HasSession(t, p) /\ addrs # <<>>
      THEN DialPeerWithAddrs(p, addrs, session.attempt_id)
      ELSE DialPeer(p)

\* A failed attempt counts only for the running attempt of a peer somebody
\* waits for.
RetryApplies(t, p, id) ==
  /\ t.holepunch_sessions[p].phase = "Punching"
  /\ t.holepunch_sessions[p].attempt_id = id
  /\ t.awaiting_holepunch[p] # {}

RetriesExhausted(t, p) ==
  t.holepunch_retry_attempts[p] >= MAX_RELAY_RECONNECT_RETRIES

\* A mutation of retry_holepunch_attempt: the requests that fall back to the
\* relayed connection stay queued for the direct one.
BugFallbackKeepsQueue(t, p, id) ==
  IF ~RetryApplies(t, p, id) THEN Out(t, {})
  ELSE IF RetriesExhausted(t, p)
  THEN Out(clear_retry_state(t, p), SpawnAll(p, t.awaiting_holepunch[p]))
  ELSE Out([t EXCEPT !.holepunch_retry_attempts[p] = @ + 1,
                     !.pending_retry_redial = @ \cup {p},
                     !.holepunch_sessions[p].phase = "WaitingDisconnect"],
           {DisconnectPeer(p)})

\* Reconnect and punch again, or open the tunnels over the relayed connection
\* when the retries are used up.
retry_holepunch_attempt(t, p, id) ==
  IF ~RetryApplies(t, p, id) THEN Out(t, {})
  ELSE IF RetriesExhausted(t, p)
  THEN Out([clear_retry_state(t, p) EXCEPT !.awaiting_holepunch[p] = {}],
           SpawnAll(p, t.awaiting_holepunch[p]))
  ELSE Out([t EXCEPT !.holepunch_retry_attempts[p] = @ + 1,
                     !.pending_retry_redial = @ \cup {p},
                     !.holepunch_sessions[p].phase = "WaitingDisconnect"],
           {DisconnectPeer(p)})

-----------------------------------------------------------------------------
(* TunnelState::transition, one operator per event that does something *)

PhaseChangedReady(t) == Out(t, {PublishServices} \cup initiate_lookups(t))

RelayReservationAccepted(t) == Out(t, {PublishServices})

DhtPeerLookupComplete(t, p, connected) ==
  LET specs == t.pending_by_peer[p]
  IN  IF specs = {} THEN Out(t, {})
      ELSE IF connected
      THEN route_connected_peer([t EXCEPT !.pending_by_peer[p] = {}], p, specs)
      ELSE Out(t, {DialPeer(p)})

\* The requests for s go to the first provider, the others are its fallbacks;
\* without any provider the query is repeated.
DhtServiceResolved(t, s, providers) ==
  LET specs    == t.pending_by_service[s]
      provider == Head(providers)
      dequeued ==
        [t EXCEPT !.pending_by_service[s] = {},
                  !.service_provider_candidates[s] =
                     Tail(Dedup([i \in DOMAIN providers |-> providers[i].peer]))]
  IN  IF specs = {} THEN Out(t, {})
      ELSE IF providers = <<>> THEN Out(t, {DhtGetProviders(s)})
      ELSE IF provider.connected
      THEN route_connected_peer(dequeued, provider.peer, specs)
      ELSE Out([dequeued EXCEPT !.pending_by_peer[provider.peer] = @ \cup specs],
               {DhtLookupPeer(provider.peer)})

\* A mutation of DhtServiceFailed: the failure is final.
BugFailureIsFinal(t, s) == Out(t, {})

DhtServiceFailed(t, s) ==
  Out(t, IF t.pending_by_service[s] = {} THEN {} ELSE {DhtGetProviders(s)})

\* aborted: the error is the one of a dial the swarm itself aborted.
TunnelDialFailed(t, p, aborted, asg, now) ==
  LET awaiting == t.awaiting_holepunch[p] # {}
      pending  == t.pending_by_peer[p] # {}
      session  == t.holepunch_sessions[p]
  IN  IF awaiting /\ aborted THEN Out(t, {})
      ELSE IF awaiting /\ HasSession(t, p)
      THEN IF session.phase = "WaitingDisconnect" \/ session.dial_retry_dispatched
           THEN Out(t, {})
           ELSE Out([t EXCEPT !.holepunch_sessions[p].dial_retry_dispatched = TRUE],
                    {RedialCommand(t, p, now)})
      ELSE IF pending THEN reroute_specs_after_dial_failure(t, p, asg)
      ELSE Out(t, {})

PeerIdentified(t, p, listen_addrs, now) ==
  Out(update_address_oracle(t, p, listen_addrs, now), {})

\* A mutation of TunnelPeerConnected: only wanted peers are marked as relayed.
BugMarkOnlyWanted(t, p, relayed) ==
  LET specs == t.pending_by_peer[p]
      idle  == [clear_retry_state(t, p) EXCEPT
                  !.relayed_peers = @ \ {p},
                  !.pending_by_peer[p] = {},
                  !.awaiting_holepunch[p] = {}]
  IN  IF relayed
      THEN Out([t EXCEPT !.relayed_peers = IF specs = {} THEN @ ELSE @ \cup {p},
                         !.pending_by_peer[p] = {},
                         !.awaiting_holepunch[p] = @ \cup specs], {})
      ELSE Out(idle, SpawnAll(p, specs \cup t.awaiting_holepunch[p]))

\* A relayed connection: the pending requests wait for a direct one.  A direct
\* connection: all requests for the peer are opened.
TunnelPeerConnected(t, p, relayed) ==
  LET specs == t.pending_by_peer[p]
      idle  == [clear_retry_state(t, p) EXCEPT
                  !.relayed_peers = @ \ {p},
                  !.pending_by_peer[p] = {},
                  !.awaiting_holepunch[p] = {}]
  IN  IF relayed
      THEN Out([t EXCEPT !.relayed_peers = @ \cup {p},
                         !.pending_by_peer[p] = {},
                         !.awaiting_holepunch[p] = @ \cup specs], {})
      ELSE Out(idle, SpawnAll(p, specs \cup t.awaiting_holepunch[p]))

HolePunchAttemptStarted(t, p, id) == Out(begin_holepunch_attempt(t, p, id), {})

\* HolePunchAttemptFailed and HolePunchAttemptTimeout differ in the log only.
HolePunchAttemptFailed(t, p, id) == retry_holepunch_attempt(t, p, id)

\* A mutation of ConnectionLostAll: the requests look for another provider.
BugLostToService(t, p, now) ==
  LET awaiting == t.awaiting_holepunch[p]
      For(s)   == {x \in awaiting : ServiceOf[x] = s}
  IN  IF p \in t.pending_retry_redial
      THEN Out([t EXCEPT !.relayed_peers = @ \ {p}, !.pending_retry_redial = @ \ {p}],
               {RedialCommand(t, p, now)})
      ELSE Out([clear_retry_state(t, p) EXCEPT
                  !.relayed_peers = @ \ {p},
                  !.awaiting_holepunch[p] = {},
                  !.pending_by_service = [s \in Services |-> @[s] \cup For(s)]],
               {DhtGetProviders(s) : s \in {r \in Services : For(r) # {}}})

\* The last connection is gone (ConnectionLost with no remaining one): redial
\* for the retry that asked for it, or because requests were waiting.
ConnectionLostAll(t, p, now) ==
  LET lost == [t EXCEPT !.relayed_peers = @ \ {p}]
      awaiting == t.awaiting_holepunch[p]
      requeued == [clear_retry_state(lost, p) EXCEPT
                     !.awaiting_holepunch[p] = {},
                     !.pending_by_peer[p] = @ \cup awaiting]
  IN  IF p \in t.pending_retry_redial
      THEN Out([lost EXCEPT
                  !.pending_retry_redial = @ \ {p},
                  !.holepunch_sessions[p].phase =
                     IF HasSession(t, p) THEN "WaitingRedial" ELSE @],
               {RedialCommand(t, p, now)})
      ELSE Out(requeued, IF awaiting = {} THEN {} ELSE {DialPeer(p)})

-----------------------------------------------------------------------------
(* The requests in the terms of TunnelRequests *)

At(stage, p) == [stage |-> stage, peer |-> p]

\* The place of a request that is not open.
WaitingPlace(t, x) ==
  LET Waits(f) == {p \in Peers : x \in f[p]}
  IN  IF Waits(t.awaiting_holepunch) # {}
      THEN At("held", CHOOSE p \in Waits(t.awaiting_holepunch) : TRUE)
      ELSE IF Waits(t.pending_by_peer) # {}
      THEN At("pending", CHOOSE p \in Waits(t.pending_by_peer) : TRUE)
      ELSE At("searching", NoPeer)
=============================================================================
