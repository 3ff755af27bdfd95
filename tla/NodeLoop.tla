------------------------------ MODULE NodeLoop ------------------------------
(***************************************************************************)
(* The event loop of a node (src/src/node/mod.rs): the connection tracker  *)
(* and the tunnel machine coupled through one swarm.  Each action is one   *)
(* iteration of the loop: the bookkeeping, the synthetic and translated    *)
(* events in order, each transition's commands executed against the swarm  *)
(* (src/src/node/execute.rs), and the arming of hole-punch attempts after  *)
(* each event.                                                             *)
(*                                                                         *)
(* The swarm is external.  It is modelled by what the loop sees of it: a   *)
(* pool of dials and connections, the queries of the DHT, and which of its *)
(* possible misbehaviours (Faults) a run allows.  A ConnectionId that is   *)
(* gone is free again: nothing refers to it (TrackedDialsAreCurrent).      *)
(* The phase of the node is seen only through the PhaseChanged(Ready)      *)
(* events it causes.                                                       *)
(***************************************************************************)
EXTENDS TunnelMachine, ConnectionTracker

CONSTANTS
  BootstrapPeers,    \* the targets that are bootstrap peers of the node, too
  Faults,            \* the misbehaviours the swarm may show, see AllFaults
  MaxAttempts,       \* bound: hole-punch attempts per peer
  MaxQueries,        \* bound: concurrent DHT queries per key
  MaxPhaseChanges    \* bound: times the node becomes ready

AllFaults ==
  {"dial_error",       \* a dial fails
   "no_addresses",     \* swarm.dial refuses at once
   "behaviour_dial",   \* another behaviour (DCUtR, Kademlia) dials the peer
   "incoming",         \* the peer connects to the node
   "direct",           \* a connection may turn out to be direct
   "closed"}           \* a connection breaks

ASSUME NodeAssumption ==
  /\ IsFiniteSet(Peers) /\ BootstrapPeers \subseteq Peers
  /\ Faults \subseteq AllFaults
  /\ MaxAttempts \in Nat /\ MaxQueries \in Nat /\ MaxPhaseChanges \in Nat

VARIABLES
  tunnel,         \* app_state.tunnel
  cs,             \* connection_state
  direct_peers,   \* ctx.direct_peers, the registry of directly reachable peers
  pool,           \* external: the swarm's dials and connections
  lookups,        \* ctx.kad_tunnel_queries: open DHT lookups per peer
  queries,        \* ctx.kad_service_queries: open provider queries per service
  pending_reconnects,  \* the bootstrap peers whose reconnect timer runs
  phase_changes,  \* how often the node became ready
  opened,         \* how each request was handed to SpawnTunnel, see Opening
  spent           \* history: the last attempt of each peer that was left behind, see Spend

vars == <<tunnel, cs, direct_peers, pool, lookups, queries, pending_reconnects,
          phase_changes, opened, spent>>

\* The loop reads the clock for the age of addresses; here none expires.
Now == 1

-----------------------------------------------------------------------------
(* The swarm *)

Free == [peer |-> NoPeer, stage |-> "free"]
Slot(p, stage) == [peer |-> p, stage |-> stage]

DialStages == {"dialing", "aborted"}
RelayedStages == {"relayed", "closing_relayed"}
DirectStages == {"direct", "closing_direct"}
OpenStages == RelayedStages \cup DirectStages

In(pl, p, stages) == {c \in ConnIds : pl[c].peer = p /\ pl[c].stage \in stages}

\* Swarm::is_connected: connections that are being closed count.
is_connected(pl, p) == In(pl, p, OpenStages) # {}

IsDialing(pl, p) == In(pl, p, DialStages) # {}

\* disconnect_peer_id: connections begin to close, dials are aborted.
Disconnect(pl, p) ==
  [c \in ConnIds |->
    IF pl[c] = Slot(p, "relayed") THEN Slot(p, "closing_relayed")
    ELSE IF pl[c] = Slot(p, "direct") THEN Slot(p, "closing_direct")
    ELSE IF pl[c] = Slot(p, "dialing") THEN Slot(p, "aborted")
    ELSE pl[c]]

\* swarm.dial with PeerCondition::NotDialing: the pools it may leave behind.
DialOutcomes(pl, p, withAddrs) ==
  IF IsDialing(pl, p) THEN {pl}
  ELSE {[pl EXCEPT ![c] = Slot(p, "dialing")] : c \in {d \in ConnIds : pl[d] = Free}}
       \cup (IF "no_addresses" \in Faults /\ ~withAddrs THEN {pl} ELSE {})

-----------------------------------------------------------------------------
(* Executing commands, and arming attempts *)

\* The pools that executing cmds may leave behind.  A transition returns at
\* most one command that touches connections.
PoolAfter(pl, cmds) ==
  IF \E p \in Peers : DisconnectPeer(p) \in cmds
  THEN {Disconnect(pl, p) : p \in {q \in Peers : DisconnectPeer(q) \in cmds}}
  ELSE IF \E c \in cmds : c.type \in {"DialPeer", "DialPeerWithAddrs"}
  THEN UNION {DialOutcomes(pl, c.peer, c.type = "DialPeerWithAddrs") :
                c \in {d \in cmds : d.type \in {"DialPeer", "DialPeerWithAddrs"}}}
  ELSE {pl}

\* What SpawnTunnel finds: the peer, the best connection to it in the swarm
\* and the retries spent before.
NotOpened == [peer |-> NoPeer, over |-> "nothing", retries |-> 0]
Opening(pl, p) ==
  [peer |-> p,
   over |-> IF In(pl, p, DirectStages) # {} THEN "direct"
            ELSE IF In(pl, p, {"relayed"}) # {} THEN "relayed"
            ELSE IF is_connected(pl, p) THEN "closing" ELSE "nothing",
   retries |-> tunnel.holepunch_retry_attempts[p]]

\* execute_commands, on the pool pl and with ls and qs queries open.
Execute(cmds, pl, ls, qs) ==
  /\ pool' \in PoolAfter(pl, cmds)
  /\ lookups' = [p \in Peers |-> IF DhtLookupPeer(p) \in cmds THEN ls[p] + 1 ELSE ls[p]]
  /\ queries' = [s \in Services |->
                   IF DhtGetProviders(s) \in cmds THEN qs[s] + 1 ELSE qs[s]]
  /\ opened' = [x \in Specs |-> IF x \in SpawnedBy(cmds)
                  THEN Opening(pl, SpawnPeer(cmds, x))
                  ELSE opened[x]]
  /\ \A p \in Peers : lookups'[p] <= MaxQueries
  /\ \A s \in Services : queries'[s] <= MaxQueries

\* A mutation of Armed: nothing is armed after an event.
BugNeverArm(t, k) == {}

\* The peers arm_hole_punch_for_tunnel_targets starts an attempt for.
Armed(t, k) == {p \in holepunch_target_peers(t) : MayStartAttempt(k, p)}

\* arm_hole_punch_for_tunnel_targets: attempts of different peers do not
\* affect each other, and HolePunchAttemptStarted returns no commands.
Arm(t, k) ==
  LET id(p) == k.hole_punch_attempt_seq[p] + 1
      On(f) == [p \in Peers |-> IF p \in Armed(t, k) THEN id(p) ELSE f[p]]
  IN  /\ tunnel' = [t EXCEPT !.holepunch_sessions =
                      [p \in Peers |-> IF p \in Armed(t, k)
                         THEN begin_holepunch_attempt(t, p, id(p)).holepunch_sessions[p]
                         ELSE @[p]]]
      /\ cs' = [k EXCEPT !.hole_punch_attempt_seq = On(@),
                         !.hole_punch_attempts = On(@),
                         !.hole_punch_deadlines = On(@)]
      /\ \A p \in Peers : cs'.hole_punch_attempt_seq[p] <= MaxAttempts

\* One domain event of the loop: its transition, its commands, the arming.
\* (The quantifiers over one value make TLC compute it once.)
Process(out, k, pl, ls, qs) ==
  \E o \in {out}, k1 \in {k}, pl1 \in {pl} :
    Arm(o.state, k1) /\ Execute(o.commands, pl1, ls, qs)

-----------------------------------------------------------------------------
(* Iterations of the loop *)

\* Every bootstrap peer is dialled at start.
BootstrapDials ==
  {pl \in [ConnIds -> {Free} \cup {Slot(p, "dialing") : p \in BootstrapPeers}] :
     \A p \in BootstrapPeers : Cardinality(In(pl, p, DialStages)) = 1}

Init ==
  /\ tunnel = InitialTunnels
  /\ cs = NoConnections
  /\ direct_peers = {}
  /\ pool \in BootstrapDials
  /\ lookups = [p \in Peers |-> 0]
  /\ queries = [s \in Services |-> 0]
  /\ pending_reconnects = {}
  /\ phase_changes = 0
  /\ opened = [x \in Specs |-> NotOpened]
  /\ spent = [p \in Peers |-> 0]

\* Any event that makes the node ready; the tunnel machine sees PhaseChanged.
BecomeReady ==
  /\ phase_changes < MaxPhaseChanges
  /\ phase_changes' = phase_changes + 1
  /\ Process(PhaseChangedReady(tunnel), cs, pool, lookups, queries)
  /\ UNCHANGED <<direct_peers, pending_reconnects, spent>>

LookupDone(p) ==
  /\ lookups[p] > 0
  /\ Process(DhtPeerLookupComplete(tunnel, p, is_connected(pool, p)), cs, pool,
             [lookups EXCEPT ![p] = @ - 1], queries)
  /\ UNCHANGED <<direct_peers, pending_reconnects, phase_changes, spent>>

\* Connected providers come first (translate_get_providers); the rest of the
\* order is that of the printed peer ids.
ProvidersFound(s, found) ==
  /\ queries[s] > 0
  /\ found # {}
  /\ \E order \in SetToSeqs(found) :
       /\ \A i, j \in DOMAIN order :
            is_connected(pool, order[j]) /\ ~is_connected(pool, order[i]) => j < i
       /\ Process(DhtServiceResolved(tunnel, s,
                    [i \in DOMAIN order |->
                       [peer |-> order[i], connected |-> is_connected(pool, order[i])]]),
                  cs, pool, lookups, [queries EXCEPT ![s] = @ - 1])
  /\ UNCHANGED <<direct_peers, pending_reconnects, phase_changes, spent>>

ProvidersNotFound(s) ==
  /\ queries[s] > 0
  /\ Process(DhtServiceFailed(tunnel, s), cs, pool, lookups, [queries EXCEPT ![s] = @ - 1])
  /\ UNCHANGED <<direct_peers, pending_reconnects, phase_changes, spent>>

\* The failure of attempt id ends in the relay fallback.
FallsBack(p, id) == RetryApplies(tunnel, p, id) /\ RetriesExhausted(tunnel, p)

\* The history of the attempts that the code leaves behind: in the tracker they stay
\* active, so no other attempt starts, but the node has no deadline that would end
\* them.  An attempt is left behind by the relay fallback (tunnel.rs:476), which
\* tells the tracker nothing; by a deadline that passes while nobody waits, as an
\* attempt has one deadline; and by the loss of the last tracked connection while
\* the swarm still counts one that is being closed (connection_state.rs:173).
Spend(p, id, over) == spent' = IF over THEN [spent EXCEPT ![p] = id] ELSE spent

\* ConnectionEstablished over a relay: the tracker, then the attempt if the
\* peer is wanted, then TunnelPeerConnected.
RelayedEstablished(p, c) ==
  LET k       == on_relayed_established(cs, p, c)
      starts  == has_holepunch_intent(tunnel, p) /\ MayStartAttempt(k, p)
      k2      == IF starts THEN start_hole_punch_attempt(k, p) ELSE k
      t       == IF starts THEN begin_holepunch_attempt(tunnel, p, k2.hole_punch_attempts[p])
                 ELSE tunnel
  IN  /\ Process(TunnelPeerConnected(t, p, TRUE), k2,
                 [pool EXCEPT ![c] = Slot(p, "relayed")], lookups, queries)
      /\ pending_reconnects' = pending_reconnects \ {p}
      /\ UNCHANGED <<direct_peers, phase_changes, spent>>

\* A direct connection: the attempt is complete, the peer is registered as
\* direct and its relayed connections are closed.
DirectEstablished(p, c) ==
  LET k      == on_direct_established(cs, p, c)
      closed == [d \in ConnIds |-> IF d \in cs.relayed_connections[p]
                                      /\ pool[d].stage = "relayed"
                                   THEN Slot(p, "closing_relayed") ELSE pool[d]]
  IN  /\ Process(TunnelPeerConnected(tunnel, p, FALSE), k,
                 [closed EXCEPT ![c] = Slot(p, "direct")], lookups, queries)
      /\ direct_peers' = direct_peers \cup {p}
      /\ pending_reconnects' = pending_reconnects \ {p}
      /\ UNCHANGED <<phase_changes, spent>>

\* A dial comes through, even one whose abort came too late.
DialEstablished(p, c) ==
  /\ c \in In(pool, p, DialStages)
  /\ \/ RelayedEstablished(p, c)
     \/ "direct" \in Faults /\ DirectEstablished(p, c)

IncomingEstablished(p, c) ==
  /\ "incoming" \in Faults
  /\ pool[c] = Free
  /\ \/ RelayedEstablished(p, c)
     \/ "direct" \in Faults /\ DirectEstablished(p, c)

\* ConnectionClosed: the tracker, the registry, then ConnectionLost with the
\* number of connections still tracked.
CloseHandler(p, c) ==
  LET remaining == Cardinality(In(pool, p, OpenStages) \ {c})
      k         == on_connection_closed(cs, p, c, remaining)
      out       == IF Untracked(k, p) THEN ConnectionLostAll(tunnel, p, Now)
                   ELSE Out(tunnel, {})
  IN  /\ Process(out, k, [pool EXCEPT ![c] = Free], lookups, queries)
      /\ direct_peers' = IF clear_direct_registry(cs, p, c, remaining)
                         THEN direct_peers \ {p} ELSE direct_peers
      /\ pending_reconnects' = IF peer_fully_disconnected(cs, p, c, remaining)
                               THEN pending_reconnects \cup ({p} \cap BootstrapPeers)
                               ELSE pending_reconnects
      /\ Spend(p, k.hole_punch_attempts[p], Untracked(k, p))
      /\ UNCHANGED phase_changes

\* A connection the node closed is gone.
CloseCompletes(p, c) ==
  /\ c \in In(pool, p, {"closing_relayed", "closing_direct"})
  /\ CloseHandler(p, c)

ConnectionBreaks(p, c) ==
  /\ "closed" \in Faults
  /\ c \in In(pool, p, {"relayed", "direct"})
  /\ CloseHandler(p, c)

\* SwarmEvent::Dialing of another behaviour.
BehaviourDial(p, c) ==
  /\ "behaviour_dial" \in Faults
  /\ pool[c] = Free
  /\ pool' = [pool EXCEPT ![c] = Slot(p, "dialing")]
  /\ cs' = on_dialing(cs, p, c)
  /\ UNCHANGED <<tunnel, direct_peers, lookups, queries, pending_reconnects, phase_changes,
                 opened, spent>>

\* A mutation of Rescheduled: the failed dial of a bootstrap peer is the end.
BugNoReschedule(p, pl) == pending_reconnects

\* The timers after a failed dial of p that left the pool pl.
Rescheduled(p, pl) ==
  IF p \in BootstrapPeers /\ ~is_connected(pl, p) THEN pending_reconnects \cup {p}
  ELSE pending_reconnects

\* OutgoingConnectionError: the tracker, the reconnect timer of a bootstrap peer,
\* and for all other peers TunnelDialFailed.
DialErrorHandler(p, c) ==
  LET k  == on_outgoing_connection_error(cs, c)
      pl == [pool EXCEPT ![c] = Free]
  IN  /\ IF p \in BootstrapPeers
         THEN tunnel' = tunnel /\ cs' = k /\ Execute({}, pl, lookups, queries)
         ELSE \E asg \in RerouteChoices(tunnel, p) :
                Process(TunnelDialFailed(tunnel, p, pool[c].stage = "aborted", asg, Now),
                        k, pl, lookups, queries)
      /\ pending_reconnects' = Rescheduled(p, pl)
      /\ UNCHANGED <<direct_peers, phase_changes, spent>>

DialFails(p, c) ==
  /\ "dial_error" \in Faults
  /\ c \in In(pool, p, {"dialing"})
  /\ DialErrorHandler(p, c)

AbortReported(p, c) ==
  /\ c \in In(pool, p, {"aborted"})
  /\ DialErrorHandler(p, c)

\* The reconnect timer of p is due: its address is dialled without a condition
\* (a refused dial only sets the timer again, see BootstrapLoop).
ReconnectDue(p) ==
  /\ p \in pending_reconnects
  /\ \E c \in ConnIds : pool[c] = Free /\ pool' = [pool EXCEPT ![c] = Slot(p, "dialing")]
  /\ pending_reconnects' = pending_reconnects \ {p}
  /\ UNCHANGED <<tunnel, cs, direct_peers, lookups, queries, phase_changes, opened, spent>>

\* A DCUtR failure, made attempt-scoped by the loop; without an active attempt
\* it is dropped.
DcutrFailed(p) ==
  /\ cs.hole_punch_attempts[p] # 0
  /\ Process(HolePunchAttemptFailed(tunnel, p, cs.hole_punch_attempts[p]), cs, pool,
             lookups, queries)
  /\ Spend(p, cs.hole_punch_attempts[p], FallsBack(p, cs.hole_punch_attempts[p]))
  /\ UNCHANGED <<direct_peers, pending_reconnects, phase_changes>>

\* The deadline of the attempt for p has passed.  This arm of the select does not
\* arm attempts.
HolePunchTimeout(p) ==
  LET id  == cs.hole_punch_deadlines[p]
      out == IF peer_is_relay_only(cs, p) THEN HolePunchAttemptFailed(tunnel, p, id)
             ELSE Out(tunnel, {})
  IN  /\ id # 0
      /\ cs' = take_due_hole_punch_timeouts(cs, {p})
      /\ tunnel' = out.state
      /\ Execute(out.commands, pool, lookups, queries)
      /\ Spend(p, id, tunnel.awaiting_holepunch[p] = {} \/ FallsBack(p, id))
      /\ UNCHANGED <<direct_peers, pending_reconnects, phase_changes>>

Identified(p, listen_addrs) ==
  /\ is_connected(pool, p)
  /\ Process(PeerIdentified(tunnel, p, listen_addrs, Now), cs, pool, lookups, queries)
  /\ UNCHANGED <<direct_peers, pending_reconnects, phase_changes, spent>>

Next ==
  \/ BecomeReady
  \/ \E p \in Peers : LookupDone(p)
  \/ \E s \in Services, found \in SUBSET Peers : ProvidersFound(s, found)
  \/ \E s \in Services : ProvidersNotFound(s)
  \/ \E p \in Peers, c \in ConnIds : DialEstablished(p, c)
  \/ \E p \in Peers, c \in ConnIds : IncomingEstablished(p, c)
  \/ \E p \in Peers, c \in ConnIds : CloseCompletes(p, c)
  \/ \E p \in Peers, c \in ConnIds : ConnectionBreaks(p, c)
  \/ \E p \in Peers, c \in ConnIds : BehaviourDial(p, c)
  \/ \E p \in Peers, c \in ConnIds : DialFails(p, c)
  \/ \E p \in Peers, c \in ConnIds : AbortReported(p, c)
  \/ \E p \in BootstrapPeers : ReconnectDue(p)
  \/ \E p \in Peers : DcutrFailed(p)
  \/ \E p \in Peers : HolePunchTimeout(p)
  \/ \E p \in Peers, listen_addrs \in SUBSET Addrs : Identified(p, listen_addrs)

Spec == Init /\ [][Next]_vars

\* What the code's scheduling guarantees.  The loop polls the swarm and its
\* timers for ever, so an event that stays available is handled: the node
\* becomes ready, queries finish (Kademlia ends each after a timeout), a dial
\* ends one way or the other, a close or an abort that was asked for is
\* reported, deadlines and timers fire.  Nothing is assumed of DCUtR, of incoming
\* connections or of other dials.
Fairness ==
  /\ WF_vars(BecomeReady)
  /\ \A s \in Services :
       WF_vars(ProvidersNotFound(s) \/ \E found \in SUBSET Peers : ProvidersFound(s, found))
  /\ \A p \in Peers :
       /\ WF_vars(LookupDone(p))
       /\ WF_vars(\E c \in ConnIds : DialEstablished(p, c) \/ DialFails(p, c))
       /\ WF_vars(\E c \in ConnIds : CloseCompletes(p, c))
       /\ WF_vars(\E c \in ConnIds : AbortReported(p, c))
       /\ WF_vars(HolePunchTimeout(p))
  /\ \A p \in BootstrapPeers : WF_vars(ReconnectDue(p))

FairSpec == Spec /\ Fairness

-----------------------------------------------------------------------------
(* Properties *)

\* The two machines agree on the attempt a peer is in: a session that is
\* punching belongs to the attempt the tracker runs, and no session belongs to
\* an older attempt than the running one, so failures and timeouts, which carry
\* the id of the tracker, are neither lost nor applied to the wrong session.
SessionsFollowAttempts ==
  \A p \in Peers :
    LET session == tunnel.holepunch_sessions[p]
        attempt == cs.hole_punch_attempts[p]
    IN  /\ session.phase = "Punching" => session.attempt_id = attempt
        /\ session.phase # "None" /\ attempt # 0 => session.attempt_id = attempt

\* The registry that tells tunnel tasks whether a peer is directly reachable
\* is right after every iteration: it holds exactly the peers with an open
\* direct connection.
RegistryMatchesConnections ==
  direct_peers = {p \in Peers : In(pool, p, DirectStages) # {}}

\* relayed_peers is never behind the connections: a peer reachable over a
\* relay only is in it (its requests wait), and a peer without tracked
\* connections is not.
RelayedPeersAreConnected ==
  \A p \in Peers :
    /\ peer_is_relay_only(cs, p) => p \in tunnel.relayed_peers
    /\ p \in tunnel.relayed_peers => ~Untracked(cs, p)

\* A tunnel task starts on a connected peer, and over a relayed connection
\* only when the retries are used up.
TunnelsOpenOnTheRightPath ==
  \A x \in Specs :
    /\ opened[x] # NotOpened => opened[x].over # "nothing"
    /\ opened[x].over = "relayed" => opened[x].retries = MAX_RELAY_RECONNECT_RETRIES

\* Whoever waits for a direct path over a relayed connection is being punched for,
\* however the requests got there: the tracker has an attempt for the peer, and
\* either the session of that attempt is punching and its deadline still to come,
\* or the retry has asked for the connections to be closed and waits to redial, or
\* the attempt is one of those the code leaves behind, see Spend.
WaitersArePunchedFor ==
  \A p \in Peers :
    LET attempt == cs.hole_punch_attempts[p]
        phase   == tunnel.holepunch_sessions[p].phase
    IN  tunnel.awaiting_holepunch[p] # {} /\ peer_is_relay_only(cs, p)
          => /\ attempt # 0
             /\ \/ phase = "Punching" /\ cs.hole_punch_deadlines[p] = attempt
                \/ phase = "WaitingDisconnect" /\ p \in tunnel.pending_retry_redial
                \/ spent[p] = attempt

\* Once the node is ready, requests that wait for a service always have a
\* provider query on its way.
ServiceRequestsAreDriven ==
  \A s \in Services :
    phase_changes > 0 /\ tunnel.pending_by_service[s] # {} => queries[s] > 0

\* Once the node is ready, and as long as the swarm refuses no dial at once, requests
\* that wait for a peer always have a lookup or a dial on its way.  The tunnel
\* machine never hears of the failed dials of a bootstrap peer: there it may be
\* the reconnect timer, or a connection that is still being closed, whose end
\* sets the timer.  Requests that share the peer with others that already wait for
\* a direct path are left out: their session may swallow the failure of the dial.
PeerRequestsAreDriven ==
  "no_addresses" \notin Faults =>
    \A p \in Peers :
      /\ phase_changes > 0
      /\ tunnel.pending_by_peer[p] # {}
      /\ tunnel.awaiting_holepunch[p] = {}
      => \/ lookups[p] > 0
         \/ IsDialing(pool, p)
         \/ p \in pending_reconnects
         \/ p \in BootstrapPeers /\ In(pool, p, {"closing_relayed"}) # {}

\* The place of a request in the terms of TunnelRequests.
PlaceOf(x) ==
  IF opened[x] # NotOpened THEN At("open", opened[x].peer) ELSE WaitingPlace(tunnel, x)

Requests == INSTANCE TunnelRequests WITH place <- [x \in Specs |-> PlaceOf(x)]

\* The running node keeps the promises of TunnelRequests: an iteration of the loop,
\* with all its synthetic events, commands and attempts it arms, moves requests
\* in one of the ways promised there or not at all.  A tunnel is opened once, on
\* the peer its request waited for, and for good, however dials, closes, failures
\* and DHT answers interleave.
LoopImplementsTunnelRequests == Requests!Spec

\* README.md: punchgate "falls back to relay when retries are exhausted".  A
\* request that waits for a direct path does not wait for ever: the attempts
\* of its peer end with a direct connection or with the relay fallback.
FallsBackToRelay ==
  \A p \in Peers :
    tunnel.awaiting_holepunch[p] # {} ~> tunnel.awaiting_holepunch[p] = {}

\* Every request is opened in the end, through lookup, dial, hole punch,
\* reconnects and fallback, when dials succeed and connections last.
RequestsAreOpened == \A x \in Specs : <>(opened[x] # NotOpened)
=============================================================================
