--------------------------- MODULE NodeLoopProofs ---------------------------
(***************************************************************************)
(* Proofs about the event loop, for every number of peers, services,       *)
(* requests and connections, every set of faults and every bound: seven    *)
(* invariants of NodeLoop, and that it implements TunnelRequests.  None of *)
(* the invariants is inductive by itself; IInv is, and AInv, which says of *)
(* what kind an attempt in the tracker is, beside it.                      *)
(* Its first part, Coupled, says how tunnel machine, tracker and swarm     *)
(* agree; LooksUp says that a connected peer with pending requests is      *)
(* being looked up, which is what is left of those requests when the       *)
(* connections change.                                                     *)
(*                                                                         *)
(* An iteration is proved in two halves.  ProcessPreservesIInv is about    *)
(* executing and arming, once for all events: it needs an outcome that is  *)
(* Fit for the swarm it is executed on and a state that is Coupled.  Then  *)
(* each event is shown to bring that about, from what its transition does  *)
(* to the requests and sessions (the ...Outcome lemmas) and, for events    *)
(* about one peer, from what happens at that peer alone (EventAboutOne).   *)
(*                                                                         *)
(* The refinement needs one invariant more, CInv: every request is at one  *)
(* place.  What a transition does to the places was shown once in          *)
(* TunnelMachineProofs (EffectIsRequestStep); here remain the attempts     *)
(* that are begun before an event or armed after it, which move nothing,   *)
(* and that the loop executes every SpawnTunnel of a transition.           *)
(***************************************************************************)
EXTENDS NodeLoop, TunnelMachineProofs, ConnectionTrackerProofs, FiniteSetTheorems

\* The tracker knows the direct connections of the swarm, and of the relayed ones
\* at least those that nobody closes.
Tracks(k, pl) ==
  /\ k \in TrackerStates
  /\ pl \in [ConnIds -> {pl[c] : c \in ConnIds}]
  /\ \A p \in Peers :
       /\ k.direct_connections[p] = In(pl, p, DirectStages)
       /\ k.relayed_connections[p] \subseteq In(pl, p, RelayedStages)
       /\ In(pl, p, {"relayed"}) \subseteq k.relayed_connections[p]

\* The tunnel machine agrees with the tracker on who is relayed: a peer with
\* relayed connections is, a peer without connections is not.
Relays(t, k) ==
  \A p \in Peers :
    /\ has_relayed_connection(k, p) => p \in t.relayed_peers
    /\ p \in t.relayed_peers => ~Untracked(k, p)

\* The two agree on attempts: SessionsFollowAttempts, and who is punching is
\* connected.
Punches(t, k) ==
  \A p \in Peers :
    LET session == t.holepunch_sessions[p]
        attempt == k.hole_punch_attempts[p]
    IN  /\ session.phase = "Punching" => session.attempt_id = attempt /\ ~Untracked(k, p)
        /\ session.phase # "None" /\ attempt # 0 => session.attempt_id = attempt

\* The tunnel machine t, the tracker k and the swarm pl agree.
Coupled(t, k, pl) ==
  /\ MachineOK(t)
  /\ Owned(t)
  /\ Tracks(k, pl)
  /\ Relays(t, k)
  /\ Punches(t, k)

\* Requests that are pending for a connected peer are looked up.
LooksUp(t, k, ls) ==
  \A p \in Peers : t.pending_by_peer[p] # {} /\ ~Untracked(k, p) => ls[p] > 0

\* Who waits over a relayed connection has an attempt in the tracker: what arming
\* sees to.  Whether that attempt runs is said by Alive.
WaitersHaveAnAttempt ==
  \A p \in Peers :
    tunnel.awaiting_holepunch[p] # {} /\ peer_is_relay_only(cs, p)
      => cs.hole_punch_attempts[p] # 0

\* The inductive invariant.
IInv ==
  /\ Coupled(tunnel, cs, pool)
  /\ lookups \in [Peers -> Nat] /\ queries \in [Services -> Nat] /\ phase_changes \in Nat
  /\ RegistryMatchesConnections
  /\ WaitersHaveAnAttempt
  /\ TunnelsOpenOnTheRightPath
  /\ LooksUp(tunnel, cs, lookups)
  /\ ServiceRequestsAreDriven
  /\ PeerRequestsAreDriven

-----------------------------------------------------------------------------
(* The swarm *)

\* What executing commands may do to the connections: some begin to close, dials
\* are begun or aborted, nothing opens and nothing is gone.
Continues(pl, pl2) ==
  /\ pl2 \in [ConnIds -> {pl2[c] : c \in ConnIds}]
  /\ \A p \in Peers :
       /\ In(pl2, p, DirectStages) = In(pl, p, DirectStages)
       /\ In(pl2, p, RelayedStages) = In(pl, p, RelayedStages)
       /\ In(pl2, p, {"relayed"}) \subseteq In(pl, p, {"relayed"})
       /\ In(pl, p, {"closing_relayed"}) \subseteq In(pl2, p, {"closing_relayed"})
       /\ IsDialing(pl, p) => IsDialing(pl2, p)

\* disconnect_peer_id begins to close what is open and aborts dials.
LEMMA DisconnectFacts ==
  ASSUME NEW pl, NEW p, pl \in [ConnIds -> {pl[c] : c \in ConnIds}]
  PROVE  Continues(pl, Disconnect(pl, p))
<1> DEFINE r == Disconnect(pl, p)
<1>1. r \in [ConnIds -> {r[c] : c \in ConnIds}]
  BY DEF Disconnect
<1>2. ASSUME NEW c \in ConnIds
      PROVE  \/ r[c] = pl[c]
             \/ pl[c] = Slot(p, "relayed") /\ r[c] = Slot(p, "closing_relayed")
             \/ pl[c] = Slot(p, "direct") /\ r[c] = Slot(p, "closing_direct")
             \/ pl[c] = Slot(p, "dialing") /\ r[c] = Slot(p, "aborted")
  BY DEF Disconnect
<1> HIDE DEF r
<1>3. ASSUME NEW c \in ConnIds
      PROVE  /\ r[c].peer = pl[c].peer
             /\ r[c].stage \in DirectStages <=> pl[c].stage \in DirectStages
             /\ r[c].stage \in RelayedStages <=> pl[c].stage \in RelayedStages
             /\ r[c].stage \in DialStages <=> pl[c].stage \in DialStages
             /\ r[c].stage = "relayed" => pl[c].stage = "relayed"
             /\ pl[c].stage = "closing_relayed" => r[c].stage = "closing_relayed"
  BY <1>2 DEF Slot, DirectStages, RelayedStages, DialStages
<1> QED BY <1>1, <1>3 DEF Continues, In, IsDialing, r

\* A dial that begins changes no connection.
LEMMA NewDialFacts ==
  ASSUME NEW pl, NEW p, pl \in [ConnIds -> {pl[d] : d \in ConnIds}],
         NEW c \in ConnIds, pl[c] = Free
  PROVE  LET r == [pl EXCEPT ![c] = Slot(p, "dialing")]
         IN  Continues(pl, r) /\ IsDialing(r, p)
<1> DEFINE r == [pl EXCEPT ![c] = Slot(p, "dialing")]
<1>1. \A d \in ConnIds \ {c} : r[d] = pl[d]
  OBVIOUS
<1>2. /\ r[c].stage = "dialing" /\ r[c].peer = p
      /\ pl[c].stage = "free"
  BY DEF Slot, Free
<1>3. r \in [ConnIds -> {r[d] : d \in ConnIds}]
  OBVIOUS
<1> HIDE DEF r
<1>4. Continues(pl, r) /\ IsDialing(r, p)
  BY <1>1, <1>2, <1>3 DEF Continues, In, IsDialing, DirectStages, RelayedStages, DialStages
<1> QED BY <1>4 DEF r

\* swarm.dial begins a dial or does nothing.
LEMMA DialFacts ==
  ASSUME NEW pl, NEW p, NEW withAddrs, pl \in [ConnIds -> {pl[c] : c \in ConnIds}],
         NEW r \in DialOutcomes(pl, p, withAddrs)
  PROVE  /\ Continues(pl, r)
         /\ "no_addresses" \notin Faults => IsDialing(r, p)
<1>1. r = pl => Continues(pl, r)
  BY DEF Continues
<1>2. ASSUME NEW c \in ConnIds, pl[c] = Free, r = [pl EXCEPT ![c] = Slot(p, "dialing")]
      PROVE  Continues(pl, r) /\ IsDialing(r, p)
  BY <1>2, NewDialFacts
<1>3. r = pl \/ \E c \in ConnIds : pl[c] = Free /\ r = [pl EXCEPT ![c] = Slot(p, "dialing")]
  BY DEF DialOutcomes
<1>4. "no_addresses" \notin Faults /\ r = pl => IsDialing(r, p)
  BY <1>2 DEF DialOutcomes
<1> QED BY <1>1, <1>2, <1>3, <1>4

\* Whatever the commands, connections only begin to close and dials begin.
LEMMA PoolFacts ==
  ASSUME NEW pl, NEW cmds, pl \in [ConnIds -> {pl[c] : c \in ConnIds}],
         NEW r \in PoolAfter(pl, cmds)
  PROVE  Continues(pl, r)
<1>1. \/ r = pl
      \/ \E p \in Peers : r = Disconnect(pl, p)
      \/ \E c \in cmds : r \in DialOutcomes(pl, c.peer, c.type = "DialPeerWithAddrs")
  BY DEF PoolAfter
<1>2. CASE r = pl
  BY <1>2 DEF Continues
<1> QED BY <1>1, <1>2, DisconnectFacts, DialFacts

\* A dial that is the only command is under way afterwards.
LEMMA DialCommandFacts ==
  ASSUME NEW pl, NEW p, pl \in [ConnIds -> {pl[c] : c \in ConnIds}],
         NEW r \in PoolAfter(pl, {DialPeer(p)}), "no_addresses" \notin Faults
  PROVE  IsDialing(r, p)
<1>1. ~ \E q \in Peers : DisconnectPeer(q) \in {DialPeer(p)}
  BY DEF DisconnectPeer, DialPeer
<1>2. DialPeer(p).type = "DialPeer" /\ DialPeer(p).peer = p
  BY DEF DialPeer
<1>3. r \in DialOutcomes(pl, DialPeer(p).peer, DialPeer(p).type = "DialPeerWithAddrs")
  BY <1>1, <1>2 DEF PoolAfter
<1>4. IsDialing(r, DialPeer(p).peer)
  BY <1>3, DialFacts
<1> QED BY <1>2, <1>4

\* The tracker hears of connections that open or are gone only.
LEMMA ContinuesTracked ==
  ASSUME NEW k, NEW pl, NEW r, Tracks(k, pl), Continues(pl, r)
  PROVE  Tracks(k, r)
  BY DEF Tracks, Continues

-----------------------------------------------------------------------------
(* Arming, and executing commands *)

\* What arming turns t and k into.
ArmedFrom(t, k) ==
  /\ MachineOK(tunnel') /\ SameRequests(t, tunnel') /\ SameRetries(t, tunnel')
  /\ cs' \in TrackerStates
  /\ cs'.relayed_connections = k.relayed_connections
  /\ cs'.direct_connections = k.direct_connections
  /\ \A p \in Peers :
       LET session == tunnel'.holepunch_sessions[p]
       IN  IF p \in Armed(t, k)
           THEN /\ session.phase = "Punching"
                /\ session.attempt_id = cs'.hole_punch_attempts[p]
                /\ cs'.hole_punch_attempts[p] # 0
                /\ cs'.hole_punch_deadlines[p] = cs'.hole_punch_attempts[p]
           ELSE /\ session = t.holepunch_sessions[p]
                /\ cs'.hole_punch_attempts[p] = k.hole_punch_attempts[p]
                /\ cs'.hole_punch_deadlines[p] = k.hole_punch_deadlines[p]

\* Arming starts an attempt in both machines, with one id.
LEMMA ArmFacts ==
  ASSUME NEW t, MachineOK(t), NEW k \in TrackerStates, Arm(t, k)
  PROVE  ArmedFrom(t, k)
<1> DEFINE id(p) == k.hole_punch_attempt_seq[p] + 1
           On(f) == [p \in Peers |-> IF p \in Armed(t, k) THEN id(p) ELSE f[p]]
           new(p) == [attempt_id |-> id(p), phase |-> "Punching",
                      relay_redial_addrs |-> t.address_oracle[p].relay,
                      direct_snapshot |-> t.address_oracle[p].direct,
                      dial_retry_dispatched |-> FALSE]
           sessions == [p \in Peers |-> IF p \in Armed(t, k) THEN new(p)
                                        ELSE t.holepunch_sessions[p]]
<1>1. \A p \in Peers : id(p) \in Nat /\ id(p) # 0
  BY DEF TrackerStates
<1>2. ASSUME NEW p \in Peers
      PROVE  begin_holepunch_attempt(t, p, id(p)).holepunch_sessions[p] = new(p)
  BY DEF begin_holepunch_attempt, MachineOK, SessionsOK
<1>3. [p \in Peers |-> IF p \in Armed(t, k)
         THEN begin_holepunch_attempt(t, p, id(p)).holepunch_sessions[p]
         ELSE t.holepunch_sessions[p]] = sessions
  BY <1>2
<1>4. tunnel' = [t EXCEPT !.holepunch_sessions = sessions]
  BY <1>3 DEF Arm
<1>5. cs' = [k EXCEPT !.hole_punch_attempt_seq = On(k.hole_punch_attempt_seq),
                      !.hole_punch_attempts = On(k.hole_punch_attempts),
                      !.hole_punch_deadlines = On(k.hole_punch_deadlines)]
  BY DEF Arm, TrackerStates
<1>6. SessionsOK(sessions)
  <2>1. \A p \in Peers : IsSession(new(p))
    BY DEF IsSession, Phases
  <2>2. \A p \in Peers : IsSession(t.holepunch_sessions[p])
    BY DEF MachineOK, SessionsOK
  <2> HIDE DEF new
  <2>3. \A p \in Peers : IsSession(sessions[p])
    BY <2>1, <2>2
  <2> QED BY <2>3 DEF SessionsOK
<1>7. \A p \in Peers : /\ new(p).phase = "Punching"
                       /\ new(p).attempt_id = id(p)
  OBVIOUS
<1> HIDE DEF new, sessions
<1>8. /\ MachineOK(tunnel') /\ SameRequests(t, tunnel') /\ SameRetries(t, tunnel')
      /\ tunnel'.holepunch_sessions = sessions
  BY <1>4, <1>6 DEF MachineOK, SameRequests, SameRetries
<1> HIDE DEF id
<1>9. /\ cs' \in TrackerStates
      /\ cs'.relayed_connections = k.relayed_connections
      /\ cs'.direct_connections = k.direct_connections
      /\ cs'.hole_punch_attempts = On(k.hole_punch_attempts)
      /\ cs'.hole_punch_deadlines = On(k.hole_punch_deadlines)
  BY <1>1, <1>5 DEF TrackerStates
<1> QED BY <1>1, <1>7, <1>8, <1>9 DEF ArmedFrom, sessions

\* After the arming the machines agree and everybody who waits over a relay has an
\* attempt.
LEMMA ArmCouples ==
  ASSUME NEW t, NEW k, NEW pl, Coupled(t, k, pl), Arm(t, k)
  PROVE  /\ Coupled(tunnel', cs', pl)
         /\ WaitersHaveAnAttempt'
         /\ ArmedFrom(t, k)
<1>1. ArmedFrom(t, k)
  BY ArmFacts DEF Coupled, Tracks
<1>2. \A p \in Armed(t, k) : p \in Peers /\ peer_is_relay_only(k, p)
  BY DEF Armed, holepunch_target_peers, MayStartAttempt
<1>3. Owned(tunnel')
  BY <1>1 DEF Coupled, Owned, ArmedFrom, SameRequests, SameRetries
<1>4. Tracks(cs', pl)
  BY <1>1 DEF Coupled, Tracks, ArmedFrom
<1>5. \A p \in Peers : /\ Untracked(cs', p) <=> Untracked(k, p)
                       /\ has_relayed_connection(cs', p) <=> has_relayed_connection(k, p)
                       /\ peer_is_relay_only(cs', p) <=> peer_is_relay_only(k, p)
  BY <1>1 DEF ArmedFrom, Untracked, peer_is_relay_only, has_relayed_connection,
              has_direct_connection
<1>6. Relays(tunnel', cs')
  BY <1>1, <1>5 DEF Coupled, Relays, ArmedFrom, SameRetries
<1>7. Punches(tunnel', cs')
  <2>1. \A p \in Armed(t, k) : ~Untracked(k, p)
    BY <1>2 DEF peer_is_relay_only, Untracked
  <2> QED BY <1>1, <1>5, <2>1 DEF Coupled, Punches, ArmedFrom
<1>8. WaitersHaveAnAttempt'
  <2> SUFFICES ASSUME NEW p \in Peers, tunnel'.awaiting_holepunch[p] # {},
                      peer_is_relay_only(cs', p)
               PROVE  cs'.hole_punch_attempts[p] # 0
    BY DEF WaitersHaveAnAttempt
  <2>1. t.awaiting_holepunch[p] # {} /\ peer_is_relay_only(k, p)
    BY <1>1, <1>5 DEF ArmedFrom, SameRequests
  <2>2. p \in Armed(t, k) \/ k.hole_punch_attempts[p] # 0
    BY <2>1 DEF Armed, holepunch_target_peers, has_holepunch_intent, MayStartAttempt
  <2> QED BY <1>1, <2>2 DEF ArmedFrom
<1> QED BY <1>1, <1>3, <1>4, <1>6, <1>7, <1>8 DEF Coupled, ArmedFrom

\* What the commands of o must do for the requests, on the pool pl and with ls and
\* qs queries open: tunnels open on connected peers, over a relay only when
\* the retries are used up; who is pending for a connected peer is looked up; who
\* searches has a query; who is pending for a peer has something under way.
OpensRightly(o, pl) ==
  \A p \in Peers, x \in Specs : SpawnTunnel(p, x) \in o.commands =>
    /\ is_connected(pl, p)
    /\ In(pl, p, DirectStages) = {} /\ In(pl, p, {"relayed"}) # {} =>
         tunnel.holepunch_retry_attempts[p] = MAX_RELAY_RECONNECT_RETRIES

KeepsLookingUp(o, k, ls) ==
  \A p \in Peers :
    o.state.pending_by_peer[p] # {} /\ ~Untracked(k, p)
      => ls[p] > 0 \/ DhtLookupPeer(p) \in o.commands

KeepsSearching(o, qs) ==
  \A s \in Services :
    phase_changes' > 0 /\ o.state.pending_by_service[s] # {}
      => qs[s] > 0 \/ DhtGetProviders(s) \in o.commands

KeepsDriving(o, pl, ls) ==
  "no_addresses" \notin Faults =>
    \A p \in Peers :
      /\ phase_changes' > 0
      /\ o.state.pending_by_peer[p] # {}
      /\ o.state.awaiting_holepunch[p] = {}
      => \/ ls[p] > 0
         \/ DhtLookupPeer(p) \in o.commands
         \/ IsDialing(pl, p)
         \/ o.commands = {DialPeer(p)}
         \/ p \in pending_reconnects'
         \/ p \in BootstrapPeers /\ In(pl, p, {"closing_relayed"}) # {}

\* An outcome o that is fit to be executed.
Fit(o, k, pl, ls, qs) ==
  /\ ls \in [Peers -> Nat] /\ qs \in [Services -> Nat]
  /\ OpensRightly(o, pl)
  /\ KeepsLookingUp(o, k, ls)
  /\ KeepsSearching(o, qs)
  /\ KeepsDriving(o, pl, ls)

\* Execute opens queries and records what is opened.
LEMMA ExecuteFacts ==
  ASSUME NEW cmds, NEW pl, NEW ls \in [Peers -> Nat], NEW qs \in [Services -> Nat],
         Execute(cmds, pl, ls, qs)
  PROVE  /\ lookups' \in [Peers -> Nat] /\ queries' \in [Services -> Nat]
         /\ \A p \in Peers : ls[p] > 0 \/ DhtLookupPeer(p) \in cmds => lookups'[p] > 0
         /\ \A s \in Services : qs[s] > 0 \/ DhtGetProviders(s) \in cmds => queries'[s] > 0
         /\ pool' \in PoolAfter(pl, cmds)
<1>1. /\ lookups' = [p \in Peers |-> IF DhtLookupPeer(p) \in cmds THEN ls[p] + 1 ELSE ls[p]]
      /\ queries' = [s \in Services |->
                       IF DhtGetProviders(s) \in cmds THEN qs[s] + 1 ELSE qs[s]]
      /\ pool' \in PoolAfter(pl, cmds)
  BY DEF Execute
<1>2. /\ lookups' \in [Peers -> Nat]
      /\ \A p \in Peers : ls[p] > 0 \/ DhtLookupPeer(p) \in cmds => lookups'[p] > 0
  BY <1>1
<1>3. /\ queries' \in [Services -> Nat]
      /\ \A s \in Services : qs[s] > 0 \/ DhtGetProviders(s) \in cmds => queries'[s] > 0
  BY <1>1
<1> QED BY <1>1, <1>2, <1>3

\* A tunnel that is opened rightly is recorded rightly.
LEMMA OpeningsAreRight ==
  ASSUME NEW o, NEW pl, NEW ls, NEW qs, OpensRightly(o, pl), TunnelsOpenOnTheRightPath,
         Execute(o.commands, pl, ls, qs)
  PROVE  TunnelsOpenOnTheRightPath'
<1> SUFFICES ASSUME NEW x \in Specs
             PROVE  /\ opened'[x] # NotOpened => opened'[x].over # "nothing"
                    /\ opened'[x].over = "relayed" =>
                         opened'[x].retries = MAX_RELAY_RECONNECT_RETRIES
  BY DEF TunnelsOpenOnTheRightPath
<1>1. CASE x \in SpawnedBy(o.commands)
  <2> DEFINE p == SpawnPeer(o.commands, x)
  <2>1. p \in Peers /\ SpawnTunnel(p, x) \in o.commands
    BY <1>1 DEF SpawnedBy, SpawnPeer
  <2>2. opened'[x] = Opening(pl, p)
    BY <1>1 DEF Execute
  <2> HIDE DEF p
  <2>3. /\ is_connected(pl, p)
        /\ In(pl, p, DirectStages) = {} /\ In(pl, p, {"relayed"}) # {} =>
             tunnel.holepunch_retry_attempts[p] = MAX_RELAY_RECONNECT_RETRIES
    BY <2>1 DEF OpensRightly
  <2> QED BY <2>2, <2>3 DEF Opening
<1>2. CASE x \notin SpawnedBy(o.commands)
  BY <1>2 DEF Execute, TunnelsOpenOnTheRightPath
<1> QED BY <1>1, <1>2

\* The execution of a fit outcome keeps the invariant.
LEMMA ExecutePreservesIInv ==
  ASSUME NEW o, NEW k, NEW pl, NEW ls, NEW qs, Fit(o, k, pl, ls, qs),
         TunnelsOpenOnTheRightPath,
         Coupled(tunnel', cs', pl), WaitersHaveAnAttempt',
         SameRequests(o.state, tunnel'),
         \A p \in Peers : Untracked(cs', p) <=> Untracked(k, p),
         phase_changes' \in Nat,
         direct_peers' = {p \in Peers : In(pl, p, DirectStages) # {}},
         Execute(o.commands, pl, ls, qs)
  PROVE  IInv'
<1>1. /\ lookups' \in [Peers -> Nat] /\ queries' \in [Services -> Nat]
      /\ \A p \in Peers : ls[p] > 0 \/ DhtLookupPeer(p) \in o.commands => lookups'[p] > 0
      /\ \A s \in Services : qs[s] > 0 \/ DhtGetProviders(s) \in o.commands => queries'[s] > 0
      /\ pool' \in PoolAfter(pl, o.commands)
  BY ExecuteFacts DEF Fit
<1>2. Continues(pl, pool')
  BY <1>1, PoolFacts DEF Coupled, Tracks
<1>3. Coupled(tunnel', cs', pool')
  BY <1>2, ContinuesTracked DEF Coupled
<1>4. RegistryMatchesConnections'
  BY <1>2 DEF RegistryMatchesConnections, Continues
<1>5. TunnelsOpenOnTheRightPath'
  BY OpeningsAreRight DEF Fit
<1>6. LooksUp(tunnel', cs', lookups')
  BY <1>1 DEF Fit, KeepsLookingUp, LooksUp, SameRequests
<1>7. ServiceRequestsAreDriven'
  BY <1>1 DEF Fit, KeepsSearching, ServiceRequestsAreDriven, SameRequests
<1>8. PeerRequestsAreDriven'
  <2> SUFFICES ASSUME "no_addresses" \notin Faults, NEW p \in Peers, phase_changes' > 0,
                      tunnel'.pending_by_peer[p] # {}, tunnel'.awaiting_holepunch[p] = {}
               PROVE  \/ lookups'[p] > 0
                      \/ IsDialing(pool', p)
                      \/ p \in pending_reconnects'
                      \/ p \in BootstrapPeers /\ In(pool', p, {"closing_relayed"}) # {}
    BY DEF PeerRequestsAreDriven
  <2>1. \/ ls[p] > 0
        \/ DhtLookupPeer(p) \in o.commands
        \/ IsDialing(pl, p)
        \/ o.commands = {DialPeer(p)}
        \/ p \in pending_reconnects'
        \/ p \in BootstrapPeers /\ In(pl, p, {"closing_relayed"}) # {}
    BY DEF Fit, KeepsDriving, SameRequests
  <2>2. o.commands = {DialPeer(p)} => IsDialing(pool', p)
    BY <1>1, DialCommandFacts DEF Coupled, Tracks
  <2> QED BY <1>1, <1>2, <2>1, <2>2 DEF Continues
<1> QED BY <1>1, <1>3, <1>4, <1>5, <1>6, <1>7, <1>8 DEF IInv

\* One event of the loop keeps the invariant if its outcome is fit and its state
\* agrees with the tracker and the swarm.
LEMMA ProcessPreservesIInv ==
  ASSUME NEW o, NEW k, NEW pl, NEW ls, NEW qs, Fit(o, k, pl, ls, qs),
         TunnelsOpenOnTheRightPath, Coupled(o.state, k, pl),
         phase_changes' \in Nat,
         direct_peers' = {p \in Peers : In(pl, p, DirectStages) # {}},
         Process(o, k, pl, ls, qs)
  PROVE  IInv'
<1>1. Arm(o.state, k) /\ Execute(o.commands, pl, ls, qs)
  BY DEF Process
<1>2. /\ Coupled(tunnel', cs', pl)
      /\ WaitersHaveAnAttempt'
      /\ ArmedFrom(o.state, k)
  BY <1>1, ArmCouples
<1>3. /\ SameRequests(o.state, tunnel')
      /\ \A p \in Peers : Untracked(cs', p) <=> Untracked(k, p)
  BY <1>2 DEF ArmedFrom, Untracked, has_relayed_connection, has_direct_connection
<1> QED BY <1>1, <1>2, <1>3, ExecutePreservesIInv

-----------------------------------------------------------------------------
(* Events that leave the connections alone *)

\* Sessions end or go on in another phase; none begins or begins to punch again.
GoOn(t, r) ==
  \A p \in Peers :
    LET old == t.holepunch_sessions[p]
        new == r.holepunch_sessions[p]
    IN  /\ new.phase # "None" => old.phase # "None" /\ new.attempt_id = old.attempt_id
        /\ new.phase = "Punching" => old.phase = "Punching"

\* A transition that keeps relayed_peers and begins no session keeps the agreement.
LEMMA CoupledGoesOn ==
  ASSUME NEW t, NEW k, NEW pl, Coupled(t, k, pl), NEW r, MachineOK(r), Owned(r),
         r.relayed_peers = t.relayed_peers, GoOn(t, r)
  PROVE  Coupled(r, k, pl)
  BY DEF Coupled, Relays, Punches, GoOn

\* What a good step opens on connected peers is opened rightly.
LEMMA GoodOpensRightly ==
  ASSUME NEW t, NEW o, NEW k, NEW pl, GoodStep(t, o), Coupled(o.state, k, pl),
         t.holepunch_retry_attempts = tunnel.holepunch_retry_attempts,
         \A p \in Peers, x \in Specs : SpawnTunnel(p, x) \in o.commands => is_connected(pl, p)
  PROVE  OpensRightly(o, pl)
  BY DEF GoodStep, Direct, Coupled, Tracks, Relays, has_relayed_connection, OpensRightly

\* A tracked connection is one of the swarm.
LEMMA TrackedIsConnected ==
  ASSUME NEW k, NEW pl, Tracks(k, pl), NEW p \in Peers, ~Untracked(k, p)
  PROVE  is_connected(pl, p)
  BY DEF Tracks, Untracked, has_relayed_connection, has_direct_connection, is_connected, In,
         OpenStages, RelayedStages, DirectStages

\* PhaseChanged(Ready) looks up everything that is pending.
LEMMA BecomeReadyPreservesIInv ==
  ASSUME IInv, BecomeReady
  PROVE  IInv'
<1> DEFINE o == PhaseChangedReady(tunnel)
<1>1. /\ o.state = tunnel
      /\ NoneOpened(o)
      /\ \A p \in Peers : tunnel.pending_by_peer[p] # {} => DhtLookupPeer(p) \in o.commands
      /\ \A s \in Services :
           tunnel.pending_by_service[s] # {} => DhtGetProviders(s) \in o.commands
  <2>1. o = Out(tunnel, {PublishServices} \cup initiate_lookups(tunnel))
    BY DEF PhaseChangedReady
  <2>2. NoneOpened(o)
    <3>1. \A c \in {PublishServices} \cup initiate_lookups(tunnel) : c.type # "SpawnTunnel"
      BY DEF initiate_lookups, PublishServices, DhtLookupPeer, DhtGetProviders
    <3>2. \A q, x : SpawnTunnel(q, x).type = "SpawnTunnel"
      BY DEF SpawnTunnel
    <3> QED BY <2>1, <3>1, <3>2 DEF NoneOpened, Out
  <2> QED BY <2>1, <2>2 DEF Out, initiate_lookups
<1>2. /\ Process(o, cs, pool, lookups, queries)
      /\ direct_peers' = direct_peers
      /\ phase_changes' = phase_changes + 1
  BY DEF BecomeReady
<1> HIDE DEF o
<1>3. Fit(o, cs, pool, lookups, queries)
  BY <1>1 DEF IInv, Fit, OpensRightly, NoneOpened, KeepsLookingUp, KeepsSearching, KeepsDriving
<1>4. direct_peers' = {p \in Peers : In(pool, p, DirectStages) # {}}
  BY <1>2 DEF IInv, RegistryMatchesConnections
<1>5. phase_changes' \in Nat
  BY <1>2 DEF IInv
<1> QED BY <1>1, <1>2, <1>3, <1>4, <1>5, ProcessPreservesIInv DEF IInv

\* What a finished lookup of p does: a connected peer has nothing pending
\* afterwards, another one is dialled.
LookedUp(t, o, p, connected) ==
  /\ connected => o.state.pending_by_peer[p] = {}
  /\ ~connected => o.state = t /\ NoneOpened(o)
  /\ ~connected /\ t.pending_by_peer[p] # {} => o.commands = {DialPeer(p)}

\* DhtPeerLookupComplete does that.
LEMMA LookupOutcome ==
  ASSUME NEW t, MachineOK(t), NEW p \in Peers, NEW connected \in BOOLEAN
  PROVE  LookedUp(t, DhtPeerLookupComplete(t, p, connected), p, connected)
<1> DEFINE o == DhtPeerLookupComplete(t, p, connected)
           specs == t.pending_by_peer[p]
           t0 == [t EXCEPT !.pending_by_peer[p] = {}]
<1>1. ~connected => /\ o.state = t /\ NoneOpened(o)
                    /\ specs # {} => o.commands = {DialPeer(p)}
  BY DEF DhtPeerLookupComplete, Out, NoneOpened, DialPeer, SpawnTunnel
<1>2. connected => o.state.pending_by_peer[p] = {}
  <2>1. CASE specs = {}
    BY <2>1 DEF DhtPeerLookupComplete, Out
  <2>2. CASE connected /\ specs # {}
    <3>1. o = route_connected_peer(t0, p, specs)
      BY <2>2 DEF DhtPeerLookupComplete
    <3>2. /\ MachineOK(t0)
          /\ t0.pending_by_peer[p] = {}
          /\ specs \in SUBSET Specs
      BY DEF MachineOK
    <3> HIDE DEF o, t0
    <3>3. Routed(t0, o, p, specs)
      BY <3>1, <3>2, RouteFacts
    <3> QED BY <3>2, <3>3 DEF Routed
  <2> QED BY <2>1, <2>2
<1> QED BY <1>1, <1>2 DEF LookedUp

\* A finished DHT lookup keeps the invariant.
LEMMA LookupDonePreservesIInv ==
  ASSUME IInv, NEW p \in Peers, LookupDone(p)
  PROVE  IInv'
<1> DEFINE connected == is_connected(pool, p)
           o == DhtPeerLookupComplete(tunnel, p, connected)
           ls == [lookups EXCEPT ![p] = @ - 1]
<1>1. /\ Process(o, cs, pool, ls, queries)
      /\ lookups[p] > 0
      /\ UNCHANGED <<direct_peers, pending_reconnects, phase_changes>>
  BY DEF LookupDone
<1>2. connected \in BOOLEAN /\ MachineOK(tunnel) /\ Owned(tunnel) /\ Tracks(cs, pool)
  BY DEF IInv, Coupled, is_connected
<1>3. /\ SameRetries(tunnel, o.state)
      /\ o.state.holepunch_sessions = tunnel.holepunch_sessions
      /\ \/ Stays(tunnel, o)
         \/ Holds(tunnel, o, p)
         \/ p \notin tunnel.relayed_peers /\ Opens(tunnel, o, p, tunnel.pending_by_peer[p], {})
  BY <1>2, LookupFacts, Zenon
<1>4. GoodStep(tunnel, o)
  BY <1>2, LookupStep, Zenon
<1>5. /\ connected => o.state.pending_by_peer[p] = {}
      /\ ~connected => o.state = tunnel /\ NoneOpened(o)
      /\ ~connected /\ tunnel.pending_by_peer[p] # {} => o.commands = {DialPeer(p)}
  <2>1. LookedUp(tunnel, o, p, connected)
    BY <1>2, LookupOutcome, Zenon
  <2> HIDE DEF o, connected
  <2> QED BY <2>1 DEF LookedUp
<1> HIDE DEF o
<1>6. ls \in [Peers -> Nat] /\ \A q \in Peers \ {p} : ls[q] = lookups[q]
  BY <1>1 DEF IInv
<1> HIDE DEF ls
<1>7. Coupled(o.state, cs, pool)
  <2>1. GoOn(tunnel, o.state)
    BY <1>3 DEF GoOn
  <2> QED BY <1>3, <1>4, <2>1, CoupledGoesOn DEF IInv, GoodStep, SameRetries
<1>8. OpensRightly(o, pool)
  <2>1. \A q \in Peers, x \in Specs : SpawnTunnel(q, x) \in o.commands => q = p /\ connected
    BY <1>3, <1>5 DEF Stays, Holds, Opens, NoneOpened, OpenedOn
  <2> QED BY <1>4, <1>7, <2>1, GoodOpensRightly
<1>9. \A q \in Peers : /\ q # p => /\ o.state.pending_by_peer[q] = tunnel.pending_by_peer[q]
                                   /\ o.state.awaiting_holepunch[q] = tunnel.awaiting_holepunch[q]
                       /\ q = p /\ o.state.pending_by_peer[q] # {} =>
                            ~connected /\ o.commands = {DialPeer(p)}
  BY <1>2, <1>3, <1>5 DEF Stays, SameRequests, Holds, Opens, MachineOK
<1>10. KeepsLookingUp(o, cs, ls)
  BY <1>2, <1>6, <1>9, TrackedIsConnected DEF KeepsLookingUp, IInv, LooksUp
<1>11. KeepsSearching(o, queries)
  BY <1>1, <1>3 DEF IInv, ServiceRequestsAreDriven, KeepsSearching, Stays, SameRequests, Holds,
                    Opens
<1>12. KeepsDriving(o, pool, ls)
  BY <1>1, <1>6, <1>9 DEF KeepsDriving, IInv, PeerRequestsAreDriven
<1>13. Fit(o, cs, pool, ls, queries)
  BY <1>6, <1>8, <1>10, <1>11, <1>12 DEF Fit, IInv
<1>14. /\ phase_changes' \in Nat
       /\ direct_peers' = {q \in Peers : In(pool, q, DirectStages) # {}}
  BY <1>1 DEF IInv, RegistryMatchesConnections
<1> QED BY <1>1, <1>7, <1>13, <1>14, ProcessPreservesIInv DEF IInv

\* A provider query without an answer is asked again.
LEMMA ProvidersNotFoundPreservesIInv ==
  ASSUME IInv, NEW s \in Services, ProvidersNotFound(s)
  PROVE  IInv'
<1> DEFINE o == DhtServiceFailed(tunnel, s)
           qs == [queries EXCEPT ![s] = @ - 1]
<1>1. /\ Process(o, cs, pool, lookups, qs)
      /\ queries[s] > 0
      /\ UNCHANGED <<direct_peers, pending_reconnects, phase_changes>>
  BY DEF ProvidersNotFound
<1>2. /\ o.state = tunnel
      /\ NoneOpened(o)
      /\ tunnel.pending_by_service[s] # {} => DhtGetProviders(s) \in o.commands
  BY DEF DhtServiceFailed, Out, NoneOpened, DhtGetProviders, SpawnTunnel
<1>3. qs \in [Services -> Nat] /\ \A r \in Services \ {s} : qs[r] = queries[r]
  BY <1>1 DEF IInv
<1> HIDE DEF o, qs
<1>4. Fit(o, cs, pool, lookups, qs)
  BY <1>1, <1>2, <1>3 DEF IInv, Fit, OpensRightly, NoneOpened, KeepsLookingUp, LooksUp,
       KeepsSearching, ServiceRequestsAreDriven, KeepsDriving, PeerRequestsAreDriven
<1>5. /\ phase_changes' \in Nat
      /\ direct_peers' = {q \in Peers : In(pool, q, DirectStages) # {}}
  BY <1>1 DEF IInv, RegistryMatchesConnections
<1> QED BY <1>1, <1>2, <1>4, <1>5, ProcessPreservesIInv DEF IInv

\* A provider query with an answer: the requests for s leave the search, or it is
\* repeated; they open on a connected provider only, and whoever becomes pending
\* is looked up.
Answered(t, o, s, provider) ==
  /\ o.state.pending_by_service[s] # {} => DhtGetProviders(s) \in o.commands
  /\ \A q \in Peers, x \in Specs :
       SpawnTunnel(q, x) \in o.commands => q = provider.peer /\ provider.connected
  /\ \A q \in Peers :
       o.state.pending_by_peer[q] # t.pending_by_peer[q] => DhtLookupPeer(q) \in o.commands

\* DhtServiceResolved does that.
LEMMA ResolvedOutcome ==
  ASSUME NEW t, MachineOK(t), NEW s \in Services, NEW providers,
         providers # <<>> => Head(providers).peer \in Peers
  PROVE  Answered(t, DhtServiceResolved(t, s, providers), s, Head(providers))
<1> DEFINE o == DhtServiceResolved(t, s, providers)
           specs == t.pending_by_service[s]
           p == Head(providers).peer
           d == [t EXCEPT !.pending_by_service[s] = {},
                          !.service_provider_candidates[s] =
                             Tail(Dedup([i \in DOMAIN providers |-> providers[i].peer]))]
<1>1. CASE specs = {}
  <2>1. o.state = t /\ o.commands = {}
    BY <1>1 DEF DhtServiceResolved, Out
  <2> HIDE DEF o
  <2> QED BY <1>1, <2>1 DEF Answered, o
<1>2. CASE specs # {} /\ providers = <<>>
  <2>1. o.state = t /\ o.commands = {DhtGetProviders(s)}
    BY <1>2 DEF DhtServiceResolved, Out
  <2>2. \A q, x : SpawnTunnel(q, x) # DhtGetProviders(s)
    BY DEF SpawnTunnel, DhtGetProviders
  <2> HIDE DEF o
  <2> QED BY <1>2, <2>1, <2>2 DEF Answered, o
<1>3. CASE specs # {} /\ providers # <<>>
  <2>1. /\ Head(providers).connected => o = route_connected_peer(d, p, specs)
        /\ ~Head(providers).connected =>
             o = Out([d EXCEPT !.pending_by_peer[p] = @ \cup specs], {DhtLookupPeer(p)})
    BY <1>3, Zenon DEF DhtServiceResolved
  <2>2. Dequeued(t, d, s)
    BY DequeueFacts, Zenon
  <2>3. specs \in SUBSET Specs /\ p \in Peers
    BY <1>3 DEF MachineOK
  <2> HIDE DEF d, o, specs, p
  <2>4. d.pending_by_service[s] = {} /\ MachineOK(d)
    BY <2>2 DEF Dequeued, MachineOK
  <2>5. CASE Head(providers).connected
    <3>1. Routed(d, o, p, specs)
      BY <2>1, <2>3, <2>4, <2>5, RouteFacts
    <3>2. \A q \in Peers, x \in Specs : SpawnTunnel(q, x) \in o.commands => q = p
      BY <2>3, <3>1, SpawnAllFacts DEF Routed
    <3>3. o.state.pending_by_peer = t.pending_by_peer /\ o.state.pending_by_service[s] = {}
      BY <2>2, <2>4, <3>1 DEF Routed, Dequeued
    <3> QED BY <2>5, <3>2, <3>3 DEF Answered, o, p
  <2>6. CASE ~Head(providers).connected
    <3>1. Queued(d, o, p, specs) /\ o.commands = {DhtLookupPeer(p)}
      <4>1. o = Out([d EXCEPT !.pending_by_peer[p] = @ \cup specs], {DhtLookupPeer(p)})
        BY <2>1, <2>6
      <4>2. o.commands = {DhtLookupPeer(p)}
        BY <4>1 DEF Out
      <4> QED BY <2>3, <2>4, <4>1, <4>2, QueueFacts
    <3>2. \A q, x : SpawnTunnel(q, x) # DhtLookupPeer(p)
      BY DEF SpawnTunnel, DhtLookupPeer
    <3>3. o.state.pending_by_service[s] = {}
      BY <2>4, <3>1 DEF Queued
    <3>4. \A q \in Peers : q # p => o.state.pending_by_peer[q] = t.pending_by_peer[q]
      BY <2>2, <2>3, <3>1 DEF Queued, Dequeued, MachineOK
    <3> QED BY <3>1, <3>2, <3>3, <3>4 DEF Answered, o
  <2> QED BY <2>5, <2>6
<1> QED BY <1>1, <1>2, <1>3

\* The first of the providers found is a peer, with the connection it really has.
LEMMA FirstOfOrder ==
  ASSUME NEW found \in SUBSET Peers, NEW order \in SetToSeqs(found)
  PROVE  LET providers == [i \in DOMAIN order |->
                             [peer |-> order[i], connected |-> is_connected(pool, order[i])]]
         IN  providers # <<>> =>
               /\ Head(providers).peer \in Peers
               /\ Head(providers).connected = is_connected(pool, Head(providers).peer)
<1> DEFINE n == Cardinality(found)
           providers == [i \in DOMAIN order |->
                           [peer |-> order[i], connected |-> is_connected(pool, order[i])]]
<1>1. n \in Nat
  BY NodeAssumption, FS_Subset, FS_CardinalityType
<1>2. order \in [1..n -> found]
  BY DEF SetToSeqs
<1> HIDE DEF n
<1>3. CASE n = 0
  BY <1>2, <1>3
<1>4. CASE n # 0
  <2>1. 1 \in 1..n /\ DOMAIN order = 1..n
    BY <1>1, <1>2, <1>4
  <2>2. Head(providers) = providers[1]
    BY <1>1, <1>2, <2>1
  <2>3. /\ providers[1].peer = order[1]
        /\ providers[1].connected = is_connected(pool, order[1])
        /\ order[1] \in Peers
    BY <1>2, <2>1
  <2> QED BY <2>2, <2>3
<1> QED BY <1>3, <1>4

\* Providers of a service keep the invariant, connected or not.
LEMMA ProvidersFoundPreservesIInv ==
  ASSUME IInv, NEW s \in Services, NEW found \in SUBSET Peers, ProvidersFound(s, found)
  PROVE  IInv'
<1> DEFINE Listed(order) ==
             [i \in DOMAIN order |->
                [peer |-> order[i], connected |-> is_connected(pool, order[i])]]
           qs == [queries EXCEPT ![s] = @ - 1]
<1>1. PICK order \in SetToSeqs(found) :
        Process(DhtServiceResolved(tunnel, s, Listed(order)), cs, pool, lookups, qs)
  BY DEF ProvidersFound
<1> DEFINE providers == Listed(order)
           o == DhtServiceResolved(tunnel, s, providers)
           provider == Head(providers)
<1>2. queries[s] > 0 /\ UNCHANGED <<direct_peers, pending_reconnects, phase_changes>>
  BY DEF ProvidersFound
<1>3. /\ providers # <<>> => provider.peer \in Peers
      /\ providers # <<>> => provider.connected = is_connected(pool, provider.peer)
  BY FirstOfOrder
<1>4. MachineOK(tunnel) /\ Owned(tunnel)
  BY DEF IInv, Coupled
<1>5. Process(o, cs, pool, lookups, qs)
  BY <1>1
<1>6. providers = <<>> => NoneOpened(o)
  BY DEF DhtServiceResolved, Out, NoneOpened, DhtGetProviders, SpawnTunnel
<1> HIDE DEF providers
<1>7. /\ SameRetries(tunnel, o.state)
      /\ o.state.holepunch_sessions = tunnel.holepunch_sessions
      /\ \/ Stays(tunnel, o)
         \/ provider.peer \in Peers /\ Finds(tunnel, o, s, provider.peer, "pending")
         \/ provider.peer \in Peers /\ Finds(tunnel, o, s, provider.peer, "held")
         \/ provider.peer \in Peers /\ Finds(tunnel, o, s, provider.peer, "open")
  BY <1>3, <1>4, ResolvedFacts, Zenon
<1>8. GoodStep(tunnel, o)
  BY <1>3, <1>4, ResolvedStep, Zenon
<1>9. Answered(tunnel, o, s, provider)
  BY <1>3, <1>4, ResolvedOutcome, Zenon
<1> HIDE DEF o, provider
<1>10. qs \in [Services -> Nat] /\ \A r \in Services \ {s} : qs[r] = queries[r]
  BY <1>2 DEF IInv
<1> HIDE DEF qs
<1>11. Coupled(o.state, cs, pool)
  <2>1. GoOn(tunnel, o.state)
    BY <1>7 DEF GoOn
  <2> QED BY <1>7, <1>8, <2>1, CoupledGoesOn DEF IInv, GoodStep, SameRetries
<1>12. OpensRightly(o, pool)
  <2>1. \A q \in Peers, x \in Specs : SpawnTunnel(q, x) \in o.commands => is_connected(pool, q)
    BY <1>3, <1>6, <1>9 DEF Answered, NoneOpened
  <2> QED BY <1>8, <1>11, <2>1, GoodOpensRightly
<1>13. /\ \A q \in Peers : tunnel.awaiting_holepunch[q] # {} => o.state.awaiting_holepunch[q] # {}
       /\ \A r \in Services \ {s} :
            o.state.pending_by_service[r] = tunnel.pending_by_service[r]
  BY <1>4, <1>7 DEF Stays, SameRequests, Finds, MachineOK
<1>14. KeepsLookingUp(o, cs, lookups)
  BY <1>9 DEF Answered, KeepsLookingUp, IInv, LooksUp
<1>15. KeepsSearching(o, qs)
  BY <1>2, <1>9, <1>10, <1>13 DEF Answered, KeepsSearching, IInv, ServiceRequestsAreDriven
<1>16. KeepsDriving(o, pool, lookups)
  BY <1>2, <1>9, <1>13 DEF Answered, KeepsDriving, IInv, PeerRequestsAreDriven
<1>17. Fit(o, cs, pool, lookups, qs)
  BY <1>10, <1>12, <1>14, <1>15, <1>16 DEF Fit, IInv
<1>18. /\ phase_changes' \in Nat
       /\ direct_peers' = {q \in Peers : In(pool, q, DirectStages) # {}}
  BY <1>2 DEF IInv, RegistryMatchesConnections
<1> QED BY <1>5, <1>11, <1>17, <1>18, ProcessPreservesIInv DEF IInv

\* An outcome that opens nothing, moves no request and begins no session is fit.
LEMMA IdleIsFit ==
  ASSUME IInv, NEW o, Stays(tunnel, o), UNCHANGED <<pending_reconnects, phase_changes>>
  PROVE  Fit(o, cs, pool, lookups, queries)
  BY DEF IInv, Stays, SameRequests, NoneOpened, Fit, OpensRightly, KeepsLookingUp, LooksUp,
         KeepsSearching, ServiceRequestsAreDriven, KeepsDriving, PeerRequestsAreDriven

\* Every session is in the phase it was in.
SamePhases(t, r) ==
  \A p \in Peers : r.holepunch_sessions[p].phase = t.holepunch_sessions[p].phase

\* PeerIdentified changes addresses of a session, not its attempt or phase.
LEMMA IdentifiedOutcome ==
  ASSUME NEW t, MachineOK(t), NEW p \in Peers, NEW listen_addrs, NEW time
  PROVE  LET r == PeerIdentified(t, p, listen_addrs, time).state
         IN  GoOn(t, r) /\ SamePhases(t, r)
<1> DEFINE o == PeerIdentified(t, p, listen_addrs, time)
           seen == record_address_candidates(t.address_last_seen[p], listen_addrs, time)
           relay == fresh_candidates(seen, time, RelayAddrs, MAX_RELAY_CANDIDATES)
           direct == fresh_candidates(seen, time, DirectAddrs, MAX_DIRECT_CANDIDATES)
           session == t.holepunch_sessions[p]
           newRelay == relay # <<>> /\ relay # session.relay_redial_addrs
           newDirect == direct # <<>> /\ direct # session.direct_snapshot
           refreshed == [session EXCEPT
             !.relay_redial_addrs = IF newRelay THEN relay ELSE @,
             !.direct_snapshot = IF newDirect THEN direct ELSE @,
             !.dial_retry_dispatched = IF newRelay \/ newDirect THEN FALSE ELSE @]
           new == IF HasSession(t, p) THEN refreshed ELSE session
<1>1. o = Out([t EXCEPT !.address_last_seen[p] = seen,
                        !.address_oracle[p] = [relay |-> relay, direct |-> direct],
                        !.holepunch_sessions[p] = new], {})
  BY Zenon DEF PeerIdentified, update_address_oracle
<1>2. IsSession(session)
  BY DEF MachineOK, SessionsOK
<1> HIDE DEF seen, relay, direct, session, o
<1>3. new.attempt_id = session.attempt_id /\ new.phase = session.phase
  BY <1>2 DEF IsSession
<1> HIDE DEF newRelay, newDirect, refreshed, new
<1>4. o.state.holepunch_sessions = [t.holepunch_sessions EXCEPT ![p] = new]
  BY <1>1 DEF Out, MachineOK
<1> QED BY <1>3, <1>4 DEF GoOn, SamePhases, MachineOK, SessionsOK, session, o

\* An identify keeps the invariant.
LEMMA IdentifiedPreservesIInv ==
  ASSUME IInv, NEW p \in Peers, NEW listen_addrs, Identified(p, listen_addrs)
  PROVE  IInv'
<1> DEFINE o == PeerIdentified(tunnel, p, listen_addrs, Now)
<1>1. /\ Process(o, cs, pool, lookups, queries)
      /\ UNCHANGED <<direct_peers, pending_reconnects, phase_changes>>
  BY DEF Identified
<1>2. MachineOK(tunnel) /\ Owned(tunnel)
  BY DEF IInv, Coupled
<1>3. SameRetries(tunnel, o.state) /\ Stays(tunnel, o)
  BY <1>2, IdentifiedFacts, Zenon
<1>4. GoodStep(tunnel, o)
  BY <1>2, IdentifiedStep, Zenon
<1>5. GoOn(tunnel, o.state)
  BY <1>2, IdentifiedOutcome, Zenon
<1> HIDE DEF o
<1>6. Coupled(o.state, cs, pool)
  BY <1>3, <1>4, <1>5, CoupledGoesOn DEF IInv, GoodStep, SameRetries
<1>7. Fit(o, cs, pool, lookups, queries)
  BY <1>1, <1>3, IdleIsFit
<1>8. /\ phase_changes' \in Nat
      /\ direct_peers' = {q \in Peers : In(pool, q, DirectStages) # {}}
  BY <1>1 DEF IInv, RegistryMatchesConnections
<1> QED BY <1>1, <1>6, <1>7, <1>8, ProcessPreservesIInv DEF IInv

-----------------------------------------------------------------------------
(* Attempts that fail *)

\* A failed attempt of p: only requests that wait for p are opened, and only by the
\* failure of the attempt that is running.
Failed(t, o, p, id) ==
  /\ GoOn(t, o.state)
  /\ o.state.relayed_peers = t.relayed_peers
  /\ o.state.pending_by_peer = t.pending_by_peer
  /\ o.state.pending_by_service = t.pending_by_service
  /\ \A q \in Peers : o.state.awaiting_holepunch[q] \subseteq t.awaiting_holepunch[q]
  /\ \A q \in Peers : o.state.awaiting_holepunch[q] # t.awaiting_holepunch[q]
                        => q = p /\ RetryApplies(t, p, id)
  /\ \A q \in Peers, x \in Specs :
       SpawnTunnel(q, x) \in o.commands => q = p /\ RetryApplies(t, p, id)

\* HolePunchAttemptFailed does that.
LEMMA FailedOutcome ==
  ASSUME NEW t, MachineOK(t), NEW p \in Peers, NEW id
  PROVE  Failed(t, HolePunchAttemptFailed(t, p, id), p, id)
<1> DEFINE o == HolePunchAttemptFailed(t, p, id)
           c == clear_retry_state(t, p)
           gone == [c EXCEPT !.awaiting_holepunch[p] = {}]
           again == [t EXCEPT !.holepunch_retry_attempts[p] = @ + 1,
                              !.pending_retry_redial = @ \cup {p},
                              !.holepunch_sessions[p].phase = "WaitingDisconnect"]
<1>1. CASE ~RetryApplies(t, p, id)
  <2>1. o.state = t /\ o.commands = {}
    BY <1>1 DEF HolePunchAttemptFailed, retry_holepunch_attempt, Out
  <2> HIDE DEF o
  <2> QED BY <2>1 DEF Failed, GoOn, o
<1>2. CASE RetryApplies(t, p, id) /\ RetriesExhausted(t, p)
  <2>1. o.state = gone
    BY <1>2 DEF HolePunchAttemptFailed, retry_holepunch_attempt, Out
  <2>2. /\ MachineOK(c)
        /\ SameRequests(t, c)
        /\ c.relayed_peers = t.relayed_peers
        /\ c.holepunch_sessions = [t.holepunch_sessions EXCEPT ![p] = NoSession]
    BY ClearFacts
  <2>3. \A q \in Peers, x \in Specs : SpawnTunnel(q, x) \in o.commands => q = p
    <3>1. o.commands = SpawnAll(p, t.awaiting_holepunch[p])
      BY <1>2 DEF HolePunchAttemptFailed, retry_holepunch_attempt, Out
    <3>2. t.awaiting_holepunch[p] \in SUBSET Specs
      BY DEF MachineOK
    <3> QED BY <3>1, <3>2, SpawnAllFacts
  <2> HIDE DEF c, o
  <2>4. /\ gone.relayed_peers = t.relayed_peers
        /\ gone.pending_by_peer = t.pending_by_peer
        /\ gone.pending_by_service = t.pending_by_service
        /\ gone.awaiting_holepunch = [t.awaiting_holepunch EXCEPT ![p] = {}]
        /\ gone.holepunch_sessions = [t.holepunch_sessions EXCEPT ![p] = NoSession]
    BY <2>2 DEF MachineOK, SameRequests
  <2> HIDE DEF gone
  <2>5. GoOn(t, gone)
    BY <2>4 DEF GoOn, NoSession, MachineOK, SessionsOK
  <2>6. \A q \in Peers \ {p} : gone.awaiting_holepunch[q] = t.awaiting_holepunch[q]
    BY <2>4 DEF MachineOK
  <2>7. gone.awaiting_holepunch[p] = {}
    BY <2>4 DEF MachineOK
  <2> QED BY <1>2, <2>1, <2>3, <2>4, <2>5, <2>6, <2>7 DEF Failed, o
<1>3. CASE RetryApplies(t, p, id) /\ ~RetriesExhausted(t, p)
  <2>1. o.state = again /\ o.commands = {DisconnectPeer(p)}
    BY <1>3 DEF HolePunchAttemptFailed, retry_holepunch_attempt, Out
  <2>2. SameRequests(t, again) /\ again.relayed_peers = t.relayed_peers
    BY DEF MachineOK, SameRequests
  <2>3. GoOn(t, again)
    <3>1. again.holepunch_sessions =
            [t.holepunch_sessions EXCEPT ![p].phase = "WaitingDisconnect"]
      BY DEF MachineOK
    <3>2. t.holepunch_sessions[p].phase # "None"
      BY <1>3 DEF RetryApplies
    <3> QED BY <3>1, <3>2 DEF GoOn, MachineOK, SessionsOK, IsSession
  <2>4. \A q, x : SpawnTunnel(q, x) # DisconnectPeer(p)
    BY DEF SpawnTunnel, DisconnectPeer
  <2> HIDE DEF o, again
  <2> QED BY <2>1, <2>2, <2>3, <2>4 DEF Failed, SameRequests, o
<1> QED BY <1>1, <1>2, <1>3

\* A failure with the id of the tracker agrees with it and is fit.
LEMMA FailureIsFit ==
  ASSUME IInv, NEW p \in Peers, NEW id, UNCHANGED <<pending_reconnects, phase_changes>>
  PROVE  LET o == HolePunchAttemptFailed(tunnel, p, id)
         IN  /\ Coupled(o.state, cs, pool)
             /\ Fit(o, cs, pool, lookups, queries)
             /\ \A q \in Peers :
                  o.state.awaiting_holepunch[q] \subseteq tunnel.awaiting_holepunch[q]
<1> DEFINE o == HolePunchAttemptFailed(tunnel, p, id)
<1>1. MachineOK(tunnel) /\ Owned(tunnel) /\ Tracks(cs, pool)
  BY DEF IInv, Coupled
<1>3. GoodStep(tunnel, o)
  BY <1>1, FailedStep, Zenon
<1>4. Failed(tunnel, o, p, id)
  BY <1>1, FailedOutcome, Zenon
<1> HIDE DEF o
<1>5. Coupled(o.state, cs, pool)
  BY <1>3, <1>4, CoupledGoesOn DEF IInv, GoodStep, Failed
<1>6. RetryApplies(tunnel, p, id) => ~Untracked(cs, p) /\ is_connected(pool, p)
  BY <1>1, TrackedIsConnected DEF IInv, Coupled, Punches, RetryApplies
<1>7. OpensRightly(o, pool)
  <2>1. \A q \in Peers, x \in Specs : SpawnTunnel(q, x) \in o.commands => is_connected(pool, q)
    BY <1>4, <1>6 DEF Failed
  <2> QED BY <1>3, <1>5, <2>1, GoodOpensRightly
<1>8. KeepsLookingUp(o, cs, lookups) /\ KeepsSearching(o, queries)
  BY <1>4 DEF Failed, KeepsLookingUp, KeepsSearching, IInv, LooksUp, ServiceRequestsAreDriven
<1>9. KeepsDriving(o, pool, lookups)
  <2> SUFFICES ASSUME "no_addresses" \notin Faults, NEW q \in Peers, phase_changes' > 0,
                      o.state.pending_by_peer[q] # {}, o.state.awaiting_holepunch[q] = {}
               PROVE  \/ lookups[q] > 0
                      \/ IsDialing(pool, q)
                      \/ q \in pending_reconnects'
                      \/ q \in BootstrapPeers /\ In(pool, q, {"closing_relayed"}) # {}
    BY DEF KeepsDriving
  <2>1. CASE tunnel.awaiting_holepunch[q] = {}
    BY <1>4, <2>1 DEF Failed, IInv, PeerRequestsAreDriven
  <2>2. CASE tunnel.awaiting_holepunch[q] # {}
    BY <1>4, <1>6, <2>2 DEF Failed, IInv, LooksUp
  <2> QED BY <2>1, <2>2
<1> QED BY <1>4, <1>5, <1>7, <1>8, <1>9 DEF Fit, IInv, Failed, o

\* A failure of DCUtR keeps the invariant.
LEMMA DcutrFailedPreservesIInv ==
  ASSUME IInv, NEW p \in Peers, DcutrFailed(p)
  PROVE  IInv'
<1> DEFINE o == HolePunchAttemptFailed(tunnel, p, cs.hole_punch_attempts[p])
<1>1. /\ Process(o, cs, pool, lookups, queries)
      /\ UNCHANGED <<direct_peers, pending_reconnects, phase_changes>>
  BY DEF DcutrFailed
<1>2. Coupled(o.state, cs, pool) /\ Fit(o, cs, pool, lookups, queries)
  BY <1>1, FailureIsFit
<1> HIDE DEF o
<1>3. /\ phase_changes' \in Nat
      /\ direct_peers' = {q \in Peers : In(pool, q, DirectStages) # {}}
  BY <1>1 DEF IInv, RegistryMatchesConnections
<1> QED BY <1>1, <1>2, <1>3, ProcessPreservesIInv DEF IInv

\* A deadline that is taken changes neither connections nor attempts.
LEMMA TimeoutFacts ==
  ASSUME NEW k \in TrackerStates, NEW due
  PROVE  LET r == take_due_hole_punch_timeouts(k, due)
         IN  /\ r \in TrackerStates
             /\ r.relayed_connections = k.relayed_connections
             /\ r.direct_connections = k.direct_connections
             /\ r.hole_punch_attempts = k.hole_punch_attempts
             /\ r.hole_punch_deadlines =
                  [p \in Peers |-> IF p \in due THEN 0 ELSE k.hole_punch_deadlines[p]]
  BY DEF take_due_hole_punch_timeouts, TrackerStates

\* A deadline that passes keeps the invariant.
LEMMA HolePunchTimeoutPreservesIInv ==
  ASSUME IInv, NEW p \in Peers, HolePunchTimeout(p)
  PROVE  IInv'
<1> DEFINE id == cs.hole_punch_deadlines[p]
           o == IF peer_is_relay_only(cs, p) THEN HolePunchAttemptFailed(tunnel, p, id)
                ELSE Out(tunnel, {})
<1>1. /\ cs' = take_due_hole_punch_timeouts(cs, {p})
      /\ tunnel' = o.state
      /\ Execute(o.commands, pool, lookups, queries)
      /\ UNCHANGED <<direct_peers, pending_reconnects, phase_changes>>
  BY DEF HolePunchTimeout
<1>2. /\ Coupled(o.state, cs, pool) /\ Fit(o, cs, pool, lookups, queries)
      /\ \A q \in Peers : o.state.awaiting_holepunch[q] \subseteq tunnel.awaiting_holepunch[q]
  <2>1. CASE peer_is_relay_only(cs, p)
    <3>1. o = HolePunchAttemptFailed(tunnel, p, id)
      BY <2>1
    <3> QED BY <1>1, <3>1, FailureIsFit
  <2>2. CASE ~peer_is_relay_only(cs, p)
    <3>1. o.state = tunnel /\ o.commands = {}
      BY <2>2 DEF Out
    <3> HIDE DEF o
    <3>2. Stays(tunnel, o)
      BY <3>1 DEF Stays, SameRequests, NoneOpened
    <3> QED BY <1>1, <3>1, <3>2, IdleIsFit DEF IInv
  <2> QED BY <2>1, <2>2
<1> HIDE DEF o
<1>3. /\ cs' \in TrackerStates
      /\ cs'.relayed_connections = cs.relayed_connections
      /\ cs'.direct_connections = cs.direct_connections
      /\ cs'.hole_punch_attempts = cs.hole_punch_attempts
  BY <1>1, TimeoutFacts DEF IInv, Coupled, Tracks
<1>4. \A q \in Peers : /\ Untracked(cs', q) <=> Untracked(cs, q)
                       /\ has_relayed_connection(cs', q) <=> has_relayed_connection(cs, q)
                       /\ peer_is_relay_only(cs', q) <=> peer_is_relay_only(cs, q)
  BY <1>3 DEF Untracked, peer_is_relay_only, has_relayed_connection, has_direct_connection
<1>5. Coupled(tunnel', cs', pool)
  BY <1>1, <1>2, <1>3, <1>4 DEF Coupled, Tracks, Relays, Punches
<1>6. WaitersHaveAnAttempt'
  BY <1>1, <1>2, <1>3, <1>4 DEF IInv, WaitersHaveAnAttempt
<1>7. SameRequests(o.state, tunnel')
  BY <1>1 DEF SameRequests
<1>8. /\ phase_changes' \in Nat
      /\ direct_peers' = {q \in Peers : In(pool, q, DirectStages) # {}}
  BY <1>1 DEF IInv, RegistryMatchesConnections
<1> QED BY <1>1, <1>2, <1>4, <1>5, <1>6, <1>7, <1>8, ExecutePreservesIInv DEF IInv

-----------------------------------------------------------------------------
(* Dials of others *)

\* Connections and requests go on, and a timer that stops leaves a dial behind.
LEMMA DialingPreservesIInv ==
  ASSUME IInv, Continues(pool, pool'),
         cs' \in TrackerStates,
         cs'.relayed_connections = cs.relayed_connections,
         cs'.direct_connections = cs.direct_connections,
         cs'.hole_punch_attempts = cs.hole_punch_attempts,
         \A p \in pending_reconnects : p \in pending_reconnects' \/ IsDialing(pool', p),
         UNCHANGED <<tunnel, direct_peers, lookups, queries, phase_changes, opened>>
  PROVE  IInv'
<1>1. Tracks(cs', pool')
  <2>1. Tracks(cs', pool)
    BY DEF IInv, Coupled, Tracks
  <2> QED BY <2>1, ContinuesTracked
<1>2. \A q \in Peers : /\ Untracked(cs', q) <=> Untracked(cs, q)
                       /\ has_relayed_connection(cs', q) <=> has_relayed_connection(cs, q)
                       /\ peer_is_relay_only(cs', q) <=> peer_is_relay_only(cs, q)
  BY DEF Untracked, peer_is_relay_only, has_relayed_connection, has_direct_connection
<1>3. Coupled(tunnel', cs', pool')
  BY <1>1, <1>2 DEF IInv, Coupled, Relays, Punches
<1>4. RegistryMatchesConnections'
  BY DEF IInv, RegistryMatchesConnections, Continues
<1>5. WaitersHaveAnAttempt' /\ TunnelsOpenOnTheRightPath' /\ ServiceRequestsAreDriven'
  BY <1>2 DEF IInv, WaitersHaveAnAttempt, TunnelsOpenOnTheRightPath, ServiceRequestsAreDriven
<1>6. LooksUp(tunnel', cs', lookups')
  BY <1>2 DEF IInv, LooksUp
<1>7. PeerRequestsAreDriven'
  BY DEF IInv, PeerRequestsAreDriven, Continues
<1> QED BY <1>3, <1>4, <1>5, <1>6, <1>7 DEF IInv

\* A dial is noted in the map of dials only.
LEMMA DialingFacts ==
  ASSUME NEW k \in TrackerStates, NEW p \in Peers, NEW c \in ConnIds
  PROVE  LET r == on_dialing(k, p, c)
         IN  /\ r \in TrackerStates
             /\ r.relayed_connections = k.relayed_connections
             /\ r.direct_connections = k.direct_connections
             /\ r.hole_punch_attempts = k.hole_punch_attempts
             /\ r.hole_punch_deadlines = k.hole_punch_deadlines
  BY DEF on_dialing, TrackerStates, Dials

\* A dial of another behaviour keeps the invariant.
LEMMA BehaviourDialPreservesIInv ==
  ASSUME IInv, NEW p \in Peers, NEW c \in ConnIds, BehaviourDial(p, c)
  PROVE  IInv'
<1>1. Continues(pool, pool')
  BY NewDialFacts DEF BehaviourDial, IInv, Coupled, Tracks
<1>2. /\ cs' \in TrackerStates
      /\ cs'.relayed_connections = cs.relayed_connections
      /\ cs'.direct_connections = cs.direct_connections
      /\ cs'.hole_punch_attempts = cs.hole_punch_attempts
  <2>1. cs \in TrackerStates /\ cs' = on_dialing(cs, p, c)
    BY DEF BehaviourDial, IInv, Coupled, Tracks
  <2> QED BY <2>1, DialingFacts
<1> QED BY <1>1, <1>2, DialingPreservesIInv DEF BehaviourDial

\* A reconnect that is due keeps the invariant: the dial takes the place of the timer.
LEMMA ReconnectDuePreservesIInv ==
  ASSUME IInv, NEW p \in BootstrapPeers, ReconnectDue(p)
  PROVE  IInv'
<1>1. PICK c \in ConnIds : pool[c] = Free /\ pool' = [pool EXCEPT ![c] = Slot(p, "dialing")]
  BY DEF ReconnectDue
<1>2. pool \in [ConnIds -> {pool[d] : d \in ConnIds}] /\ cs \in TrackerStates
  BY DEF IInv, Coupled, Tracks
<1>3. Continues(pool, pool') /\ IsDialing(pool', p)
  BY <1>1, <1>2, NewDialFacts
<1> QED BY <1>2, <1>3, DialingPreservesIInv DEF ReconnectDue

-----------------------------------------------------------------------------
(* Events about one peer *)

\* The swarm changed at p only.
Elsewhere(pl, r, p) ==
  \A q \in Peers \ {p} :
    /\ In(r, q, DirectStages) = In(pl, q, DirectStages)
    /\ In(r, q, RelayedStages) = In(pl, q, RelayedStages)
    /\ In(r, q, {"relayed"}) = In(pl, q, {"relayed"})
    /\ In(r, q, {"closing_relayed"}) = In(pl, q, {"closing_relayed"})
    /\ IsDialing(pl, q) => IsDialing(r, q)

\* It does when every slot that changed was and is one of p or free.
LEMMA ElsewhereFacts ==
  ASSUME NEW pl, NEW r, NEW p,
         \A d \in ConnIds : \/ r[d] = pl[d]
                            \/ /\ pl[d].peer = p \/ pl[d].stage = "free"
                               /\ r[d].peer = p \/ r[d].stage = "free"
  PROVE  Elsewhere(pl, r, p)
<1> SUFFICES ASSUME NEW q \in Peers \ {p},
                    NEW stages \in SUBSET (OpenStages \cup DialStages)
             PROVE  In(r, q, stages) = In(pl, q, stages)
  BY DEF Elsewhere, OpenStages, DirectStages, RelayedStages, DialStages, IsDialing
<1>1. "free" \notin stages
  BY DEF OpenStages, DirectStages, RelayedStages, DialStages
<1> QED BY <1>1 DEF In

\* An event about p: the tracker, the requests and the sessions of other peers stay
\* as they are, except for requests that p passes on.
About(p, o, k, r) ==
  /\ MachineOK(o.state) /\ Owned(o.state) /\ k \in TrackerStates
  /\ r \in [ConnIds -> {r[c] : c \in ConnIds}]
  /\ Elsewhere(pool, r, p)
  /\ \A q \in Peers \ {p} :
       /\ k.relayed_connections[q] = cs.relayed_connections[q]
       /\ k.direct_connections[q] = cs.direct_connections[q]
       /\ k.hole_punch_attempts[q] = cs.hole_punch_attempts[q]
       /\ o.state.awaiting_holepunch[q] = tunnel.awaiting_holepunch[q]
       /\ o.state.holepunch_sessions[q] = tunnel.holepunch_sessions[q]
       /\ q \in o.state.relayed_peers <=> q \in tunnel.relayed_peers
       /\ \/ o.state.pending_by_peer[q] = tunnel.pending_by_peer[q]
          \/ DhtLookupPeer(q) \in o.commands
  /\ \A s \in Services :
       \/ o.state.pending_by_service[s] = tunnel.pending_by_service[s]
       \/ DhtGetProviders(s) \in o.commands
  /\ \A q \in Peers, x \in Specs : SpawnTunnel(q, x) \in o.commands => q = p
  /\ phase_changes' = phase_changes
  /\ pending_reconnects \ {p} \subseteq pending_reconnects'

\* Tracker, swarm and tunnel machine agree on p after the event.
AgreeOn(p, t, k, r) ==
  /\ k.direct_connections[p] = In(r, p, DirectStages)
  /\ k.relayed_connections[p] \subseteq In(r, p, RelayedStages)
  /\ In(r, p, {"relayed"}) \subseteq k.relayed_connections[p]
  /\ has_relayed_connection(k, p) => p \in t.relayed_peers
  /\ p \in t.relayed_peers => ~Untracked(k, p)
  /\ LET session == t.holepunch_sessions[p]
         attempt == k.hole_punch_attempts[p]
     IN  /\ session.phase = "Punching" => session.attempt_id = attempt /\ ~Untracked(k, p)
         /\ session.phase # "None" /\ attempt # 0 => session.attempt_id = attempt

\* The requests for p are opened rightly or driven on.
Serves(p, o, k, r) ==
  /\ \A x \in Specs : SpawnTunnel(p, x) \in o.commands => In(r, p, DirectStages) # {}
  /\ o.state.pending_by_peer[p] # {} /\ ~Untracked(k, p)
       => lookups[p] > 0 \/ DhtLookupPeer(p) \in o.commands
  /\ "no_addresses" \notin Faults =>
       (/\ phase_changes' > 0
        /\ o.state.pending_by_peer[p] # {}
        /\ o.state.awaiting_holepunch[p] = {}
        => \/ lookups[p] > 0
           \/ DhtLookupPeer(p) \in o.commands
           \/ IsDialing(r, p)
           \/ o.commands = {DialPeer(p)}
           \/ p \in pending_reconnects'
           \/ p \in BootstrapPeers /\ In(r, p, {"closing_relayed"}) # {})

\* An event about p that does both leaves everything coupled and is fit.
LEMMA EventAboutOne ==
  ASSUME IInv, NEW p \in Peers, NEW o, NEW k, NEW r,
         About(p, o, k, r), AgreeOn(p, o.state, k, r), Serves(p, o, k, r)
  PROVE  Coupled(o.state, k, r) /\ Fit(o, k, r, lookups, queries)
<1>1. \A q \in Peers \ {p} :
        /\ Untracked(k, q) <=> Untracked(cs, q)
        /\ has_relayed_connection(k, q) <=> has_relayed_connection(cs, q)
  BY DEF About, Untracked, has_relayed_connection, has_direct_connection
<1>2. Tracks(k, r)
  <2>1. ASSUME NEW q \in Peers
        PROVE  /\ k.direct_connections[q] = In(r, q, DirectStages)
               /\ k.relayed_connections[q] \subseteq In(r, q, RelayedStages)
               /\ In(r, q, {"relayed"}) \subseteq k.relayed_connections[q]
    <3>1. CASE q = p
      BY <3>1 DEF AgreeOn
    <3>2. CASE q # p
      BY <3>2 DEF About, Elsewhere, IInv, Coupled, Tracks
    <3> QED BY <3>1, <3>2
  <2> QED BY <2>1 DEF Tracks, About
<1>3. Relays(o.state, k)
  BY <1>1 DEF Relays, AgreeOn, About, IInv, Coupled
<1>4. Punches(o.state, k)
  BY <1>1 DEF Punches, AgreeOn, About, IInv, Coupled
<1>5. OpensRightly(o, r)
  BY DEF OpensRightly, About, Serves, is_connected, In, OpenStages
<1>6. KeepsLookingUp(o, k, lookups)
  BY <1>1 DEF KeepsLookingUp, About, Serves, IInv, LooksUp
<1>7. KeepsSearching(o, queries)
  BY DEF KeepsSearching, About, IInv, ServiceRequestsAreDriven
<1>8. KeepsDriving(o, r, lookups)
  <2> SUFFICES ASSUME "no_addresses" \notin Faults, NEW q \in Peers, phase_changes' > 0,
                      o.state.pending_by_peer[q] # {}, o.state.awaiting_holepunch[q] = {}
               PROVE  \/ lookups[q] > 0
                      \/ DhtLookupPeer(q) \in o.commands
                      \/ IsDialing(r, q)
                      \/ o.commands = {DialPeer(q)}
                      \/ q \in pending_reconnects'
                      \/ q \in BootstrapPeers /\ In(r, q, {"closing_relayed"}) # {}
    BY DEF KeepsDriving
  <2>1. CASE q = p
    BY <2>1 DEF Serves
  <2>2. CASE q # p
    BY <2>2 DEF About, Elsewhere, IInv, PeerRequestsAreDriven
  <2> QED BY <2>1, <2>2
<1> QED BY <1>2, <1>3, <1>4, <1>5, <1>6, <1>7, <1>8 DEF About, Coupled, Fit, IInv

-----------------------------------------------------------------------------
(* Connections that open *)

\* A slot that may become a connection of p: free, or a dial of p.
MayOpen(pl, p, c) ==
  \/ pl[c].stage = "free"
  \/ pl[c].peer = p /\ pl[c].stage \in DialStages

\* What begin_holepunch_attempt does.
Begun(t, b, p, id) ==
  /\ MachineOK(b) /\ Owned(b) /\ SameRequests(t, b) /\ SameRetries(t, b)
  /\ b.holepunch_sessions[p].phase = "Punching"
  /\ b.holepunch_sessions[p].attempt_id = id
  /\ \A q \in Peers \ {p} : b.holepunch_sessions[q] = t.holepunch_sessions[q]

\* It begins a session of p and changes nothing else.
LEMMA BeginFacts ==
  ASSUME NEW t, MachineOK(t), Owned(t), NEW p \in Peers, NEW id
  PROVE  Begun(t, begin_holepunch_attempt(t, p, id), p, id)
<1> DEFINE b == begin_holepunch_attempt(t, p, id)
           s == [attempt_id |-> id, phase |-> "Punching",
                 relay_redial_addrs |-> t.address_oracle[p].relay,
                 direct_snapshot |-> t.address_oracle[p].direct,
                 dial_retry_dispatched |-> FALSE]
<1>1. b = [t EXCEPT !.holepunch_sessions[p] = s]
  BY DEF begin_holepunch_attempt
<1>2. IsSession(s) /\ s.phase = "Punching" /\ s.attempt_id = id
  BY DEF IsSession, Phases
<1> HIDE DEF s, b
<1>3. /\ b.holepunch_sessions = [t.holepunch_sessions EXCEPT ![p] = s]
      /\ SameRequests(t, b) /\ SameRetries(t, b)
  BY <1>1 DEF MachineOK, SameRequests, SameRetries
<1>4. SessionsOK(b.holepunch_sessions)
  BY <1>2, <1>3, SessionReplaced DEF MachineOK
<1>5. MachineOK(b)
  BY <1>1, <1>4 DEF MachineOK
<1>6. Owned(b)
  BY <1>3, OwnedStep DEF SameRequests
<1> QED BY <1>2, <1>3, <1>5, <1>6 DEF Begun, MachineOK, SessionsOK, b

\* What a relayed connection of p does to the requests.
HeldBack(t, o, p) ==
  /\ MachineOK(o.state) /\ Owned(o.state)
  /\ Holds(t, o, p)
  /\ o.state.pending_by_peer[p] = {}
  /\ \A q \in Peers \ {p} : /\ o.state.pending_by_peer[q] = t.pending_by_peer[q]
                            /\ o.state.awaiting_holepunch[q] = t.awaiting_holepunch[q]
  /\ o.state.relayed_peers = t.relayed_peers \cup {p}
  /\ o.state.holepunch_sessions = t.holepunch_sessions

\* TunnelPeerConnected over a relay does that.
LEMMA RelayedOutcome ==
  ASSUME NEW t, MachineOK(t), Owned(t), NEW p \in Peers
  PROVE  HeldBack(t, TunnelPeerConnected(t, p, TRUE), p)
<1> DEFINE o == TunnelPeerConnected(t, p, TRUE)
           specs == t.pending_by_peer[p]
<1>1. o = Out([t EXCEPT !.relayed_peers = @ \cup {p},
                        !.pending_by_peer[p] = {},
                        !.awaiting_holepunch[p] = @ \cup specs], {})
  BY DEF TunnelPeerConnected
<1>2. GoodStep(t, o)
  BY ConnectedStep, Zenon
<1> HIDE DEF o
<1>3. /\ o.state.relayed_peers = t.relayed_peers \cup {p}
      /\ o.state.holepunch_sessions = t.holepunch_sessions
      /\ Holds(t, o, p)
  BY <1>1 DEF Out, MachineOK, Holds, NoneOpened
<1> QED BY <1>2, <1>3 DEF HeldBack, GoodStep, Holds, MachineOK, o

\* The pool r is pl with a relayed connection of p more.
OneMoreRelayed(pl, r, p, c) ==
  /\ r \in [ConnIds -> {r[d] : d \in ConnIds}]
  /\ Elsewhere(pl, r, p)
  /\ In(r, p, DirectStages) = In(pl, p, DirectStages)
  /\ In(r, p, RelayedStages) = In(pl, p, RelayedStages) \cup {c}
  /\ In(r, p, {"relayed"}) = In(pl, p, {"relayed"}) \cup {c}

\* That is what becomes of a slot that opens relayed.
LEMMA RelayedPool ==
  ASSUME NEW pl, NEW p \in Peers, NEW c \in ConnIds,
         pl \in [ConnIds -> {pl[d] : d \in ConnIds}], MayOpen(pl, p, c)
  PROVE  OneMoreRelayed(pl, [pl EXCEPT ![c] = Slot(p, "relayed")], p, c)
<1> DEFINE r == [pl EXCEPT ![c] = Slot(p, "relayed")]
<1>1. /\ r \in [ConnIds -> {r[d] : d \in ConnIds}]
      /\ \A d \in ConnIds \ {c} : r[d] = pl[d]
      /\ r[c].peer = p /\ r[c].stage = "relayed"
  BY DEF Slot
<1> HIDE DEF r
<1>2. Elsewhere(pl, r, p)
  BY <1>1, ElsewhereFacts DEF MayOpen
<1>3. /\ In(r, p, DirectStages) = In(pl, p, DirectStages)
      /\ In(r, p, RelayedStages) = In(pl, p, RelayedStages) \cup {c}
      /\ In(r, p, {"relayed"}) = In(pl, p, {"relayed"}) \cup {c}
  BY <1>1 DEF In, MayOpen, DialStages, DirectStages, RelayedStages
<1> QED BY <1>1, <1>2, <1>3 DEF OneMoreRelayed, r

\* A relayed connection that opens keeps the invariant.
LEMMA RelayedEstablishedPreservesIInv ==
  ASSUME IInv, NEW p \in Peers, NEW c \in ConnIds, MayOpen(pool, p, c),
         RelayedEstablished(p, c)
  PROVE  IInv'
<1> DEFINE k1 == on_relayed_established(cs, p, c)
           starts == has_holepunch_intent(tunnel, p) /\ MayStartAttempt(k1, p)
           k == IF starts THEN start_hole_punch_attempt(k1, p) ELSE k1
           t == IF starts THEN begin_holepunch_attempt(tunnel, p, k.hole_punch_attempts[p])
                ELSE tunnel
           o == TunnelPeerConnected(t, p, TRUE)
           r == [pool EXCEPT ![c] = Slot(p, "relayed")]
<1>1. /\ Process(o, k, r, lookups, queries)
      /\ pending_reconnects' = pending_reconnects \ {p}
      /\ UNCHANGED <<direct_peers, phase_changes>>
  BY Zenon DEF RelayedEstablished
<1>2. /\ MachineOK(tunnel) /\ Owned(tunnel) /\ Tracks(cs, pool) /\ cs \in TrackerStates
      /\ pool \in [ConnIds -> {pool[d] : d \in ConnIds}]
  BY DEF IInv, Coupled, Tracks
<1>3. /\ k1 \in TrackerStates
      /\ k1.relayed_connections =
           [cs.relayed_connections EXCEPT ![p] = cs.relayed_connections[p] \cup {c}]
      /\ k1.direct_connections = cs.direct_connections
      /\ k1.hole_punch_attempts = cs.hole_punch_attempts
  <2>1. cs \in TrackerStates
    BY <1>2
  <2> QED BY <2>1, RelayedFacts
<1> HIDE DEF k1
<1>4. /\ k \in TrackerStates
      /\ k.relayed_connections = k1.relayed_connections
      /\ k.direct_connections = k1.direct_connections
      /\ \A q \in Peers \ {p} : k.hole_punch_attempts[q] = k1.hole_punch_attempts[q]
      /\ ~starts => k.hole_punch_attempts[p] = k1.hole_punch_attempts[p]
  <2>1. CASE starts
    <3>1. Started(k1, k, p, k1.hole_punch_attempt_seq[p] + 1)
      BY <1>3, <2>1, StartFacts
    <3> HIDE DEF k
    <3> QED BY <1>3, <2>1, <3>1 DEF Started, TrackerStates
  <2>2. CASE ~starts
    BY <1>3, <2>2
  <2> QED BY <2>1, <2>2
<1> HIDE DEF k
<1>5. /\ MachineOK(t) /\ Owned(t) /\ SameRequests(tunnel, t) /\ SameRetries(tunnel, t)
      /\ \A q \in Peers \ {p} : t.holepunch_sessions[q] = tunnel.holepunch_sessions[q]
      /\ starts => /\ t.holepunch_sessions[p].phase = "Punching"
                   /\ t.holepunch_sessions[p].attempt_id = k.hole_punch_attempts[p]
      /\ ~starts => t.holepunch_sessions[p] = tunnel.holepunch_sessions[p]
  <2>1. CASE starts
    <3>1. Begun(tunnel, t, p, k.hole_punch_attempts[p])
      BY <1>2, <2>1, BeginFacts
    <3> HIDE DEF t
    <3> QED BY <2>1, <3>1 DEF Begun
  <2>2. CASE ~starts
    BY <1>2, <2>2 DEF SameRequests, SameRetries
  <2> QED BY <2>1, <2>2
<1> HIDE DEF t, starts
<1>6. HeldBack(t, o, p)
  BY <1>5, RelayedOutcome, Zenon
<1> HIDE DEF o
<1>7. OneMoreRelayed(pool, r, p, c)
  BY <1>2, RelayedPool, Zenon
<1> HIDE DEF r
<1>8. About(p, o, k, r)
  <2>1. /\ MachineOK(o.state) /\ Owned(o.state) /\ NoneOpened(o)
        /\ o.state.pending_by_service = tunnel.pending_by_service
        /\ \A q \in Peers \ {p} :
             /\ o.state.pending_by_peer[q] = tunnel.pending_by_peer[q]
             /\ o.state.awaiting_holepunch[q] = tunnel.awaiting_holepunch[q]
             /\ o.state.holepunch_sessions[q] = tunnel.holepunch_sessions[q]
             /\ q \in o.state.relayed_peers <=> q \in tunnel.relayed_peers
    BY <1>5, <1>6 DEF HeldBack, Holds, SameRequests, SameRetries
  <2>2. \A q \in Peers \ {p} :
             /\ k.relayed_connections[q] = cs.relayed_connections[q]
             /\ k.direct_connections[q] = cs.direct_connections[q]
             /\ k.hole_punch_attempts[q] = cs.hole_punch_attempts[q]
    BY <1>2, <1>3, <1>4 DEF TrackerStates
  <2> QED BY <1>1, <1>4, <1>7, <2>1, <2>2 DEF About, NoneOpened, OneMoreRelayed
<1>9. AgreeOn(p, o.state, k, r)
  <2>1. /\ k.relayed_connections[p] = cs.relayed_connections[p] \cup {c}
        /\ k.direct_connections[p] = cs.direct_connections[p]
    BY <1>2, <1>3, <1>4 DEF TrackerStates
  <2>2. p \in o.state.relayed_peers /\ ~Untracked(k, p)
    BY <1>6, <2>1 DEF HeldBack, Untracked, has_relayed_connection
  <2>3. starts => /\ o.state.holepunch_sessions[p].phase = "Punching"
                  /\ o.state.holepunch_sessions[p].attempt_id = k.hole_punch_attempts[p]
    BY <1>5, <1>6 DEF HeldBack
  <2>4. ~starts => /\ o.state.holepunch_sessions[p] = tunnel.holepunch_sessions[p]
                   /\ k.hole_punch_attempts[p] = cs.hole_punch_attempts[p]
    BY <1>3, <1>4, <1>5, <1>6 DEF HeldBack
  <2> QED BY <1>2, <1>7, <2>1, <2>2, <2>3, <2>4
         DEF AgreeOn, Tracks, IInv, Coupled, Punches, OneMoreRelayed
<1>10. Serves(p, o, k, r)
  BY <1>6 DEF Serves, HeldBack, Holds, NoneOpened
<1>11. direct_peers' = {q \in Peers : In(r, q, DirectStages) # {}}
  BY <1>1, <1>7 DEF IInv, RegistryMatchesConnections, Elsewhere, OneMoreRelayed
<1>12. Coupled(o.state, k, r) /\ Fit(o, k, r, lookups, queries)
  BY <1>8, <1>9, <1>10, EventAboutOne
<1> QED BY <1>1, <1>11, <1>12, ProcessPreservesIInv DEF IInv

\* What a direct connection of p does to the requests.
LetThrough(t, o, p) ==
  /\ MachineOK(o.state) /\ Owned(o.state)
  /\ o.state.pending_by_service = t.pending_by_service
  /\ o.state.pending_by_peer[p] = {}
  /\ \A q \in Peers \ {p} : /\ o.state.pending_by_peer[q] = t.pending_by_peer[q]
                            /\ o.state.awaiting_holepunch[q] = t.awaiting_holepunch[q]
                            /\ o.state.holepunch_sessions[q] = t.holepunch_sessions[q]
  /\ o.state.relayed_peers = t.relayed_peers \ {p}
  /\ o.state.holepunch_sessions[p] = NoSession
  /\ \A q \in Peers, x \in Specs : SpawnTunnel(q, x) \in o.commands => q = p

\* TunnelPeerConnected over a direct connection does that.
LEMMA DirectOutcome ==
  ASSUME NEW t, MachineOK(t), Owned(t), NEW p \in Peers
  PROVE  LetThrough(t, TunnelPeerConnected(t, p, FALSE), p)
<1> DEFINE o == TunnelPeerConnected(t, p, FALSE)
           c == clear_retry_state(t, p)
           idle == [c EXCEPT !.relayed_peers = @ \ {p},
                             !.pending_by_peer[p] = {},
                             !.awaiting_holepunch[p] = {}]
           specs == t.pending_by_peer[p] \cup t.awaiting_holepunch[p]
<1>1. o.state = idle /\ o.commands = SpawnAll(p, specs)
  BY DEF TunnelPeerConnected, Out
<1>2. GoodStep(t, o)
  BY ConnectedStep, Zenon
<1>3. /\ MachineOK(c)
      /\ SameRequests(t, c)
      /\ c.relayed_peers = t.relayed_peers
      /\ c.holepunch_sessions = [t.holepunch_sessions EXCEPT ![p] = NoSession]
  BY ClearFacts
<1> HIDE DEF c, o
<1>4. /\ idle.pending_by_peer = [t.pending_by_peer EXCEPT ![p] = {}]
      /\ idle.pending_by_service = t.pending_by_service
      /\ idle.awaiting_holepunch = [t.awaiting_holepunch EXCEPT ![p] = {}]
      /\ idle.relayed_peers = t.relayed_peers \ {p}
      /\ idle.holepunch_sessions = [t.holepunch_sessions EXCEPT ![p] = NoSession]
  BY <1>3 DEF MachineOK, SameRequests
<1> HIDE DEF idle
<1>5. \A q \in Peers, x \in Specs : SpawnTunnel(q, x) \in o.commands => q = p
  <2>1. specs \in SUBSET Specs
    BY DEF MachineOK
  <2> QED BY <1>1, <2>1, SpawnAllFacts
<1>6. MachineOK(o.state) /\ Owned(o.state)
  BY <1>2 DEF GoodStep
<1> QED BY <1>1, <1>4, <1>5, <1>6 DEF LetThrough, MachineOK, SessionsOK, o

\* The pool r is pl with a direct connection of p more, none over a relay left open.
Replaced(pl, r, p, c) ==
  /\ r \in [ConnIds -> {r[d] : d \in ConnIds}]
  /\ Elsewhere(pl, r, p)
  /\ In(r, p, DirectStages) = In(pl, p, DirectStages) \cup {c}
  /\ In(r, p, {"relayed"}) = {}

\* That is what becomes of a slot that opens directly.
LEMMA DirectPool ==
  ASSUME NEW pl, NEW p \in Peers, NEW c \in ConnIds, NEW relayed,
         pl \in [ConnIds -> {pl[d] : d \in ConnIds}], MayOpen(pl, p, c),
         relayed \subseteq In(pl, p, RelayedStages), In(pl, p, {"relayed"}) \subseteq relayed
  PROVE  LET closed == [d \in ConnIds |-> IF d \in relayed /\ pl[d].stage = "relayed"
                                          THEN Slot(p, "closing_relayed") ELSE pl[d]]
         IN  Replaced(pl, [closed EXCEPT ![c] = Slot(p, "direct")], p, c)
<1> DEFINE closed == [d \in ConnIds |-> IF d \in relayed /\ pl[d].stage = "relayed"
                                        THEN Slot(p, "closing_relayed") ELSE pl[d]]
           r == [closed EXCEPT ![c] = Slot(p, "direct")]
<1>1. /\ r \in [ConnIds -> {r[d] : d \in ConnIds}]
      /\ r[c] = Slot(p, "direct")
      /\ \A d \in ConnIds \ {c} : r[d] = IF d \in relayed /\ pl[d].stage = "relayed"
                                         THEN Slot(p, "closing_relayed") ELSE pl[d]
  OBVIOUS
<1> HIDE DEF r
<1>2. /\ r[c].peer = p /\ r[c].stage = "direct"
      /\ Slot(p, "closing_relayed").peer = p
      /\ Slot(p, "closing_relayed").stage = "closing_relayed"
  BY <1>1 DEF Slot
<1>3. \A d \in relayed : d \in ConnIds /\ pl[d].peer = p
  BY DEF In
<1>4. Elsewhere(pl, r, p)
  BY <1>1, <1>2, <1>3, ElsewhereFacts DEF MayOpen
<1>5. In(r, p, DirectStages) = In(pl, p, DirectStages) \cup {c}
  BY <1>1, <1>2, <1>3 DEF In, DirectStages
<1>6. In(r, p, {"relayed"}) = {}
  BY <1>1, <1>2, <1>3 DEF In
<1> QED BY <1>1, <1>4, <1>5, <1>6 DEF Replaced, r

\* A direct connection that opens keeps the invariant.
LEMMA DirectEstablishedPreservesIInv ==
  ASSUME IInv, NEW p \in Peers, NEW c \in ConnIds, MayOpen(pool, p, c),
         DirectEstablished(p, c)
  PROVE  IInv'
<1> DEFINE k == on_direct_established(cs, p, c)
           closed == [d \in ConnIds |-> IF d \in cs.relayed_connections[p]
                                           /\ pool[d].stage = "relayed"
                                        THEN Slot(p, "closing_relayed") ELSE pool[d]]
           o == TunnelPeerConnected(tunnel, p, FALSE)
           r == [closed EXCEPT ![c] = Slot(p, "direct")]
<1>1. /\ Process(o, k, r, lookups, queries)
      /\ direct_peers' = direct_peers \cup {p}
      /\ pending_reconnects' = pending_reconnects \ {p}
      /\ UNCHANGED phase_changes
  BY Zenon DEF DirectEstablished
<1>2. /\ MachineOK(tunnel) /\ Owned(tunnel) /\ Tracks(cs, pool) /\ cs \in TrackerStates
      /\ pool \in [ConnIds -> {pool[d] : d \in ConnIds}]
  BY DEF IInv, Coupled, Tracks
<1>3. Upgraded(cs, k, p, c)
  BY <1>2, DirectFacts, Zenon
<1>4. LetThrough(tunnel, o, p)
  BY <1>2, DirectOutcome, Zenon
<1>5. Replaced(pool, r, p, c)
  <2>1. /\ cs.relayed_connections[p] \subseteq In(pool, p, RelayedStages)
        /\ In(pool, p, {"relayed"}) \subseteq cs.relayed_connections[p]
    BY <1>2 DEF Tracks
  <2> QED BY <1>2, <2>1, DirectPool, Zenon
<1> HIDE DEF k, o, r
<1>6. /\ k \in TrackerStates
      /\ k.relayed_connections[p] = {}
      /\ k.direct_connections[p] = cs.direct_connections[p] \cup {c}
      /\ k.hole_punch_attempts[p] = 0
      /\ \A q \in Peers \ {p} :
           /\ k.relayed_connections[q] = cs.relayed_connections[q]
           /\ k.direct_connections[q] = cs.direct_connections[q]
           /\ k.hole_punch_attempts[q] = cs.hole_punch_attempts[q]
  BY <1>2, <1>3 DEF Upgraded, TrackerStates
<1>7. About(p, o, k, r)
  BY <1>1, <1>4, <1>5, <1>6 DEF About, LetThrough, Replaced
<1>8. AgreeOn(p, o.state, k, r)
  <2>1. p \notin o.state.relayed_peers /\ ~has_relayed_connection(k, p)
    BY <1>4, <1>6 DEF LetThrough, has_relayed_connection
  <2>2. o.state.holepunch_sessions[p].phase = "None"
    BY <1>4 DEF LetThrough, NoSession
  <2> QED BY <1>2, <1>5, <1>6, <2>1, <2>2 DEF AgreeOn, Tracks, Replaced
<1>9. Serves(p, o, k, r)
  BY <1>4, <1>5 DEF Serves, LetThrough, Replaced
<1>10. direct_peers' = {q \in Peers : In(r, q, DirectStages) # {}}
  BY <1>1, <1>5 DEF IInv, RegistryMatchesConnections, Elsewhere, Replaced
<1>11. Coupled(o.state, k, r) /\ Fit(o, k, r, lookups, queries)
  BY <1>7, <1>8, <1>9, EventAboutOne
<1> QED BY <1>1, <1>10, <1>11, ProcessPreservesIInv DEF IInv

\* A dial that comes through and a connection of the peer keep the invariant.
LEMMA EstablishedPreservesIInv ==
  ASSUME IInv, NEW p \in Peers, NEW c \in ConnIds,
         DialEstablished(p, c) \/ IncomingEstablished(p, c)
  PROVE  IInv'
<1>1. MayOpen(pool, p, c)
  BY DEF DialEstablished, IncomingEstablished, MayOpen, In, Free
<1>2. RelayedEstablished(p, c) \/ DirectEstablished(p, c)
  BY DEF DialEstablished, IncomingEstablished
<1> QED BY <1>1, <1>2, RelayedEstablishedPreservesIInv, DirectEstablishedPreservesIInv

-----------------------------------------------------------------------------
(* Connections that are gone *)

\* The session of p, if there is one, no longer punches.
Unpunched(t, o, p) ==
  /\ \A q \in Peers \ {p} : o.state.holepunch_sessions[q] = t.holepunch_sessions[q]
  /\ LET session == o.state.holepunch_sessions[p]
     IN  /\ session.phase # "Punching"
         /\ session.phase # "None" =>
              /\ t.holepunch_sessions[p].phase # "None"
              /\ session.attempt_id = t.holepunch_sessions[p].attempt_id

\* What the loss of the last connection of p does: nobody punches p any longer, and
\* what was held is dialled for, by the retry that asked for it or at once.
Dropped(t, o, p) ==
  /\ MachineOK(o.state) /\ Owned(o.state) /\ NoneOpened(o)
  /\ o.state.relayed_peers = t.relayed_peers \ {p}
  /\ o.state.pending_by_service = t.pending_by_service
  /\ \A q \in Peers \ {p} : /\ o.state.pending_by_peer[q] = t.pending_by_peer[q]
                            /\ o.state.awaiting_holepunch[q] = t.awaiting_holepunch[q]
  /\ Unpunched(t, o, p)
  /\ o.state.pending_by_peer[p] # {} /\ o.state.awaiting_holepunch[p] = {}
       => \/ o.commands = {DialPeer(p)}
          \/ t.pending_by_peer[p] # {} /\ t.awaiting_holepunch[p] = {}

\* The session of a peer whose last connection is gone.
LEMMA LostSession ==
  ASSUME NEW t, MachineOK(t), NEW p \in Peers, NEW time
  PROVE  LET o == ConnectionLostAll(t, p, time)
         IN  /\ Unpunched(t, o, p)
             /\ p \notin t.pending_retry_redial =>
                  o.commands = IF t.awaiting_holepunch[p] = {} THEN {} ELSE {DialPeer(p)}
<1> DEFINE o == ConnectionLostAll(t, p, time)
           lost == [t EXCEPT !.relayed_peers = @ \ {p}]
           waiting == t.awaiting_holepunch[p]
           c == clear_retry_state(lost, p)
           requeued == [c EXCEPT !.awaiting_holepunch[p] = {},
                                 !.pending_by_peer[p] = @ \cup waiting]
           old == t.holepunch_sessions[p]
           phase == IF HasSession(t, p) THEN "WaitingRedial" ELSE old.phase
           again == [lost EXCEPT !.pending_retry_redial = @ \ {p},
                                 !.holepunch_sessions[p].phase = phase]
<1>1. MachineOK(lost) /\ lost.holepunch_sessions = t.holepunch_sessions
  BY DEF MachineOK
<1>2. IsSession(old)
  BY DEF MachineOK, SessionsOK
<1>3. CASE p \in t.pending_retry_redial
  <2>1. o.state = again
    <3> HIDE DEF lost
    <3>1. lost.holepunch_sessions[p].phase = old.phase
      BY <1>1
    <3>2. o = Out([lost EXCEPT !.pending_retry_redial = @ \ {p},
                     !.holepunch_sessions[p].phase =
                        IF HasSession(t, p) THEN "WaitingRedial" ELSE @],
                  {RedialCommand(t, p, time)})
      BY <1>3, Zenon DEF ConnectionLostAll, lost
    <3> QED BY <3>1, <3>2 DEF Out
  <2>2. phase # "Punching" /\ (phase # "None" => old.phase # "None")
    BY DEF HasSession
  <2> DEFINE new == [old EXCEPT !.phase = phase]
  <2> HIDE DEF lost, phase, o, old
  <2>3. new.phase = phase /\ new.attempt_id = old.attempt_id
    BY <1>2 DEF IsSession
  <2>4. again.holepunch_sessions = [t.holepunch_sessions EXCEPT ![p] = new]
    BY <1>1 DEF MachineOK, old
  <2> HIDE DEF again, new
  <2>5. /\ o.state.holepunch_sessions[p] = new
        /\ \A q \in Peers \ {p} : o.state.holepunch_sessions[q] = t.holepunch_sessions[q]
    BY <2>1, <2>4 DEF MachineOK, SessionsOK
  <2> QED BY <1>3, <2>2, <2>3, <2>5 DEF Unpunched, o, old
<1>4. CASE p \notin t.pending_retry_redial
  <2>1. /\ o.state = requeued
        /\ o.commands = IF waiting = {} THEN {} ELSE {DialPeer(p)}
    BY <1>4 DEF ConnectionLostAll, Out
  <2> HIDE DEF lost, o
  <2>2. MachineOK(c) /\ c.holepunch_sessions = [lost.holepunch_sessions EXCEPT ![p] = NoSession]
    BY <1>1, ClearFacts, Zenon
  <2> HIDE DEF c
  <2>3. requeued.holepunch_sessions = c.holepunch_sessions
    BY <2>2 DEF MachineOK
  <2> HIDE DEF requeued
  <2>4. /\ o.state.holepunch_sessions[p] = NoSession
        /\ \A q \in Peers \ {p} : o.state.holepunch_sessions[q] = t.holepunch_sessions[q]
    BY <1>1, <2>1, <2>2, <2>3 DEF MachineOK, SessionsOK
  <2>5. NoSession.phase = "None"
    BY DEF NoSession
  <2> QED BY <2>1, <2>4, <2>5 DEF Unpunched, o
<1> QED BY <1>3, <1>4

\* ConnectionLostAll does that.
LEMMA LostOutcome ==
  ASSUME NEW t, MachineOK(t), Owned(t), NEW p \in Peers, NEW time
  PROVE  Dropped(t, ConnectionLostAll(t, p, time), p)
<1> DEFINE o == ConnectionLostAll(t, p, time)
<1>1. /\ MachineOK(o.state) /\ NoneOpened(o)
      /\ o.state.relayed_peers = t.relayed_peers \ {p}
      /\ \/ Stays(t, o) /\ o.state.holepunch_retry_attempts = t.holepunch_retry_attempts
         \/ Loses(t, o, p)
  BY LostFacts, Zenon
<1>2. GoodStep(t, o)
  BY LostStep, Zenon
<1>3. /\ Unpunched(t, o, p)
      /\ p \notin t.pending_retry_redial =>
           o.commands = IF t.awaiting_holepunch[p] = {} THEN {} ELSE {DialPeer(p)}
  BY LostSession, Zenon
<1>4. p \in t.pending_retry_redial => o.state.awaiting_holepunch[p] # {}
  <2> SUFFICES ASSUME p \in t.pending_retry_redial
               PROVE  o.state.awaiting_holepunch[p] # {}
    OBVIOUS
  <2>1. o.state.awaiting_holepunch = t.awaiting_holepunch
    BY DEF ConnectionLostAll, Out, MachineOK
  <2>2. t.awaiting_holepunch[p] # {}
    BY DEF Owned
  <2> QED BY <2>1, <2>2
<1> HIDE DEF o
<1>5. Owned(o.state)
  BY <1>2 DEF GoodStep
<1>6. /\ o.state.pending_by_service = t.pending_by_service
      /\ \A q \in Peers \ {p} : /\ o.state.pending_by_peer[q] = t.pending_by_peer[q]
                                /\ o.state.awaiting_holepunch[q] = t.awaiting_holepunch[q]
  BY <1>1 DEF Stays, SameRequests, Loses, MachineOK
<1>7. o.state.pending_by_peer[p] # {} /\ o.state.awaiting_holepunch[p] = {}
        => \/ o.commands = {DialPeer(p)}
           \/ t.pending_by_peer[p] # {} /\ t.awaiting_holepunch[p] = {}
  <2>1. \/ o.state.pending_by_peer[p] = t.pending_by_peer[p]
        \/ o.state.pending_by_peer[p] = t.pending_by_peer[p] \cup t.awaiting_holepunch[p]
    BY <1>1 DEF Stays, SameRequests, Loses, MachineOK
  <2> QED BY <1>3, <1>4, <2>1
<1> QED BY <1>1, <1>3, <1>5, <1>6, <1>7 DEF Dropped, o

\* The pool r is pl without the connection c of p.
OneLess(pl, r, p, c) ==
  /\ r \in [ConnIds -> {r[d] : d \in ConnIds}]
  /\ Elsewhere(pl, r, p)
  /\ \A stages \in SUBSET (OpenStages \cup DialStages) :
       In(r, p, stages) = In(pl, p, stages) \ {c}

\* That is what a slot of p leaves when it becomes free.
LEMMA FreedPool ==
  ASSUME NEW pl, NEW p \in Peers, NEW c \in ConnIds,
         pl \in [ConnIds -> {pl[d] : d \in ConnIds}], pl[c].peer = p
  PROVE  OneLess(pl, [pl EXCEPT ![c] = Free], p, c)
<1> DEFINE r == [pl EXCEPT ![c] = Free]
<1>1. /\ r \in [ConnIds -> {r[d] : d \in ConnIds}]
      /\ \A d \in ConnIds \ {c} : r[d] = pl[d]
      /\ r[c].stage = "free"
  BY DEF Free
<1> HIDE DEF r
<1>2. Elsewhere(pl, r, p)
  BY <1>1, ElsewhereFacts
<1>3. ASSUME NEW stages \in SUBSET (OpenStages \cup DialStages)
      PROVE  In(r, p, stages) = In(pl, p, stages) \ {c}
  <2>1. "free" \notin stages
    BY DEF OpenStages, DirectStages, RelayedStages, DialStages
  <2> QED BY <1>1, <2>1 DEF In
<1> QED BY <1>1, <1>2, <1>3 DEF OneLess, r

\* What the tracker makes of a connection c of p that is closed.
Forgotten(k, r, p, c, full) ==
  /\ r \in TrackerStates
  /\ r.relayed_connections[p] = k.relayed_connections[p] \ {c}
  /\ r.direct_connections[p] = k.direct_connections[p] \ {c}
  /\ r.hole_punch_attempts[p] = IF full THEN 0 ELSE k.hole_punch_attempts[p]
  /\ r.hole_punch_deadlines[p] = IF full THEN 0 ELSE k.hole_punch_deadlines[p]
  /\ \A q \in Peers \ {p} :
       /\ r.relayed_connections[q] = k.relayed_connections[q]
       /\ r.direct_connections[q] = k.direct_connections[q]
       /\ r.hole_punch_attempts[q] = k.hole_punch_attempts[q]
       /\ r.hole_punch_deadlines[q] = k.hole_punch_deadlines[q]

\* on_connection_closed forgets the connection, and the attempt of a peer that is gone.
LEMMA ClosedFacts ==
  ASSUME NEW k \in TrackerStates, NEW p \in Peers, NEW c \in ConnIds, NEW remaining
  PROVE  LET r == on_connection_closed(k, p, c, remaining)
         IN  /\ Forgotten(k, r, p, c, peer_fully_disconnected(k, p, c, remaining))
             /\ peer_fully_disconnected(k, p, c, remaining)
                  <=> remaining = 0 /\ Untracked(r, p)
<1> DEFINE f == ForgetConnection(k, p, c)
           d == complete_hole_punch_attempt(f, p)
           r == on_connection_closed(k, p, c, remaining)
           full == peer_fully_disconnected(k, p, c, remaining)
<1>1. /\ f \in TrackerStates
      /\ f.relayed_connections =
           [k.relayed_connections EXCEPT ![p] = k.relayed_connections[p] \ {c}]
      /\ f.direct_connections =
           [k.direct_connections EXCEPT ![p] = k.direct_connections[p] \ {c}]
      /\ f.hole_punch_attempt_seq = k.hole_punch_attempt_seq
      /\ f.hole_punch_attempts = k.hole_punch_attempts
      /\ f.hole_punch_deadlines = k.hole_punch_deadlines
      /\ f.pending_hole_punch_dials = [k.pending_hole_punch_dials EXCEPT ![c] = NoDial]
  BY ForgetFacts, Zenon
<1>2. /\ full => r = d
      /\ ~full => r = f
      /\ full <=> remaining = 0 /\ Untracked(f, p)
  BY Zenon DEF on_connection_closed, peer_fully_disconnected
<1> HIDE DEF f
<1>3. /\ d \in TrackerStates
      /\ d.relayed_connections = f.relayed_connections
      /\ d.direct_connections = f.direct_connections
      /\ d.hole_punch_attempts = [f.hole_punch_attempts EXCEPT ![p] = 0]
      /\ d.hole_punch_deadlines = [f.hole_punch_deadlines EXCEPT ![p] = 0]
  <2>1. f \in TrackerStates
    BY <1>1
  <2> QED BY <2>1, CompleteFacts, Zenon
<1> HIDE DEF d, r, full
<1>4. Forgotten(k, r, p, c, full)
  <2>1. CASE full
    BY <1>1, <1>2, <1>3, <2>1 DEF Forgotten, TrackerStates
  <2>2. CASE ~full
    BY <1>1, <1>2, <2>2 DEF Forgotten, TrackerStates
  <2> QED BY <2>1, <2>2
<1>5. Untracked(r, p) <=> Untracked(f, p)
  BY <1>2, <1>3 DEF Untracked, has_relayed_connection, has_direct_connection
<1> QED BY <1>2, <1>4, <1>5 DEF r, full

\* A connection that is closed keeps the invariant.  When the tracker knows no
\* connection of the peer any more, every open one is a relayed one that is being
\* closed: a bootstrap peer gets its timer when the last of them is gone.
LEMMA CloseHandlerPreservesIInv ==
  ASSUME IInv, NEW p \in Peers, NEW c \in In(pool, p, OpenStages), CloseHandler(p, c)
  PROVE  IInv'
<1> DEFINE open == In(pool, p, OpenStages)
           remaining == Cardinality(open \ {c})
           k == on_connection_closed(cs, p, c, remaining)
           full == peer_fully_disconnected(cs, p, c, remaining)
           o == IF Untracked(k, p) THEN ConnectionLostAll(tunnel, p, Now) ELSE Out(tunnel, {})
           r == [pool EXCEPT ![c] = Free]
<1>1. /\ Process(o, k, r, lookups, queries)
      /\ direct_peers' = IF clear_direct_registry(cs, p, c, remaining)
                         THEN direct_peers \ {p} ELSE direct_peers
      /\ pending_reconnects' = IF full THEN pending_reconnects \cup ({p} \cap BootstrapPeers)
                               ELSE pending_reconnects
      /\ UNCHANGED phase_changes
  BY Zenon DEF CloseHandler
<1>2. /\ MachineOK(tunnel) /\ Owned(tunnel) /\ Tracks(cs, pool) /\ cs \in TrackerStates
      /\ pool \in [ConnIds -> {pool[d] : d \in ConnIds}]
  BY DEF IInv, Coupled, Tracks
<1>3. c \in ConnIds /\ pool[c].peer = p /\ pool[c].stage \in OpenStages
  BY DEF In
<1>4. /\ Forgotten(cs, k, p, c, full)
      /\ full <=> remaining = 0 /\ Untracked(k, p)
  <2>1. cs \in TrackerStates
    BY <1>2
  <2> QED BY <1>3, <2>1, ClosedFacts, Zenon
<1>5. OneLess(pool, r, p, c)
  BY <1>2, <1>3, FreedPool, Zenon
<1>6. /\ Untracked(k, p) => Dropped(tunnel, o, p)
      /\ ~Untracked(k, p) => o.state = tunnel /\ o.commands = {}
  <2>1. CASE Untracked(k, p)
    <3>1. o = ConnectionLostAll(tunnel, p, Now)
      BY <2>1
    <3>2. Dropped(tunnel, ConnectionLostAll(tunnel, p, Now), p)
      BY <1>2, LostOutcome
    <3> QED BY <2>1, <3>1, <3>2
  <2>2. CASE ~Untracked(k, p)
    BY <2>2 DEF Out
  <2> QED BY <2>1, <2>2
<1>7. clear_direct_registry(cs, p, c, remaining)
        <=> full \/ (cs.direct_connections[p] # {} /\ cs.direct_connections[p] \subseteq {c})
  BY DEF clear_direct_registry, has_direct_connection
<1>8. open \ {c} = {} => remaining = 0
  BY FS_EmptySet
<1> HIDE DEF open, remaining, k, full, o, r
<1>9. /\ In(r, p, DirectStages) = In(pool, p, DirectStages) \ {c}
      /\ In(r, p, RelayedStages) = In(pool, p, RelayedStages) \ {c}
      /\ In(r, p, {"relayed"}) = In(pool, p, {"relayed"}) \ {c}
      /\ In(r, p, {"closing_relayed"}) = In(pool, p, {"closing_relayed"}) \ {c}
      /\ IsDialing(pool, p) => IsDialing(r, p)
  <2>1. /\ DirectStages \in SUBSET (OpenStages \cup DialStages)
        /\ RelayedStages \in SUBSET (OpenStages \cup DialStages)
        /\ {"relayed"} \in SUBSET (OpenStages \cup DialStages)
        /\ {"closing_relayed"} \in SUBSET (OpenStages \cup DialStages)
        /\ DialStages \in SUBSET (OpenStages \cup DialStages)
    BY DEF OpenStages, DialStages, RelayedStages, DirectStages
  <2>2. c \notin In(pool, p, DialStages)
    BY <1>3 DEF In, OpenStages, DialStages, RelayedStages, DirectStages
  <2> QED BY <1>5, <2>1, <2>2 DEF OneLess, IsDialing
<1>10. About(p, o, k, r)
  <2>1. CASE Untracked(k, p)
    BY <1>1, <1>4, <1>5, <1>6, <2>1 DEF About, Dropped, Unpunched, Forgotten, OneLess, NoneOpened
  <2>2. CASE ~Untracked(k, p)
    BY <1>1, <1>2, <1>4, <1>5, <1>6, <2>2 DEF About, Forgotten, OneLess
  <2> QED BY <2>1, <2>2
<1>11. AgreeOn(p, o.state, k, r)
  <2>1. /\ k.direct_connections[p] = In(r, p, DirectStages)
        /\ k.relayed_connections[p] \subseteq In(r, p, RelayedStages)
        /\ In(r, p, {"relayed"}) \subseteq k.relayed_connections[p]
    BY <1>2, <1>4, <1>9 DEF Forgotten, Tracks
  <2>2. CASE Untracked(k, p)
    <3>1. p \notin o.state.relayed_peers /\ ~has_relayed_connection(k, p)
      BY <1>6, <2>2 DEF Dropped, Untracked
    <3>2. k.hole_punch_attempts[p] \in {0, cs.hole_punch_attempts[p]}
      BY <1>4 DEF Forgotten
    <3> QED BY <1>6, <2>1, <2>2, <3>1, <3>2
            DEF AgreeOn, Dropped, Unpunched, IInv, Coupled, Punches
  <2>3. CASE ~Untracked(k, p)
    <3>1. /\ has_relayed_connection(k, p) => has_relayed_connection(cs, p)
          /\ k.hole_punch_attempts[p] = cs.hole_punch_attempts[p]
      BY <1>4, <2>3 DEF Forgotten, has_relayed_connection
    <3> QED BY <1>6, <2>1, <2>3, <3>1 DEF AgreeOn, IInv, Coupled, Relays, Punches
  <2> QED BY <2>2, <2>3
<1>12. Serves(p, o, k, r)
  <2>1. CASE Untracked(k, p)
    <3> SUFFICES ASSUME "no_addresses" \notin Faults, phase_changes' > 0,
                        o.state.pending_by_peer[p] # {}, o.state.awaiting_holepunch[p] = {}
                 PROVE  \/ lookups[p] > 0
                        \/ IsDialing(r, p)
                        \/ o.commands = {DialPeer(p)}
                        \/ p \in pending_reconnects'
                        \/ p \in BootstrapPeers /\ In(r, p, {"closing_relayed"}) # {}
      BY <1>6, <2>1 DEF Serves, Dropped, NoneOpened
    <3>1. \/ o.commands = {DialPeer(p)}
          \/ tunnel.pending_by_peer[p] # {} /\ tunnel.awaiting_holepunch[p] = {}
      BY <1>6, <2>1 DEF Dropped
    <3>2. CASE tunnel.pending_by_peer[p] # {} /\ tunnel.awaiting_holepunch[p] = {}
      <4>1. \/ lookups[p] > 0
            \/ IsDialing(pool, p)
            \/ p \in pending_reconnects
            \/ p \in BootstrapPeers /\ In(pool, p, {"closing_relayed"}) # {}
        BY <1>1, <3>2 DEF IInv, PeerRequestsAreDriven
      <4>2. CASE p \in BootstrapPeers /\ In(r, p, {"closing_relayed"}) = {}
        <5>1. open \ {c} = {}
          <6>1. /\ k.direct_connections[p] = {} /\ k.relayed_connections[p] = {}
            BY <2>1 DEF Untracked, has_direct_connection, has_relayed_connection
          <6>2. In(r, p, DirectStages) = {} /\ In(r, p, {"relayed"}) = {}
            BY <1>11, <6>1 DEF AgreeOn
          <6>3. In(r, p, OpenStages) = {}
            BY <4>2, <6>2 DEF In, OpenStages, RelayedStages, DirectStages
          <6>4. OpenStages \in SUBSET (OpenStages \cup DialStages)
            OBVIOUS
          <6> QED BY <1>5, <6>3, <6>4 DEF OneLess, open
        <5>2. full
          BY <1>4, <1>8, <2>1, <5>1
        <5> QED BY <1>1, <4>2, <5>2
      <4> QED BY <1>1, <1>9, <4>1, <4>2
    <3> QED BY <3>1, <3>2
  <2>2. CASE ~Untracked(k, p)
    <3>1. ~Untracked(cs, p)
      BY <1>4, <2>2 DEF Forgotten, Untracked, has_direct_connection, has_relayed_connection
    <3>2. tunnel.pending_by_peer[p] # {} => lookups[p] > 0
      BY <3>1 DEF IInv, LooksUp
    <3> QED BY <1>6, <2>2, <3>2 DEF Serves
  <2> QED BY <2>1, <2>2
<1>13. direct_peers' = {q \in Peers : In(r, q, DirectStages) # {}}
  <2>1. \A q \in Peers \ {p} : In(r, q, DirectStages) = In(pool, q, DirectStages)
    BY <1>5 DEF OneLess, Elsewhere
  <2>2. /\ cs.direct_connections[p] = In(pool, p, DirectStages)
        /\ In(r, p, DirectStages) = cs.direct_connections[p] \ {c}
    BY <1>2, <1>9 DEF Tracks
  <2>3. full => In(r, p, DirectStages) = {}
    BY <1>4, <1>11 DEF Untracked, has_direct_connection, AgreeOn
  <2>4. direct_peers = {q \in Peers : In(pool, q, DirectStages) # {}}
    BY DEF IInv, RegistryMatchesConnections
  <2>5. direct_peers' = IF full \/ (cs.direct_connections[p] # {}
                                    /\ cs.direct_connections[p] \subseteq {c})
                        THEN direct_peers \ {p} ELSE direct_peers
    BY <1>1, <1>7
  <2> QED BY <2>1, <2>2, <2>3, <2>4, <2>5
<1>14. Coupled(o.state, k, r) /\ Fit(o, k, r, lookups, queries)
  BY <1>10, <1>11, <1>12, EventAboutOne
<1>15. phase_changes' \in Nat
  BY <1>1 DEF IInv
<1> QED BY <1>1, <1>13, <1>14, <1>15, ProcessPreservesIInv DEF IInv

\* A connection that the node closed, or that broke, keeps the invariant.
LEMMA ClosedPreservesIInv ==
  ASSUME IInv, NEW p \in Peers, NEW c \in ConnIds,
         CloseCompletes(p, c) \/ ConnectionBreaks(p, c)
  PROVE  IInv'
<1>1. c \in In(pool, p, OpenStages)
  BY DEF CloseCompletes, ConnectionBreaks, In, OpenStages, DirectStages, RelayedStages
<1> QED BY <1>1, CloseHandlerPreservesIInv DEF CloseCompletes, ConnectionBreaks

-----------------------------------------------------------------------------
(* Dials that fail *)

\* Requests that leave p are looked up at their new peer or searched for again.
PassesOn(t, o, p) ==
  /\ o.state.pending_by_peer[p] = {}
  /\ \A q \in Peers \ {p} : \/ o.state.pending_by_peer[q] = t.pending_by_peer[q]
                            \/ DhtLookupPeer(q) \in o.commands
  /\ \A s \in Services : \/ o.state.pending_by_service[s] = t.pending_by_service[s]
                         \/ DhtGetProviders(s) \in o.commands

\* reroute_specs_after_dial_failure does that.
LEMMA RerouteOutcome ==
  ASSUME NEW t, MachineOK(t), NEW p \in Peers,
         NEW asg \in [t.pending_by_peer[p] -> (Peers \ {p}) \cup {NoPeer}]
  PROVE  PassesOn(t, reroute_specs_after_dial_failure(t, p, asg), p)
<1> DEFINE g == reroute_specs_after_dial_failure(t, p, asg)
           To(q) == {x \in t.pending_by_peer[p] : asg[x] = q}
           Requeued(s) == {x \in To(NoPeer) : ServiceOf[x] = s}
<1>1. g.commands = {DhtLookupPeer(q) : q \in {q2 \in Peers : To(q2) # {}}}
                     \cup {DhtGetProviders(s) : s \in {s2 \in Services : Requeued(s2) # {}}}
  BY DEF reroute_specs_after_dial_failure, Out
<1>2. GivesUp(t, g, p, asg)
  <2>1. asg \in [t.pending_by_peer[p] -> Peers \cup {NoPeer}]
    OBVIOUS
  <2> QED BY <2>1, RerouteFacts, Zenon
<1> HIDE DEF g
<1>3. To(p) = {}
  BY PeerAssumption
<1>4. /\ g.state.pending_by_peer[p] = To(p)
      /\ \A q \in Peers \ {p} : g.state.pending_by_peer[q] = t.pending_by_peer[q] \cup To(q)
      /\ \A s \in Services :
           g.state.pending_by_service[s] = t.pending_by_service[s] \cup Requeued(s)
  BY <1>2 DEF GivesUp
<1>5. /\ \A q \in Peers : To(q) = {} \/ DhtLookupPeer(q) \in g.commands
      /\ \A s \in Services : Requeued(s) = {} \/ DhtGetProviders(s) \in g.commands
  BY <1>1
<1> HIDE DEF To, Requeued
<1> QED BY <1>3, <1>4, <1>5 DEF PassesOn, g

\* What a failed dial of p may do: nothing is opened, sessions go on, and requests stay
\* or are passed on.
LeavesDial(t, o, p) ==
  /\ MachineOK(o.state) /\ Owned(o.state) /\ NoneOpened(o)
  /\ o.state.relayed_peers = t.relayed_peers
  /\ o.state.awaiting_holepunch = t.awaiting_holepunch
  /\ \A q \in Peers : /\ o.state.holepunch_sessions[q].phase = t.holepunch_sessions[q].phase
                      /\ o.state.holepunch_sessions[q].attempt_id =
                           t.holepunch_sessions[q].attempt_id
  /\ \A q \in Peers \ {p} : o.state.holepunch_sessions[q] = t.holepunch_sessions[q]
  /\ SameRequests(t, o.state) \/ PassesOn(t, o, p)

\* TunnelDialFailed leaves nobody pending for p, unless somebody waits for a direct path.
Undialled(t, o, p) ==
  /\ LeavesDial(t, o, p)
  /\ o.state.pending_by_peer[p] # {} => o.state.awaiting_holepunch[p] # {}

\* It does.
LEMMA DialFailedOutcome ==
  ASSUME NEW t, MachineOK(t), Owned(t), NEW p \in Peers, NEW aborted \in BOOLEAN,
         NEW asg \in [t.pending_by_peer[p] -> (Peers \ {p}) \cup {NoPeer}], NEW time
  PROVE  Undialled(t, TunnelDialFailed(t, p, aborted, asg, time), p)
<1> DEFINE o == TunnelDialFailed(t, p, aborted, asg, time)
           s == [t EXCEPT !.holepunch_sessions[p].dial_retry_dispatched = TRUE]
           g == reroute_specs_after_dial_failure(t, p, asg)
<1>1. \/ o = Out(t, {}) /\ (t.pending_by_peer[p] # {} => t.awaiting_holepunch[p] # {})
      \/ o = Out(s, {RedialCommand(t, p, time)}) /\ t.awaiting_holepunch[p] # {}
      \/ o = g
  BY DEF TunnelDialFailed
<1>2. GoodStep(t, o)
  BY DialFailedStep, Zenon
<1>3. CASE o = Out(t, {}) /\ (t.pending_by_peer[p] # {} => t.awaiting_holepunch[p] # {})
  <2>1. o.state = t /\ NoneOpened(o)
    BY <1>3 DEF Out, NoneOpened
  <2> HIDE DEF o
  <2> QED BY <1>2, <1>3, <2>1 DEF Undialled, LeavesDial, GoodStep, SameRequests, o
<1>4. CASE o = Out(s, {RedialCommand(t, p, time)}) /\ t.awaiting_holepunch[p] # {}
  <2>1. /\ SameRequests(t, s)
        /\ s.relayed_peers = t.relayed_peers
        /\ s.holepunch_sessions =
             [t.holepunch_sessions EXCEPT ![p].dial_retry_dispatched = TRUE]
    BY DEF MachineOK, SameRequests
  <2>2. o.state = s /\ NoneOpened(o)
    BY <1>4, RedialFacts DEF Out, NoneOpened
  <2> HIDE DEF s, o
  <2>3. \A q \in Peers :
          /\ s.holepunch_sessions[q].phase = t.holepunch_sessions[q].phase
          /\ s.holepunch_sessions[q].attempt_id = t.holepunch_sessions[q].attempt_id
          /\ q # p => s.holepunch_sessions[q] = t.holepunch_sessions[q]
    BY <2>1 DEF MachineOK, SessionsOK, IsSession
  <2> QED BY <1>2, <1>4, <2>1, <2>2, <2>3 DEF Undialled, LeavesDial, GoodStep, SameRequests, o
<1>5. CASE o = g
  <2>1. asg \in [t.pending_by_peer[p] -> Peers \cup {NoPeer}]
    OBVIOUS
  <2>2. /\ SameRetries(t, g.state)
        /\ g.state.holepunch_sessions = t.holepunch_sessions
        /\ GivesUp(t, g, p, asg)
    BY <2>1, RerouteFacts, Zenon
  <2>3. PassesOn(t, g, p)
    BY RerouteOutcome, Zenon
  <2> HIDE DEF o, g
  <2> QED BY <1>2, <1>5, <2>2, <2>3
          DEF Undialled, LeavesDial, PassesOn, GoodStep, SameRetries, GivesUp, o
<1> QED BY <1>1, <1>3, <1>4, <1>5

\* A failed dial is forgotten; the tracker changes nowhere else.
LEMMA DialErrorFacts ==
  ASSUME NEW k \in TrackerStates, NEW c \in ConnIds
  PROVE  LET r == on_outgoing_connection_error(k, c)
         IN  /\ r \in TrackerStates
             /\ r.relayed_connections = k.relayed_connections
             /\ r.direct_connections = k.direct_connections
             /\ r.hole_punch_attempts = k.hole_punch_attempts
             /\ r.hole_punch_deadlines = k.hole_punch_deadlines
  BY DEF on_outgoing_connection_error, TrackerStates, Dials, NoDial

\* What is left after a failed dial agrees and is fit, if somebody or something goes on
\* with the requests that stay pending.
LEMMA FailedDialIsFit ==
  ASSUME IInv, NEW p \in Peers, NEW c \in In(pool, p, DialStages),
         NEW o, LeavesDial(tunnel, o, p),
         NEW r, OneLess(pool, r, p, c),
         NEW k \in TrackerStates,
         k.relayed_connections = cs.relayed_connections,
         k.direct_connections = cs.direct_connections,
         k.hole_punch_attempts = cs.hole_punch_attempts,
         phase_changes' = phase_changes, pending_reconnects \subseteq pending_reconnects',
         /\ o.state.pending_by_peer[p] # {}
         /\ o.state.awaiting_holepunch[p] = {}
         /\ Untracked(cs, p)
         => \/ p \in pending_reconnects'
            \/ p \in BootstrapPeers /\ In(r, p, {"closing_relayed"}) # {}
  PROVE  /\ Coupled(o.state, k, r)
         /\ Fit(o, k, r, lookups, queries)
         /\ \A q \in Peers : In(r, q, DirectStages) = In(pool, q, DirectStages)
<1>1. /\ c \notin In(pool, p, DirectStages)
      /\ c \notin In(pool, p, RelayedStages)
      /\ c \notin In(pool, p, {"relayed"})
  BY DEF In, DialStages, DirectStages, RelayedStages
<1>2. /\ In(r, p, DirectStages) = In(pool, p, DirectStages)
      /\ In(r, p, RelayedStages) = In(pool, p, RelayedStages)
      /\ In(r, p, {"relayed"}) = In(pool, p, {"relayed"})
  <2>1. /\ DirectStages \in SUBSET (OpenStages \cup DialStages)
        /\ RelayedStages \in SUBSET (OpenStages \cup DialStages)
        /\ {"relayed"} \in SUBSET (OpenStages \cup DialStages)
    BY DEF OpenStages, DialStages, RelayedStages, DirectStages
  <2>2. /\ In(r, p, DirectStages) = In(pool, p, DirectStages) \ {c}
        /\ In(r, p, RelayedStages) = In(pool, p, RelayedStages) \ {c}
        /\ In(r, p, {"relayed"}) = In(pool, p, {"relayed"}) \ {c}
    BY <2>1 DEF OneLess
  <2>3. \A S : c \notin S => S \ {c} = S
    OBVIOUS
  <2> QED BY <1>1, <2>2, <2>3
<1>3. /\ Untracked(k, p) <=> Untracked(cs, p)
      /\ has_relayed_connection(k, p) <=> has_relayed_connection(cs, p)
  BY DEF Untracked, has_relayed_connection, has_direct_connection
<1>4. About(p, o, k, r)
  BY DEF About, LeavesDial, NoneOpened, SameRequests, PassesOn, OneLess
<1>5. AgreeOn(p, o.state, k, r)
  BY <1>2, <1>3 DEF AgreeOn, LeavesDial, IInv, Coupled, Tracks, Relays, Punches
<1>6. Serves(p, o, k, r)
  <2>1. o.state.pending_by_peer[p] # {} /\ ~Untracked(cs, p) => lookups[p] > 0
    BY DEF LeavesDial, SameRequests, PassesOn, IInv, LooksUp
  <2> QED BY <1>3, <2>1 DEF Serves, LeavesDial, NoneOpened
<1>7. Coupled(o.state, k, r) /\ Fit(o, k, r, lookups, queries)
  BY <1>4, <1>5, <1>6, EventAboutOne
<1>8. \A q \in Peers : In(r, q, DirectStages) = In(pool, q, DirectStages)
  BY <1>2 DEF OneLess, Elsewhere
<1> QED BY <1>7, <1>8

\* A dial that fails keeps the invariant.
LEMMA DialErrorPreservesIInv ==
  ASSUME IInv, NEW p \in Peers, NEW c \in In(pool, p, DialStages), DialErrorHandler(p, c)
  PROVE  IInv'
<1> DEFINE k == on_outgoing_connection_error(cs, c)
           r == [pool EXCEPT ![c] = Free]
           aborted == pool[c].stage = "aborted"
           idle == Out(tunnel, {})
<1>1. /\ p \in BootstrapPeers =>
           tunnel' = tunnel /\ cs' = k /\ Execute({}, r, lookups, queries)
      /\ p \notin BootstrapPeers =>
           \E asg \in RerouteChoices(tunnel, p) :
             Process(TunnelDialFailed(tunnel, p, aborted, asg, Now), k, r, lookups, queries)
      /\ pending_reconnects' = Rescheduled(p, r)
      /\ UNCHANGED <<direct_peers, phase_changes>>
  BY Zenon DEF DialErrorHandler
<1>2. /\ MachineOK(tunnel) /\ Owned(tunnel) /\ Tracks(cs, pool) /\ cs \in TrackerStates
      /\ pool \in [ConnIds -> {pool[d] : d \in ConnIds}]
  BY DEF IInv, Coupled, Tracks
<1>3. c \in ConnIds /\ pool[c].peer = p
  BY DEF In
<1>4. /\ k \in TrackerStates
      /\ k.relayed_connections = cs.relayed_connections
      /\ k.direct_connections = cs.direct_connections
      /\ k.hole_punch_attempts = cs.hole_punch_attempts
  <2>1. cs \in TrackerStates
    BY <1>2
  <2> QED BY <1>3, <2>1, DialErrorFacts, Zenon
<1>5. OneLess(pool, r, p, c)
  BY <1>2, <1>3, FreedPool, Zenon
<1> HIDE DEF k, r
<1>6. pending_reconnects \subseteq pending_reconnects'
  BY <1>1 DEF Rescheduled
<1>7. /\ phase_changes' \in Nat
      /\ phase_changes' = phase_changes
      /\ direct_peers' = {q \in Peers : In(pool, q, DirectStages) # {}}
  BY <1>1 DEF IInv, RegistryMatchesConnections
<1>8. CASE p \notin BootstrapPeers
  <2>1. PICK asg \in RerouteChoices(tunnel, p) :
          Process(TunnelDialFailed(tunnel, p, aborted, asg, Now), k, r, lookups, queries)
    BY <1>1, <1>8
  <2> DEFINE o == TunnelDialFailed(tunnel, p, aborted, asg, Now)
  <2>2. /\ asg \in [tunnel.pending_by_peer[p] -> (Peers \ {p}) \cup {NoPeer}]
        /\ aborted \in BOOLEAN
    BY DEF RerouteChoices
  <2>3. Undialled(tunnel, o, p)
    BY <1>2, <2>2, DialFailedOutcome, Zenon
  <2>4. Process(o, k, r, lookups, queries)
    BY <2>1
  <2> HIDE DEF o
  <2>5. /\ Coupled(o.state, k, r)
        /\ Fit(o, k, r, lookups, queries)
        /\ \A q \in Peers : In(r, q, DirectStages) = In(pool, q, DirectStages)
    BY <1>4, <1>5, <1>6, <1>7, <2>3, FailedDialIsFit DEF Undialled
  <2>6. direct_peers' = {q \in Peers : In(r, q, DirectStages) # {}}
    BY <1>7, <2>5
  <2> QED BY <1>7, <2>4, <2>5, <2>6, ProcessPreservesIInv DEF IInv
<1>9. CASE p \in BootstrapPeers
  <2>1. tunnel' = tunnel /\ cs' = k /\ Execute(idle.commands, r, lookups, queries)
    BY <1>1, <1>9 DEF Out
  <2>2. idle.state = tunnel /\ idle.commands = {}
    BY DEF Out
  <2> HIDE DEF idle
  <2>3. LeavesDial(tunnel, idle, p)
    BY <1>2, <2>2 DEF LeavesDial, NoneOpened, SameRequests
  <2>4. Untracked(cs, p) => \/ p \in pending_reconnects'
                            \/ In(r, p, {"closing_relayed"}) # {}
    <3> SUFFICES ASSUME Untracked(cs, p), is_connected(r, p)
                 PROVE  In(r, p, {"closing_relayed"}) # {}
      BY <1>1, <1>9 DEF Rescheduled
    <3>1. In(pool, p, DirectStages) = {} /\ In(pool, p, {"relayed"}) = {}
      BY <1>2 DEF Tracks, Untracked, has_direct_connection, has_relayed_connection
    <3>2. In(r, p, DirectStages) = {} /\ In(r, p, {"relayed"}) = {}
      <4>1. /\ DirectStages \in SUBSET (OpenStages \cup DialStages)
            /\ {"relayed"} \in SUBSET (OpenStages \cup DialStages)
        BY DEF OpenStages, RelayedStages
      <4> QED BY <1>5, <3>1, <4>1 DEF OneLess
    <3> QED BY <3>2 DEF is_connected, In, OpenStages, RelayedStages
  <2>5. /\ Coupled(idle.state, k, r)
        /\ Fit(idle, k, r, lookups, queries)
        /\ \A q \in Peers : In(r, q, DirectStages) = In(pool, q, DirectStages)
    BY <1>4, <1>5, <1>6, <1>7, <1>9, <2>3, <2>4, FailedDialIsFit
  <2>6. direct_peers' = {q \in Peers : In(r, q, DirectStages) # {}}
    BY <1>7, <2>5
  <2>7. WaitersHaveAnAttempt'
    BY <1>4, <2>1 DEF IInv, WaitersHaveAnAttempt, peer_is_relay_only, has_relayed_connection,
                      has_direct_connection
  <2>8. SameRequests(idle.state, tunnel')
    BY <2>1, <2>2 DEF SameRequests
  <2>9. /\ Coupled(tunnel', cs', r)
        /\ \A q \in Peers : Untracked(cs', q) <=> Untracked(k, q)
    BY <2>1, <2>2, <2>5
  <2> QED BY <1>7, <2>1, <2>5, <2>6, <2>7, <2>8, <2>9, ExecutePreservesIInv DEF IInv
<1> QED BY <1>8, <1>9

-----------------------------------------------------------------------------
(* The invariant, and what follows from it *)

\* At the start nothing is connected, nobody punches and the node is not ready.
LEMMA InitEstablishesIInv == Init => IInv
<1> SUFFICES ASSUME Init PROVE IInv
  OBVIOUS
<1>1. /\ tunnel = InitialTunnels
      /\ cs = NoConnections
      /\ pool \in BootstrapDials
      /\ phase_changes = 0
  BY DEF Init
<1>2. MachineOK(tunnel)
  <2>1. IsSession(NoSession)
    BY DEF IsSession, NoSession
  <2>2. SessionsOK([p \in Peers |-> NoSession])
    BY <2>1 DEF SessionsOK
  <2>3. /\ [p \in Peers |-> {x \in Specs : TargetOf[x] = p}] \in [Peers -> SUBSET Specs]
        /\ [s \in Services |-> {x \in Specs : TargetOf[x] = NoPeer /\ ServiceOf[x] = s}]
             \in [Services -> SUBSET Specs]
    OBVIOUS
  <2> QED BY <1>1, <2>2, <2>3 DEF MachineOK, InitialTunnels
<1>3. /\ \A p \in Peers : /\ tunnel.awaiting_holepunch[p] = {}
                          /\ tunnel.holepunch_retry_attempts[p] = 0
                          /\ tunnel.holepunch_sessions[p].phase = "None"
      /\ tunnel.relayed_peers = {} /\ tunnel.pending_retry_redial = {}
  BY <1>1 DEF InitialTunnels, NoSession
<1>4. cs \in TrackerStates
  BY <1>1 DEF NoConnections, TrackerStates, Dials, NoDial
<1>5. \A p \in Peers : /\ cs.relayed_connections[p] = {} /\ cs.direct_connections[p] = {}
                       /\ Untracked(cs, p)
  BY <1>1 DEF NoConnections, Untracked, has_direct_connection, has_relayed_connection
<1>6. /\ pool \in [ConnIds -> {pool[c] : c \in ConnIds}]
      /\ \A c \in ConnIds : pool[c].stage \in {"free", "dialing"}
  BY <1>1 DEF BootstrapDials, Free, Slot
<1>7. \A p \in Peers : /\ In(pool, p, DirectStages) = {}
                       /\ In(pool, p, {"relayed"}) = {}
  BY <1>6 DEF In, DirectStages
<1>8. Coupled(tunnel, cs, pool)
  <2>1. Owned(tunnel)
    BY <1>3, TunnelAssumption DEF Owned
  <2>2. Tracks(cs, pool)
    BY <1>4, <1>5, <1>6, <1>7 DEF Tracks
  <2>3. Relays(tunnel, cs) /\ Punches(tunnel, cs)
    BY <1>3, <1>5 DEF Relays, Punches, Untracked
  <2> QED BY <1>2, <2>1, <2>2, <2>3 DEF Coupled
<1>9. RegistryMatchesConnections
  BY <1>7 DEF Init, RegistryMatchesConnections
<1>10. WaitersHaveAnAttempt /\ LooksUp(tunnel, cs, lookups)
  BY <1>3, <1>5 DEF WaitersHaveAnAttempt, LooksUp
<1>11. TunnelsOpenOnTheRightPath
  BY DEF Init, TunnelsOpenOnTheRightPath, NotOpened
<1>12. ServiceRequestsAreDriven /\ PeerRequestsAreDriven
  BY <1>1 DEF ServiceRequestsAreDriven, PeerRequestsAreDriven
<1>13. lookups \in [Peers -> Nat] /\ queries \in [Services -> Nat] /\ phase_changes \in Nat
  BY DEF Init
<1> QED BY <1>8, <1>9, <1>10, <1>11, <1>12, <1>13 DEF IInv

\* Every iteration of the loop keeps the invariant.
LEMMA NextPreservesIInv == IInv /\ [Next]_vars => IInv'
<1> SUFFICES ASSUME IInv, [Next]_vars PROVE IInv'
  OBVIOUS
<1>1. CASE BecomeReady
  BY <1>1, BecomeReadyPreservesIInv
<1>2. CASE \E p \in Peers : LookupDone(p)
  BY <1>2, LookupDonePreservesIInv
<1>3. CASE \E s \in Services, found \in SUBSET Peers : ProvidersFound(s, found)
  BY <1>3, ProvidersFoundPreservesIInv
<1>4. CASE \E s \in Services : ProvidersNotFound(s)
  BY <1>4, ProvidersNotFoundPreservesIInv
<1>5. CASE \E p \in Peers, c \in ConnIds : DialEstablished(p, c) \/ IncomingEstablished(p, c)
  BY <1>5, EstablishedPreservesIInv
<1>6. CASE \E p \in Peers, c \in ConnIds : CloseCompletes(p, c) \/ ConnectionBreaks(p, c)
  BY <1>6, ClosedPreservesIInv
<1>7. CASE \E p \in Peers, c \in ConnIds : BehaviourDial(p, c)
  BY <1>7, BehaviourDialPreservesIInv
<1>8. CASE \E p \in Peers, c \in ConnIds : DialFails(p, c) \/ AbortReported(p, c)
  <2>1. PICK p \in Peers, c \in ConnIds : DialFails(p, c) \/ AbortReported(p, c)
    BY <1>8
  <2>2. c \in In(pool, p, DialStages) /\ DialErrorHandler(p, c)
    BY <2>1 DEF DialFails, AbortReported, In, DialStages
  <2> QED BY <2>2, DialErrorPreservesIInv
<1>9. CASE \E p \in BootstrapPeers : ReconnectDue(p)
  BY <1>9, ReconnectDuePreservesIInv
<1>10. CASE \E p \in Peers : DcutrFailed(p)
  BY <1>10, DcutrFailedPreservesIInv
<1>11. CASE \E p \in Peers : HolePunchTimeout(p)
  BY <1>11, HolePunchTimeoutPreservesIInv
<1>12. CASE \E p \in Peers, listen_addrs \in SUBSET Addrs : Identified(p, listen_addrs)
  BY <1>12, IdentifiedPreservesIInv
<1>13. CASE UNCHANGED vars
  <2>1. /\ Coupled(tunnel', cs', pool')
        /\ LooksUp(tunnel', cs', lookups')
    BY <1>13 DEF vars, IInv
  <2> QED BY <1>13, <2>1 DEF vars, IInv, RegistryMatchesConnections, WaitersHaveAnAttempt,
            TunnelsOpenOnTheRightPath, ServiceRequestsAreDriven, PeerRequestsAreDriven
<1> QED BY <1>1, <1>2, <1>3, <1>4, <1>5, <1>6, <1>7, <1>8, <1>9, <1>10, <1>11, <1>12, <1>13
        DEF Next

\* The invariant holds always.
LEMMA IInvHolds == Spec => []IInv
  BY InitEstablishesIInv, NextPreservesIInv, PTL DEF Spec

\* The two machines agree on the attempt a peer is in, however the failures, the
\* deadlines, the reconnects and the identifies of node/mod.rs interleave.
THEOREM SessionsFollow == Spec => []SessionsFollowAttempts
<1>1. IInv => SessionsFollowAttempts
  BY DEF IInv, Coupled, Punches, SessionsFollowAttempts
<1> QED BY <1>1, IInvHolds, PTL

\* The registry that tunnel tasks ask holds exactly the peers with a direct connection
\* after every iteration of the loop.
THEOREM RegistryIsRight == Spec => []RegistryMatchesConnections
<1>1. IInv => RegistryMatchesConnections
  BY DEF IInv
<1> QED BY <1>1, IInvHolds, PTL

\* relayed_peers of the tunnel machine keeps up with the connections of the tracker.
THEOREM RelayedAreConnected == Spec => []RelayedPeersAreConnected
<1>1. IInv => RelayedPeersAreConnected
  BY DEF IInv, Coupled, Relays, RelayedPeersAreConnected, peer_is_relay_only
<1> QED BY <1>1, IInvHolds, PTL

\* SpawnTunnel is executed on a connected peer, and over a relayed connection only
\* after the last retry.
THEOREM OpenedOnTheRightPath == Spec => []TunnelsOpenOnTheRightPath
<1>1. IInv => TunnelsOpenOnTheRightPath
  BY DEF IInv
<1> QED BY <1>1, IInvHolds, PTL

\* Once the node is ready, a service somebody waits for is always being searched.
THEOREM ServicesAreDriven == Spec => []ServiceRequestsAreDriven
<1>1. IInv => ServiceRequestsAreDriven
  BY DEF IInv
<1> QED BY <1>1, IInvHolds, PTL

\* Once the node is ready, a peer somebody waits for is always being looked up, dialled
\* or about to be, through every failed dial, reroute, close and reconnect.
THEOREM PeersAreDriven == Spec => []PeerRequestsAreDriven
<1>1. IInv => PeerRequestsAreDriven
  BY DEF IInv
<1> QED BY <1>1, IInvHolds, PTL

-----------------------------------------------------------------------------
(* The attempts of those who wait *)

\* Every attempt of the tracker k is punching with its deadline to come, or its
\* retry has asked for the connections to be closed, or it is spent (sp).  That
\* a deadline belongs to the attempt, and that a directly connected peer has
\* none, is what the induction needs besides.
Alive(t, k, sp) ==
  \A p \in Peers :
    LET attempt == k.hole_punch_attempts[p]
        phase   == t.holepunch_sessions[p].phase
    IN  /\ k.hole_punch_deadlines[p] = 0 \/ k.hole_punch_deadlines[p] = attempt
        /\ has_direct_connection(k, p) => attempt = 0
        /\ attempt # 0 => \/ phase = "Punching" /\ k.hole_punch_deadlines[p] = attempt
                          \/ phase = "WaitingDisconnect" /\ p \in t.pending_retry_redial
                          \/ sp[p] = attempt

AInv ==
  /\ spent \in [Peers -> Nat]
  /\ Alive(tunnel, cs, spent)

\* An attempt that is armed is punching and has its deadline.
LEMMA ArmKeepsAlive ==
  ASSUME NEW t, MachineOK(t), NEW k \in TrackerStates, NEW sp, Alive(t, k, sp), Arm(t, k)
  PROVE  Alive(tunnel', cs', sp)
<1>1. ArmedFrom(t, k)
  BY ArmFacts
<1>2. \A p \in Armed(t, k) : ~has_direct_connection(k, p)
  BY DEF Armed, holepunch_target_peers, MayStartAttempt, peer_is_relay_only
<1>3. \A p \in Peers : has_direct_connection(cs', p) <=> has_direct_connection(k, p)
  BY <1>1 DEF ArmedFrom, has_direct_connection
<1> QED BY <1>1, <1>2, <1>3 DEF ArmedFrom, SameRetries, Alive

\* A transition that keeps the phases, on a tracker that keeps attempts, deadlines and
\* direct connections.
LEMMA QuietKeepsAlive ==
  ASSUME NEW t, NEW k, NEW sp, Alive(t, k, sp), NEW r, SamePhases(t, r),
         r.pending_retry_redial = t.pending_retry_redial, NEW j,
         j.hole_punch_attempts = k.hole_punch_attempts,
         j.hole_punch_deadlines = k.hole_punch_deadlines,
         j.direct_connections = k.direct_connections
  PROVE  Alive(r, j, sp)
  BY DEF Alive, SamePhases, has_direct_connection

\* What the loop processes keeps AInv, if the outcome is alive before the arming.
LEMMA ProcessKeepsAlive ==
  ASSUME NEW o, MachineOK(o.state), NEW k \in TrackerStates, NEW pl, NEW ls, NEW qs,
         Process(o, k, pl, ls, qs), spent' \in [Peers -> Nat], Alive(o.state, k, spent')
  PROVE  AInv'
<1>1. Arm(o.state, k)
  BY DEF Process
<1> QED BY <1>1, ArmKeepsAlive DEF AInv

\* So does a quiet event of a machine that knows all connections as before.
LEMMA QuietEventKeepsAlive ==
  ASSUME AInv, NEW o, MachineOK(o.state), SamePhases(tunnel, o.state),
         o.state.pending_retry_redial = tunnel.pending_retry_redial,
         NEW k \in TrackerStates,
         k.hole_punch_attempts = cs.hole_punch_attempts,
         k.hole_punch_deadlines = cs.hole_punch_deadlines,
         k.direct_connections = cs.direct_connections,
         NEW pl, NEW ls, NEW qs, Process(o, k, pl, ls, qs), UNCHANGED spent
  PROVE  AInv'
<1>1. Alive(o.state, k, spent)
  BY QuietKeepsAlive DEF AInv
<1> QED BY <1>1, ProcessKeepsAlive DEF AInv

\* What the DHT answers, and an identify.
LEMMA AnswerKeepsAlive ==
  ASSUME IInv, AInv,
         \/ BecomeReady
         \/ \E p \in Peers : LookupDone(p)
         \/ \E s \in Services, found \in SUBSET Peers : ProvidersFound(s, found)
         \/ \E s \in Services : ProvidersNotFound(s)
         \/ \E p \in Peers, listen_addrs \in SUBSET Addrs : Identified(p, listen_addrs)
  PROVE  AInv'
<1>1. MachineOK(tunnel) /\ Owned(tunnel) /\ cs \in TrackerStates
  BY DEF IInv, Coupled, Tracks
<1>2. ASSUME NEW o, MachineOK(o.state), SamePhases(tunnel, o.state),
             o.state.pending_retry_redial = tunnel.pending_retry_redial,
             NEW ls, NEW qs, Process(o, cs, pool, ls, qs), UNCHANGED spent
      PROVE  AInv'
  BY <1>1, <1>2, QuietEventKeepsAlive
<1>3. SamePhases(tunnel, tunnel)
  BY DEF SamePhases
<1>4. CASE BecomeReady
  <2> DEFINE o == PhaseChangedReady(tunnel)
  <2>1. o.state = tunnel /\ Process(o, cs, pool, lookups, queries) /\ UNCHANGED spent
    BY <1>4 DEF BecomeReady, PhaseChangedReady, Out
  <2> HIDE DEF o
  <2> QED BY <1>1, <1>2, <1>3, <2>1
<1>5. ASSUME NEW p \in Peers, LookupDone(p)
      PROVE  AInv'
  <2> DEFINE o == DhtPeerLookupComplete(tunnel, p, is_connected(pool, p))
             ls == [lookups EXCEPT ![p] = @ - 1]
  <2>1. /\ Process(o, cs, pool, ls, queries) /\ UNCHANGED spent
        /\ is_connected(pool, p) \in BOOLEAN
    BY <1>5 DEF LookupDone, is_connected
  <2>2. GoodStep(tunnel, o)
    BY <1>1, <2>1, LookupStep, Zenon
  <2>3. SameRetries(tunnel, o.state) /\ o.state.holepunch_sessions = tunnel.holepunch_sessions
    BY <1>1, <2>1, LookupFacts, Zenon
  <2> HIDE DEF o, ls
  <2> QED BY <1>2, <2>1, <2>2, <2>3 DEF GoodStep, SameRetries, SamePhases
<1>6. ASSUME NEW s \in Services, NEW found \in SUBSET Peers, ProvidersFound(s, found)
      PROVE  AInv'
  <2> DEFINE Listed(order) ==
               [i \in DOMAIN order |->
                  [peer |-> order[i], connected |-> is_connected(pool, order[i])]]
             qs == [queries EXCEPT ![s] = @ - 1]
  <2>1. PICK order \in SetToSeqs(found) :
          Process(DhtServiceResolved(tunnel, s, Listed(order)), cs, pool, lookups, qs)
    BY <1>6 DEF ProvidersFound
  <2> DEFINE providers == Listed(order)
             o == DhtServiceResolved(tunnel, s, providers)
  <2>2. providers # <<>> => Head(providers).peer \in Peers
    BY FirstOfOrder
  <2>3. Process(o, cs, pool, lookups, qs) /\ UNCHANGED spent
    BY <1>6, <2>1 DEF ProvidersFound
  <2> HIDE DEF providers, qs
  <2>4. GoodStep(tunnel, o)
    BY <1>1, <2>2, ResolvedStep, Zenon
  <2>5. SameRetries(tunnel, o.state) /\ o.state.holepunch_sessions = tunnel.holepunch_sessions
    BY <1>1, <2>2, ResolvedFacts, Zenon
  <2> HIDE DEF o
  <2> QED BY <1>2, <2>3, <2>4, <2>5 DEF GoodStep, SameRetries, SamePhases
<1>7. ASSUME NEW s \in Services, ProvidersNotFound(s)
      PROVE  AInv'
  <2> DEFINE o == DhtServiceFailed(tunnel, s)
             qs == [queries EXCEPT ![s] = @ - 1]
  <2>1. o.state = tunnel /\ Process(o, cs, pool, lookups, qs) /\ UNCHANGED spent
    BY <1>7 DEF ProvidersNotFound, DhtServiceFailed, Out
  <2> HIDE DEF o, qs
  <2> QED BY <1>1, <1>2, <1>3, <2>1
<1>8. ASSUME NEW p \in Peers, NEW listen_addrs \in SUBSET Addrs, Identified(p, listen_addrs)
      PROVE  AInv'
  <2> DEFINE o == PeerIdentified(tunnel, p, listen_addrs, Now)
  <2>1. Process(o, cs, pool, lookups, queries) /\ UNCHANGED spent
    BY <1>8 DEF Identified
  <2>2. GoodStep(tunnel, o)
    BY <1>1, IdentifiedStep, Zenon
  <2>3. SameRetries(tunnel, o.state)
    BY <1>1, IdentifiedFacts, Zenon
  <2>4. SamePhases(tunnel, o.state)
    BY <1>1, IdentifiedOutcome, Zenon
  <2> HIDE DEF o
  <2> QED BY <1>2, <2>1, <2>2, <2>3, <2>4 DEF GoodStep, SameRetries
<1> QED BY <1>4, <1>5, <1>6, <1>7, <1>8

\* A relayed connection may start an attempt, which punches and has its deadline.
LEMMA RelayedKeepsAlive ==
  ASSUME IInv, AInv, NEW p \in Peers, NEW c \in ConnIds, RelayedEstablished(p, c)
  PROVE  AInv'
<1> DEFINE k1 == on_relayed_established(cs, p, c)
           starts == has_holepunch_intent(tunnel, p) /\ MayStartAttempt(k1, p)
           k == IF starts THEN start_hole_punch_attempt(k1, p) ELSE k1
           t == IF starts THEN begin_holepunch_attempt(tunnel, p, k.hole_punch_attempts[p])
                ELSE tunnel
           o == TunnelPeerConnected(t, p, TRUE)
           r == [pool EXCEPT ![c] = Slot(p, "relayed")]
<1>1. Process(o, k, r, lookups, queries) /\ UNCHANGED spent
  BY Zenon DEF RelayedEstablished
<1>2. MachineOK(tunnel) /\ Owned(tunnel) /\ cs \in TrackerStates
  BY DEF IInv, Coupled, Tracks
<1>3. /\ k1 \in TrackerStates
      /\ k1.direct_connections = cs.direct_connections
      /\ k1.hole_punch_attempts = cs.hole_punch_attempts
      /\ k1.hole_punch_deadlines = cs.hole_punch_deadlines
  <2>1. cs \in TrackerStates
    BY <1>2
  <2> QED BY <2>1, RelayedFacts
<1> HIDE DEF k1
<1>4. /\ k \in TrackerStates
      /\ k.direct_connections = k1.direct_connections
      /\ \A q \in Peers : q # p \/ ~starts =>
           /\ k.hole_punch_attempts[q] = k1.hole_punch_attempts[q]
           /\ k.hole_punch_deadlines[q] = k1.hole_punch_deadlines[q]
      /\ k.hole_punch_deadlines[p] = k.hole_punch_attempts[p] \/ ~starts
      /\ starts => ~has_direct_connection(k, p)
  <2>1. CASE starts
    <3>1. Started(k1, k, p, k1.hole_punch_attempt_seq[p] + 1)
      BY <1>3, <2>1, StartFacts
    <3>2. ~has_direct_connection(k1, p)
      BY <2>1 DEF MayStartAttempt, peer_is_relay_only
    <3> HIDE DEF k, starts
    <3> QED BY <1>3, <2>1, <3>1, <3>2 DEF Started, TrackerStates, has_direct_connection
  <2>2. CASE ~starts
    BY <1>3, <2>2
  <2> QED BY <2>1, <2>2
<1> HIDE DEF k
<1>5. /\ MachineOK(t) /\ Owned(t) /\ t.pending_retry_redial = tunnel.pending_retry_redial
      /\ \A q \in Peers : q # p \/ ~starts =>
           t.holepunch_sessions[q].phase = tunnel.holepunch_sessions[q].phase
      /\ starts => t.holepunch_sessions[p].phase = "Punching"
  <2>1. CASE starts
    <3>1. Begun(tunnel, t, p, k.hole_punch_attempts[p])
      BY <1>2, <2>1, BeginFacts
    <3> HIDE DEF t, starts
    <3> QED BY <2>1, <3>1 DEF Begun, SameRetries
  <2>2. CASE ~starts
    BY <1>2, <2>2
  <2> QED BY <2>1, <2>2
<1> HIDE DEF t, starts
<1>6. o.state.pending_retry_redial = t.pending_retry_redial
  BY <1>5 DEF TunnelPeerConnected, Out, MachineOK
<1>7. HeldBack(t, o, p)
  BY <1>5, RelayedOutcome, Zenon
<1> HIDE DEF o, r
<1>8. \A q \in Peers : has_direct_connection(k, q) <=> has_direct_connection(cs, q)
  BY <1>3, <1>4 DEF has_direct_connection
<1>9. Alive(o.state, k, spent)
  <2> SUFFICES ASSUME NEW q \in Peers
               PROVE  LET attempt == k.hole_punch_attempts[q]
                          phase   == o.state.holepunch_sessions[q].phase
                      IN  /\ k.hole_punch_deadlines[q] = 0 \/ k.hole_punch_deadlines[q] = attempt
                          /\ has_direct_connection(k, q) => attempt = 0
                          /\ attempt # 0 =>
                               \/ phase = "Punching" /\ k.hole_punch_deadlines[q] = attempt
                               \/ /\ phase = "WaitingDisconnect"
                                  /\ q \in o.state.pending_retry_redial
                               \/ spent[q] = attempt
    BY DEF Alive
  <2>1. o.state.holepunch_sessions = t.holepunch_sessions
    BY <1>7 DEF HeldBack
  <2>2. CASE q = p /\ starts
    BY <1>4, <1>5, <2>1, <2>2
  <2>3. CASE q # p \/ ~starts
    BY <1>3, <1>4, <1>5, <1>6, <1>8, <2>1, <2>3 DEF AInv, Alive
  <2> QED BY <2>2, <2>3
<1> QED BY <1>1, <1>4, <1>7, <1>9, ProcessKeepsAlive DEF AInv, HeldBack

\* A direct connection ends the attempt.
LEMMA DirectKeepsAlive ==
  ASSUME IInv, AInv, NEW p \in Peers, NEW c \in ConnIds, DirectEstablished(p, c)
  PROVE  AInv'
<1> DEFINE k == on_direct_established(cs, p, c)
           closed == [d \in ConnIds |-> IF d \in cs.relayed_connections[p]
                                           /\ pool[d].stage = "relayed"
                                        THEN Slot(p, "closing_relayed") ELSE pool[d]]
           o == TunnelPeerConnected(tunnel, p, FALSE)
           r == [closed EXCEPT ![c] = Slot(p, "direct")]
           cleared == clear_retry_state(tunnel, p)
<1>1. Process(o, k, r, lookups, queries) /\ UNCHANGED spent
  BY Zenon DEF DirectEstablished
<1>2. MachineOK(tunnel) /\ Owned(tunnel) /\ cs \in TrackerStates
  BY DEF IInv, Coupled, Tracks
<1>3. Upgraded(cs, k, p, c)
  BY <1>2, DirectFacts, Zenon
<1>4. LetThrough(tunnel, o, p)
  BY <1>2, DirectOutcome, Zenon
<1>5. o.state.pending_retry_redial = tunnel.pending_retry_redial \ {p}
  <2>1. MachineOK(cleared) /\ cleared.pending_retry_redial = tunnel.pending_retry_redial \ {p}
    BY <1>2, ClearFacts
  <2>2. o.state = [cleared EXCEPT !.relayed_peers = @ \ {p},
                                  !.pending_by_peer[p] = {},
                                  !.awaiting_holepunch[p] = {}]
    BY DEF TunnelPeerConnected, Out
  <2> HIDE DEF o, cleared
  <2> QED BY <2>1, <2>2 DEF MachineOK
<1> HIDE DEF k, o, r
<1>6. /\ k \in TrackerStates
      /\ k.hole_punch_attempts[p] = 0 /\ k.hole_punch_deadlines[p] = 0
      /\ \A q \in Peers \ {p} :
           /\ k.hole_punch_attempts[q] = cs.hole_punch_attempts[q]
           /\ k.hole_punch_deadlines[q] = cs.hole_punch_deadlines[q]
           /\ has_direct_connection(k, q) <=> has_direct_connection(cs, q)
  BY <1>2, <1>3 DEF Upgraded, TrackerStates, has_direct_connection
<1>7. Alive(o.state, k, spent)
  BY <1>4, <1>5, <1>6 DEF AInv, Alive, LetThrough
<1> QED BY <1>1, <1>4, <1>6, <1>7, ProcessKeepsAlive DEF AInv, LetThrough

\* The last tracked connection takes the attempt with it, or leaves it spent.
LEMMA ClosedKeepsAlive ==
  ASSUME IInv, AInv, NEW p \in Peers, NEW c \in ConnIds, CloseHandler(p, c)
  PROVE  AInv'
<1> DEFINE remaining == Cardinality(In(pool, p, OpenStages) \ {c})
           k == on_connection_closed(cs, p, c, remaining)
           full == peer_fully_disconnected(cs, p, c, remaining)
           o == IF Untracked(k, p) THEN ConnectionLostAll(tunnel, p, Now) ELSE Out(tunnel, {})
           r == [pool EXCEPT ![c] = Free]
<1>1. /\ Process(o, k, r, lookups, queries)
      /\ Spend(p, k.hole_punch_attempts[p], Untracked(k, p))
  BY Zenon DEF CloseHandler
<1>2. MachineOK(tunnel) /\ Owned(tunnel) /\ cs \in TrackerStates
  BY DEF IInv, Coupled, Tracks
<1>3. /\ Forgotten(cs, k, p, c, full)
      /\ full <=> remaining = 0 /\ Untracked(k, p)
  <2>1. cs \in TrackerStates
    BY <1>2
  <2> QED BY <2>1, ClosedFacts, Zenon
<1> HIDE DEF k, r, full, remaining
<1>4. /\ MachineOK(o.state)
      /\ ~Untracked(k, p) => o.state = tunnel
      /\ \A q \in Peers \ {p} :
           /\ o.state.holepunch_sessions[q] = tunnel.holepunch_sessions[q]
           /\ q \in o.state.pending_retry_redial <=> q \in tunnel.pending_retry_redial
  <2> DEFINE lost == ConnectionLostAll(tunnel, p, Now)
  <2>1. CASE Untracked(k, p)
    <3>1. o = lost
      BY <2>1
    <3>2. Dropped(tunnel, lost, p)
      BY <1>2, LostOutcome, Zenon
    <3>3. lost.state.pending_retry_redial = tunnel.pending_retry_redial \ {p}
      BY <1>2, LostFacts, Zenon
    <3> HIDE DEF o, lost
    <3> QED BY <2>1, <3>1, <3>2, <3>3 DEF Dropped, Unpunched
  <2>2. CASE ~Untracked(k, p)
    <3>1. o.state = tunnel
      BY <2>2 DEF Out
    <3> HIDE DEF o
    <3> QED BY <1>2, <3>1
  <2> QED BY <2>1, <2>2
<1> HIDE DEF o
<1>5. \A q \in Peers : has_direct_connection(k, q) => has_direct_connection(cs, q)
  BY <1>3 DEF Forgotten, has_direct_connection
<1>6. k.hole_punch_attempts[p] \in Nat /\ k \in TrackerStates
  BY <1>3 DEF Forgotten, TrackerStates
<1>7. /\ spent' \in [Peers -> Nat]
      /\ \A q \in Peers \ {p} : spent'[q] = spent[q]
      /\ Untracked(k, p) => spent'[p] = k.hole_punch_attempts[p]
      /\ ~Untracked(k, p) => spent'[p] = spent[p]
  BY <1>1, <1>6 DEF Spend, AInv
<1>8. Alive(o.state, k, spent')
  <2> SUFFICES ASSUME NEW q \in Peers
               PROVE  LET attempt == k.hole_punch_attempts[q]
                          phase   == o.state.holepunch_sessions[q].phase
                      IN  /\ k.hole_punch_deadlines[q] = 0 \/ k.hole_punch_deadlines[q] = attempt
                          /\ has_direct_connection(k, q) => attempt = 0
                          /\ attempt # 0 =>
                               \/ phase = "Punching" /\ k.hole_punch_deadlines[q] = attempt
                               \/ /\ phase = "WaitingDisconnect"
                                  /\ q \in o.state.pending_retry_redial
                               \/ spent'[q] = attempt
    BY DEF Alive
  <2>1. CASE q # p
    BY <1>3, <1>4, <1>5, <1>7, <2>1 DEF AInv, Alive, Forgotten
  <2>2. CASE q = p /\ Untracked(k, p)
    BY <1>3, <1>5, <1>7, <2>2 DEF AInv, Alive, Forgotten
  <2>3. CASE q = p /\ ~Untracked(k, p)
    BY <1>3, <1>4, <1>5, <1>7, <2>3 DEF AInv, Alive, Forgotten
  <2> QED BY <2>1, <2>2, <2>3
<1> QED BY <1>1, <1>4, <1>6, <1>7, <1>8, ProcessKeepsAlive

\* A failed dial leaves attempts and phases alone.
LEMMA DialErrorKeepsAlive ==
  ASSUME IInv, AInv, NEW p \in Peers, NEW c \in ConnIds, DialErrorHandler(p, c)
  PROVE  AInv'
<1> DEFINE k == on_outgoing_connection_error(cs, c)
           r == [pool EXCEPT ![c] = Free]
           aborted == pool[c].stage = "aborted"
<1>1. /\ p \in BootstrapPeers => tunnel' = tunnel /\ cs' = k
      /\ p \notin BootstrapPeers =>
           \E asg \in RerouteChoices(tunnel, p) :
             Process(TunnelDialFailed(tunnel, p, aborted, asg, Now), k, r, lookups, queries)
      /\ UNCHANGED spent
  BY Zenon DEF DialErrorHandler
<1>2. MachineOK(tunnel) /\ Owned(tunnel) /\ cs \in TrackerStates
  BY DEF IInv, Coupled, Tracks
<1>3. /\ k \in TrackerStates
      /\ k.direct_connections = cs.direct_connections
      /\ k.hole_punch_attempts = cs.hole_punch_attempts
      /\ k.hole_punch_deadlines = cs.hole_punch_deadlines
  <2>1. cs \in TrackerStates
    BY <1>2
  <2> QED BY <2>1, DialErrorFacts
<1> HIDE DEF k, r
<1>4. CASE p \notin BootstrapPeers
  <2>1. PICK asg \in RerouteChoices(tunnel, p) :
          Process(TunnelDialFailed(tunnel, p, aborted, asg, Now), k, r, lookups, queries)
    BY <1>1, <1>4
  <2> DEFINE o == TunnelDialFailed(tunnel, p, aborted, asg, Now)
  <2>2. /\ asg \in [tunnel.pending_by_peer[p] -> (Peers \ {p}) \cup {NoPeer}]
        /\ asg \in [tunnel.pending_by_peer[p] -> Peers \cup {NoPeer}]
        /\ aborted \in BOOLEAN
    BY DEF RerouteChoices
  <2>3. SameRetries(tunnel, o.state)
    BY <1>2, <2>2, DialFailedFacts, Zenon
  <2>4. Undialled(tunnel, o, p)
    BY <1>2, <2>2, DialFailedOutcome, Zenon
  <2>5. Process(o, k, r, lookups, queries)
    BY <2>1
  <2> HIDE DEF o
  <2>6. /\ MachineOK(o.state) /\ SamePhases(tunnel, o.state)
        /\ o.state.pending_retry_redial = tunnel.pending_retry_redial
    BY <2>3, <2>4 DEF Undialled, LeavesDial, SamePhases, SameRetries
  <2> QED BY <1>1, <1>3, <2>5, <2>6, QuietEventKeepsAlive
<1>5. CASE p \in BootstrapPeers
  <2>1. Alive(tunnel, k, spent)
    BY <1>3, QuietKeepsAlive DEF AInv, SamePhases
  <2> QED BY <1>1, <1>5, <2>1 DEF AInv
<1> QED BY <1>4, <1>5

\* What the failure of attempt id does to the sessions: none, or a retry, or the end of
\* the session.
Retried(t, o, p, id) ==
  /\ MachineOK(o.state)
  /\ \A q \in Peers \ {p} :
       /\ o.state.holepunch_sessions[q] = t.holepunch_sessions[q]
       /\ q \in o.state.pending_retry_redial <=> q \in t.pending_retry_redial
  /\ ~RetryApplies(t, p, id) => o.state = t
  /\ RetryApplies(t, p, id) /\ ~RetriesExhausted(t, p) =>
       /\ o.state.holepunch_sessions[p].phase = "WaitingDisconnect"
       /\ p \in o.state.pending_retry_redial

\* HolePunchAttemptFailed does that.
LEMMA RetryOutcome ==
  ASSUME NEW t, MachineOK(t), Owned(t), NEW p \in Peers, NEW id
  PROVE  Retried(t, HolePunchAttemptFailed(t, p, id), p, id)
<1> DEFINE o == HolePunchAttemptFailed(t, p, id)
           c == clear_retry_state(t, p)
           gone == [c EXCEPT !.awaiting_holepunch[p] = {}]
           again == [t EXCEPT !.holepunch_retry_attempts[p] = @ + 1,
                              !.pending_retry_redial = @ \cup {p},
                              !.holepunch_sessions[p].phase = "WaitingDisconnect"]
<1>1. MachineOK(o.state)
  <2>1. GoodStep(t, o)
    BY FailedStep, Zenon
  <2> HIDE DEF o
  <2> QED BY <2>1 DEF GoodStep
<1>2. CASE ~RetryApplies(t, p, id)
  <2>1. o.state = t
    BY <1>2 DEF HolePunchAttemptFailed, retry_holepunch_attempt, Out
  <2> HIDE DEF o
  <2> QED BY <1>1, <1>2, <2>1 DEF Retried, o
<1>3. CASE RetryApplies(t, p, id) /\ RetriesExhausted(t, p)
  <2>1. o.state = gone
    BY <1>3 DEF HolePunchAttemptFailed, retry_holepunch_attempt, Out
  <2>2. /\ MachineOK(c)
        /\ c.pending_retry_redial = t.pending_retry_redial \ {p}
        /\ c.holepunch_sessions = [t.holepunch_sessions EXCEPT ![p] = NoSession]
    BY ClearFacts
  <2> HIDE DEF c, o
  <2>3. /\ gone.pending_retry_redial = t.pending_retry_redial \ {p}
        /\ gone.holepunch_sessions = [t.holepunch_sessions EXCEPT ![p] = NoSession]
    BY <2>2 DEF MachineOK
  <2> HIDE DEF gone
  <2>4. \A q \in Peers \ {p} : gone.holepunch_sessions[q] = t.holepunch_sessions[q]
    BY <2>3 DEF MachineOK, SessionsOK
  <2> QED BY <1>1, <1>3, <2>1, <2>3, <2>4 DEF Retried, o
<1>4. CASE RetryApplies(t, p, id) /\ ~RetriesExhausted(t, p)
  <2>1. o.state = again
    BY <1>4 DEF HolePunchAttemptFailed, retry_holepunch_attempt, Out
  <2>2. /\ again.pending_retry_redial = t.pending_retry_redial \cup {p}
        /\ again.holepunch_sessions =
             [t.holepunch_sessions EXCEPT ![p].phase = "WaitingDisconnect"]
    BY DEF MachineOK
  <2> HIDE DEF o, again
  <2>3. /\ again.holepunch_sessions[p].phase = "WaitingDisconnect"
        /\ \A q \in Peers \ {p} : again.holepunch_sessions[q] = t.holepunch_sessions[q]
    BY <2>2 DEF MachineOK, SessionsOK, IsSession
  <2> QED BY <1>1, <1>4, <2>1, <2>2, <2>3 DEF Retried, o
<1> QED BY <1>2, <1>3, <1>4

\* The end of an attempt, by DCUtR or by its deadline: it is retried or spent.
LEMMA FailureKeepsAlive ==
  ASSUME IInv, AInv, NEW p \in Peers, DcutrFailed(p) \/ HolePunchTimeout(p)
  PROVE  AInv'
<1>1. MachineOK(tunnel) /\ Owned(tunnel) /\ cs \in TrackerStates
  BY DEF IInv, Coupled, Tracks
<1>2. /\ tunnel.holepunch_sessions[p].phase = "Punching" =>
           tunnel.holepunch_sessions[p].attempt_id = cs.hole_punch_attempts[p]
      /\ tunnel.holepunch_sessions[p].phase = "Punching" => ~Untracked(cs, p)
      /\ cs.hole_punch_attempts[p] \in Nat /\ cs.hole_punch_deadlines[p] \in Nat
  BY <1>1 DEF IInv, Coupled, Punches, TrackerStates
<1>3. CASE DcutrFailed(p)
  <2> DEFINE id == cs.hole_punch_attempts[p]
             o == HolePunchAttemptFailed(tunnel, p, id)
  <2>1. Process(o, cs, pool, lookups, queries) /\ Spend(p, id, FallsBack(p, id))
    BY <1>3 DEF DcutrFailed
  <2>2. Retried(tunnel, o, p, id)
    BY <1>1, RetryOutcome, Zenon
  <2> HIDE DEF o
  <2>3. /\ spent' \in [Peers -> Nat]
        /\ \A q \in Peers \ {p} : spent'[q] = spent[q]
        /\ spent'[p] = IF FallsBack(p, id) THEN id ELSE spent[p]
    BY <1>2, <2>1 DEF Spend, AInv
  <2>4. Alive(o.state, cs, spent')
    BY <2>2, <2>3 DEF AInv, Alive, Retried, FallsBack
  <2> QED BY <1>1, <2>1, <2>2, <2>3, <2>4, ProcessKeepsAlive DEF Retried
<1>4. CASE HolePunchTimeout(p)
  <2> DEFINE id == cs.hole_punch_deadlines[p]
             relayOnly == peer_is_relay_only(cs, p)
             o == IF relayOnly THEN HolePunchAttemptFailed(tunnel, p, id) ELSE Out(tunnel, {})
             over == tunnel.awaiting_holepunch[p] = {} \/ FallsBack(p, id)
  <2>1. /\ id # 0
        /\ cs' = take_due_hole_punch_timeouts(cs, {p})
        /\ tunnel' = o.state
        /\ Spend(p, id, over)
    BY <1>4 DEF HolePunchTimeout
  <2>2. /\ cs'.direct_connections = cs.direct_connections
        /\ cs'.hole_punch_attempts = cs.hole_punch_attempts
        /\ cs'.hole_punch_deadlines =
             [q \in Peers |-> IF q \in {p} THEN 0 ELSE cs.hole_punch_deadlines[q]]
    BY <1>1, <2>1, TimeoutFacts
  <2>3. id = cs.hole_punch_attempts[p]
    BY <2>1 DEF AInv, Alive
  <2>4. CASE ~relayOnly
    <3>1. tunnel' = tunnel
      BY <2>1, <2>4 DEF Out
    <3>2. tunnel.holepunch_sessions[p].phase # "Punching"
      BY <1>2, <2>1, <2>3, <2>4 DEF AInv, Alive, Untracked, peer_is_relay_only
    <3>3. /\ spent' \in [Peers -> Nat]
          /\ \A q \in Peers \ {p} : spent'[q] = spent[q]
          /\ spent'[p] = id \/ spent'[p] = spent[p]
      BY <1>2, <2>1 DEF Spend, AInv
    <3>4. Alive(tunnel, cs', spent')
      BY <2>2, <2>3, <3>2, <3>3 DEF AInv, Alive, has_direct_connection
    <3> QED BY <3>1, <3>3, <3>4 DEF AInv
  <2>5. CASE relayOnly
    <3>1. o = HolePunchAttemptFailed(tunnel, p, id)
      BY <2>5
    <3>2. Retried(tunnel, o, p, id)
      BY <1>1, <3>1, RetryOutcome
    <3> HIDE DEF o
    <3>3. /\ spent' \in [Peers -> Nat]
          /\ \A q \in Peers \ {p} : spent'[q] = spent[q]
          /\ spent'[p] = IF over THEN id ELSE spent[p]
      BY <1>2, <2>1 DEF Spend, AInv
    <3>4. /\ tunnel.holepunch_sessions[p].phase = "Punching" /\ ~over =>
               RetryApplies(tunnel, p, id) /\ ~RetriesExhausted(tunnel, p)
          /\ RetryApplies(tunnel, p, id) => tunnel.holepunch_sessions[p].phase = "Punching"
      BY <1>2, <2>3 DEF RetryApplies, FallsBack
    <3> HIDE DEF over, id
    <3>5. Alive(o.state, cs', spent')
      <4> SUFFICES ASSUME NEW q \in Peers
                   PROVE  LET attempt == cs'.hole_punch_attempts[q]
                              phase   == o.state.holepunch_sessions[q].phase
                              deadline == cs'.hole_punch_deadlines[q]
                          IN  /\ deadline = 0 \/ deadline = attempt
                              /\ has_direct_connection(cs', q) => attempt = 0
                              /\ attempt # 0 =>
                                   \/ phase = "Punching" /\ deadline = attempt
                                   \/ /\ phase = "WaitingDisconnect"
                                      /\ q \in o.state.pending_retry_redial
                                   \/ spent'[q] = attempt
        BY DEF Alive
      <4>1. has_direct_connection(cs', q) <=> has_direct_connection(cs, q)
        BY <2>2 DEF has_direct_connection
      <4>2. CASE q # p
        BY <2>2, <3>2, <3>3, <4>1, <4>2 DEF AInv, Alive, Retried
      <4>3. CASE q = p
        BY <2>2, <2>3, <3>2, <3>3, <3>4, <4>1, <4>3 DEF AInv, Alive, Retried
      <4> QED BY <4>2, <4>3
    <3> QED BY <2>1, <3>3, <3>5 DEF AInv
  <2> QED BY <2>4, <2>5
<1> QED BY <1>3, <1>4

\* Every iteration of the loop keeps AInv.
LEMMA NextKeepsAlive ==
  ASSUME IInv, AInv, [Next]_vars
  PROVE  AInv'
<1>1. CASE \/ BecomeReady
           \/ \E p \in Peers : LookupDone(p)
           \/ \E s \in Services, found \in SUBSET Peers : ProvidersFound(s, found)
           \/ \E s \in Services : ProvidersNotFound(s)
           \/ \E p \in Peers, listen_addrs \in SUBSET Addrs : Identified(p, listen_addrs)
  BY <1>1, AnswerKeepsAlive
<1>2. ASSUME NEW p \in Peers, NEW c \in ConnIds,
             DialEstablished(p, c) \/ IncomingEstablished(p, c)
      PROVE  AInv'
  BY <1>2, RelayedKeepsAlive, DirectKeepsAlive DEF DialEstablished, IncomingEstablished
<1>3. ASSUME NEW p \in Peers, NEW c \in ConnIds,
             CloseCompletes(p, c) \/ ConnectionBreaks(p, c)
      PROVE  AInv'
  BY <1>3, ClosedKeepsAlive DEF CloseCompletes, ConnectionBreaks
<1>4. ASSUME NEW p \in Peers, NEW c \in ConnIds, DialFails(p, c) \/ AbortReported(p, c)
      PROVE  AInv'
  BY <1>4, DialErrorKeepsAlive DEF DialFails, AbortReported
<1>5. ASSUME NEW p \in Peers, DcutrFailed(p) \/ HolePunchTimeout(p)
      PROVE  AInv'
  BY <1>5, FailureKeepsAlive
<1>6. ASSUME NEW p \in Peers, NEW c \in ConnIds, BehaviourDial(p, c)
      PROVE  AInv'
  <2>1. cs \in TrackerStates /\ cs' = on_dialing(cs, p, c) /\ UNCHANGED <<tunnel, spent>>
    BY <1>6 DEF BehaviourDial, IInv, Coupled, Tracks
  <2>2. /\ cs'.direct_connections = cs.direct_connections
        /\ cs'.hole_punch_attempts = cs.hole_punch_attempts
        /\ cs'.hole_punch_deadlines = cs.hole_punch_deadlines
    BY <2>1, DialingFacts
  <2>3. Alive(tunnel, cs', spent)
    BY <2>2, QuietKeepsAlive DEF AInv, SamePhases
  <2> QED BY <2>1, <2>3 DEF AInv
<1>7. CASE \E p \in BootstrapPeers : ReconnectDue(p)
  BY <1>7 DEF ReconnectDue, AInv
<1>8. CASE UNCHANGED vars
  BY <1>8 DEF vars, AInv
<1> QED BY <1>1, <1>2, <1>3, <1>4, <1>5, <1>6, <1>7, <1>8 DEF Next

\* Whoever waits for a direct path over a relayed connection has an attempt that is
\* punching before its deadline, or whose retry has asked for the disconnect, or
\* that the code has spent: arm_hole_punch_for_tunnel_targets, the deadlines and
\* retry_holepunch_attempt leave no other way to wait.
THEOREM WaitersArePunching == Spec => []WaitersArePunchedFor
<1>1. Init => AInv
  <2> SUFFICES ASSUME Init PROVE AInv
    OBVIOUS
  <2>1. /\ \A p \in Peers : /\ cs.hole_punch_attempts[p] = 0
                            /\ cs.hole_punch_deadlines[p] = 0
        /\ spent \in [Peers -> Nat]
    BY DEF Init, NoConnections
  <2> QED BY <2>1 DEF AInv, Alive
<1>2. IInv /\ AInv /\ [Next]_vars => AInv'
  BY NextKeepsAlive
<1>3. IInv /\ AInv => WaitersArePunchedFor
  BY DEF IInv, AInv, Alive, WaitersHaveAnAttempt, WaitersArePunchedFor
<1> QED BY <1>1, <1>2, <1>3, IInvHolds, PTL DEF Spec

-----------------------------------------------------------------------------
(* The refinement: where the requests are *)

\* The peers each request was opened on, in the terms of TunnelMachineProofs.
OpenedPeers == [x \in Specs |-> IF opened[x] = NotOpened THEN <<>> ELSE <<opened[x].peer>>]

\* Every request is at one place.
CInv == Conserved(tunnel, OpenedPeers)

\* PlaceOf is PlaceIn.
LEMMA PlaceOfIsPlaceIn ==
  \A x \in Specs : PlaceOf(x) = PlaceIn(tunnel, OpenedPeers, x)
<1> SUFFICES ASSUME NEW x \in Specs PROVE PlaceOf(x) = PlaceIn(tunnel, OpenedPeers, x)
  OBVIOUS
<1>1. CASE opened[x] = NotOpened
  <2>1. OpenedPeers[x] = <<>>
    BY <1>1 DEF OpenedPeers
  <2> QED BY <1>1, <2>1 DEF PlaceOf, PlaceIn
<1>2. CASE opened[x] # NotOpened
  <2>1. OpenedPeers[x] = <<opened[x].peer>>
    BY <1>2 DEF OpenedPeers
  <2>2. OpenedPeers[x] # <<>> /\ Last(OpenedPeers[x]) = opened[x].peer
    BY <2>1 DEF Last
  <2> QED BY <1>2, <2>2 DEF PlaceOf, PlaceIn
<1> QED BY <1>1, <1>2

\* Who moves no request leaves every request at its place.
LEMMA SamePlaces ==
  ASSUME NEW t, NEW r, SameRequests(t, r), NEW sp
  PROVE  /\ Conserved(t, sp) => Conserved(r, sp)
         /\ \A x \in Specs : PlaceIn(r, sp, x) = PlaceIn(t, sp, x)
<1>1. \A x \in Specs : PlaceIn(r, sp, x) = PlaceIn(t, sp, x)
  BY DEF PlaceIn, WaitingPlace, SameRequests
<1>2. \A x \in Specs, l \in Places : Located(t, sp, x, l) => Located(r, sp, x, l)
  BY DEF Located, SameRequests
<1> QED BY <1>1, <1>2 DEF Conserved

\* Arming moves no request.
LEMMA ArmMovesNothing ==
  ASSUME NEW t, MachineOK(t), NEW k, Arm(t, k)
  PROVE  SameRequests(t, tunnel')
<1>1. PICK sessions : tunnel' = [t EXCEPT !.holepunch_sessions = sessions]
  BY DEF Arm
<1> QED BY <1>1 DEF MachineOK, SameRequests

\* Executing the commands of a transition opens a request only once, so what the
\* loop recorded is all that was opened.
LEMMA ExecuteOpens ==
  ASSUME NEW t, MachineOK(t), Conserved(t, OpenedPeers), NEW o, Effect(t, o),
         NEW pl, NEW ls, NEW qs, Execute(o.commands, pl, ls, qs)
  PROVE  OpenedPeers' = Opened(OpenedPeers, o.commands)
<1> DEFINE sp == OpenedPeers
           cmds == o.commands
           after == Opened(sp, cmds)
<1>1. opened' = [x \in Specs |-> IF x \in SpawnedBy(cmds) THEN Opening(pl, SpawnPeer(cmds, x))
                                 ELSE opened[x]]
  BY DEF Execute
<1>2. Conserved(o.state, after)
  BY EffectConserves
<1>3. ASSUME NEW x \in Specs
      PROVE  OpenedPeers'[x] = after[x]
  <2>1. OpenedPeers'[x] = IF opened'[x] = NotOpened THEN <<>> ELSE <<opened'[x].peer>>
    BY DEF OpenedPeers
  <2>2. sp[x] = IF opened[x] = NotOpened THEN <<>> ELSE <<opened[x].peer>>
    BY DEF OpenedPeers
  <2>3. CASE x \in SpawnedBy(cmds)
    <3> DEFINE q == SpawnPeer(cmds, x)
    <3>1. after[x] = Append(sp[x], q)
      BY <2>3 DEF Opened
    <3>2. PICK l \in Places : after[x] = IF l.stage = "open" THEN <<l.peer>> ELSE <<>>
      BY <1>2 DEF Conserved, Located
    <3> HIDE DEF q, sp, after
    <3>3. sp[x] = <<>> /\ l.stage = "open" /\ q = l.peer
      <4>1. CASE sp[x] = <<>>
        <5>1. after[x] = <<q>>
          BY <3>1, <4>1
        <5>2. <<q>> # <<>> /\ (<<q>> = <<l.peer>> => q = l.peer)
          OBVIOUS
        <5> QED BY <3>2, <4>1, <5>1, <5>2
      <4>2. CASE sp[x] # <<>>
        <5>1. sp[x] = <<opened[x].peer>>
          BY <2>2, <4>2
        <5>2. \A a, b : Append(<<a>>, b) # <<>> /\ Append(<<a>>, b) # <<l.peer>>
          <6> SUFFICES ASSUME NEW a, NEW b
                       PROVE  Append(<<a>>, b) # <<>> /\ Append(<<a>>, b) # <<l.peer>>
            OBVIOUS
          <6> DEFINE S == {a, b, l.peer}
          <6>1. <<a>> \in Seq(S) /\ b \in S /\ <<l.peer>> \in Seq(S) /\ <<>> \in Seq(S)
            OBVIOUS
          <6>2. Len(Append(<<a>>, b)) = 2
            BY <6>1
          <6>3. Len(<<l.peer>>) = 1 /\ Len(<<>>) = 0
            OBVIOUS
          <6> QED BY <6>2, <6>3
        <5> QED BY <3>1, <3>2, <5>1, <5>2
      <4> QED BY <4>1, <4>2
    <3>4. q \in Peers
      BY <3>2, <3>3 DEF Places, At
    <3>5. opened'[x] = Opening(pl, q)
      BY <1>1, <2>3 DEF q
    <3>6. opened'[x].peer = q
      BY <3>5 DEF Opening
    <3>7. NotOpened.peer \notin Peers
      BY PeerAssumption DEF NotOpened
    <3>8. opened'[x] # NotOpened
      BY <3>4, <3>6, <3>7
    <3> QED BY <2>1, <3>1, <3>3, <3>6, <3>8
  <2>4. CASE x \notin SpawnedBy(cmds)
    <3>1. opened'[x] = opened[x]
      BY <1>1, <2>4
    <3>2. after[x] = sp[x]
      BY <2>4 DEF Opened
    <3> QED BY <2>1, <2>2, <3>1, <3>2
  <2> QED BY <2>3, <2>4
<1>4. OpenedPeers' = [x \in Specs |-> OpenedPeers'[x]] /\ after = [x \in Specs |-> after[x]]
  BY DEF OpenedPeers, Opened
<1> HIDE DEF after
<1>5. OpenedPeers' = after
  BY <1>3, <1>4
<1> QED BY <1>5 DEF after

\* A step of the places is a step of TunnelRequests, or none.
LEMMA PlacesRefine ==
  ASSUME RequestStep([x \in Specs |-> PlaceOf(x)], [x \in Specs |-> PlaceOf(x)]')
  PROVE  [Requests!Next]_[x \in Specs |-> PlaceOf(x)]
<1> DEFINE place == [x \in Specs |-> PlaceOf(x)]
<1>1. RequestStep(place, place')
  OBVIOUS
<1> HIDE DEF place
<1>2. ASSUME NEW s \in Services, NEW p \in Peers, NEW stage \in {"pending", "held", "open"},
             FoundStep(place, place', s, p, stage)
      PROVE  Requests!ProviderFound(s, p)
  BY <1>2, Zenon DEF FoundStep, MoveStep, AllIn, place, At, Requests!ProviderFound,
     Requests!Move, Requests!AllAt, Requests!At, Requests!Searching, Requests!Stages
<1>3. ASSUME NEW p \in Peers, HoldStep(place, place', p)
      PROVE  Requests!Hold(p)
  BY <1>3, Zenon DEF HoldStep, MoveStep, AllIn, place, At, Requests!Hold, Requests!Move,
     Requests!AllAt, Requests!At
<1>4. ASSUME NEW p \in Peers, NEW stages \in SUBSET {"pending", "held"},
             OpenStep(place, place', p, stages)
      PROVE  Requests!Open(p)
  BY <1>4, Zenon DEF OpenStep, MoveStep, AllIn, place, At, Requests!Open, Requests!Move,
     Requests!AllAt, Requests!At
<1>5. ASSUME NEW p \in Peers, LoseStep(place, place', p)
      PROVE  Requests!Lose(p)
  BY <1>5, Zenon DEF LoseStep, MoveStep, AllIn, place, At, Requests!Lose, Requests!Move,
     Requests!AllAt, Requests!At
<1>6. ASSUME NEW p \in Peers, GiveUpStep(place, place', p)
      PROVE  Requests!GiveUp(p)
  BY <1>6, Zenon DEF GiveUpStep, AllIn, place, At, Requests!GiveUp, Requests!AllAt,
     Requests!At, Requests!Searching
<1>7. place' = place \/ Requests!Next
  BY <1>1, <1>2, <1>3, <1>4, <1>5, <1>6, Zenon DEF RequestStep, Requests!Next
<1> QED BY <1>7 DEF place

\* An iteration that may begin an attempt first (t), processes one event and arms.
LEMMA IterationRefines ==
  ASSUME CInv, NEW t, SameRequests(tunnel, t), MachineOK(t), NEW o, Effect(t, o),
         NEW pl, NEW ls, NEW qs, Execute(o.commands, pl, ls, qs),
         SameRequests(o.state, tunnel')
  PROVE  CInv' /\ [Requests!Next]_[x \in Specs |-> PlaceOf(x)]
<1> DEFINE sp == OpenedPeers
           after == Opened(sp, o.commands)
<1>1. Conserved(t, sp) /\ \A x \in Specs : PlaceIn(t, sp, x) = PlaceIn(tunnel, sp, x)
  BY SamePlaces DEF CInv
<1>2. OpenedPeers' = after
  BY <1>1, ExecuteOpens
<1>3. Conserved(o.state, after)
  BY <1>1, EffectConserves
<1>4. /\ Conserved(tunnel', after)
      /\ \A x \in Specs : PlaceIn(tunnel', after, x) = PlaceIn(o.state, after, x)
  BY <1>3, SamePlaces
<1>5. CInv'
  BY <1>2, <1>4 DEF CInv
<1>6. RequestStep([x \in Specs |-> PlaceIn(t, sp, x)],
                  [x \in Specs |-> PlaceIn(o.state, after, x)])
  BY <1>1, EffectIsRequestStep
<1>7. [x \in Specs |-> PlaceOf(x)] = [x \in Specs |-> PlaceIn(t, sp, x)]
  BY <1>1, PlaceOfIsPlaceIn
<1>8. [x \in Specs |-> PlaceOf(x)]' = [x \in Specs |-> PlaceIn(o.state, after, x)]
  <2>1. (\A x \in Specs : PlaceOf(x) = PlaceIn(tunnel, OpenedPeers, x))'
    BY PlaceOfIsPlaceIn, PTL
  <2>2. \A x \in Specs : PlaceOf(x)' = PlaceIn(tunnel', OpenedPeers', x)
    BY <2>1
  <2> HIDE DEF after
  <2> QED BY <1>2, <1>4, <2>2
<1>9. [Requests!Next]_[x \in Specs |-> PlaceOf(x)]
  BY <1>6, <1>7, <1>8, PlacesRefine, Zenon
<1> QED BY <1>5, <1>9

\* What a step has to be: it leaves every request at one place, and moves them as
\* TunnelRequests allows.
Refines == CInv' /\ [Requests!Next]_[x \in Specs |-> PlaceOf(x)]

\* An event of the loop, processed in a state t that an attempt may have begun in.
LEMMA ProcessRefines ==
  ASSUME CInv, NEW t, SameRequests(tunnel, t), MachineOK(t), NEW o, GoodStep(t, o),
         NEW k, NEW pl, NEW ls, NEW qs, Process(o, k, pl, ls, qs)
  PROVE  Refines
<1>1. Arm(o.state, k) /\ Execute(o.commands, pl, ls, qs)
  BY DEF Process
<1>2. Effect(t, o) /\ MachineOK(o.state)
  BY DEF GoodStep
<1>3. SameRequests(o.state, tunnel')
  BY <1>1, <1>2, ArmMovesNothing
<1> QED BY <1>1, <1>2, <1>3, IterationRefines DEF Refines

\* Who executes the commands and arms nothing.
LEMMA ExecutionRefines ==
  ASSUME IInv, CInv, NEW o, GoodStep(tunnel, o), tunnel' = o.state,
         NEW pl, NEW ls, NEW qs, Execute(o.commands, pl, ls, qs)
  PROVE  Refines
<1>1. SameRequests(tunnel, tunnel) /\ SameRequests(o.state, tunnel') /\ MachineOK(tunnel)
  BY DEF SameRequests, IInv, Coupled
<1> QED BY <1>1, IterationRefines DEF Refines, GoodStep

\* A step that leaves the machine alone and opens nothing.
LEMMA StandingStill ==
  ASSUME CInv, tunnel' = tunnel, opened' = opened
  PROVE  Refines
<1>1. OpenedPeers' = OpenedPeers /\ \A x \in Specs : PlaceOf(x)' = PlaceOf(x)
  BY DEF OpenedPeers, PlaceOf
<1>2. CInv'
  BY <1>1 DEF CInv
<1>3. [x \in Specs |-> PlaceOf(x)]' = [x \in Specs |-> PlaceOf(x)]
  BY <1>1
<1> QED BY <1>2, <1>3 DEF Refines

\* What the DHT answers.
LEMMA AnswerRefines ==
  ASSUME IInv, CInv,
         \/ BecomeReady
         \/ \E p \in Peers : LookupDone(p)
         \/ \E s \in Services, found \in SUBSET Peers : ProvidersFound(s, found)
         \/ \E s \in Services : ProvidersNotFound(s)
  PROVE  Refines
<1>1. MachineOK(tunnel) /\ Owned(tunnel) /\ SameRequests(tunnel, tunnel)
  BY DEF IInv, Coupled, SameRequests
<1>2. \A q, x : SpawnTunnel(q, x).type = "SpawnTunnel"
  BY DEF SpawnTunnel
<1>3. CASE BecomeReady
  <2> DEFINE o == PhaseChangedReady(tunnel)
  <2>1. \A c \in {PublishServices} \cup initiate_lookups(tunnel) : c.type # "SpawnTunnel"
    BY DEF initiate_lookups, PublishServices, DhtLookupPeer, DhtGetProviders
  <2>2. o.state = tunnel /\ NoneOpened(o)
    BY <1>2, <2>1 DEF PhaseChangedReady, Out, NoneOpened
  <2>3. Process(o, cs, pool, lookups, queries)
    BY <1>3 DEF BecomeReady
  <2> HIDE DEF o
  <2>4. GoodStep(tunnel, o)
    BY <1>1, <2>2, IdleStep
  <2> QED BY <1>1, <2>3, <2>4, ProcessRefines
<1>4. ASSUME NEW p \in Peers, LookupDone(p)
      PROVE  Refines
  <2> DEFINE o == DhtPeerLookupComplete(tunnel, p, is_connected(pool, p))
             ls == [lookups EXCEPT ![p] = @ - 1]
  <2>1. Process(o, cs, pool, ls, queries) /\ is_connected(pool, p) \in BOOLEAN
    BY <1>4 DEF LookupDone, is_connected
  <2>2. GoodStep(tunnel, o)
    BY <1>1, <2>1, LookupStep, Zenon
  <2> HIDE DEF o, ls
  <2> QED BY <1>1, <2>1, <2>2, ProcessRefines
<1>5. ASSUME NEW s \in Services, NEW found \in SUBSET Peers, ProvidersFound(s, found)
      PROVE  Refines
  <2> DEFINE Listed(order) ==
               [i \in DOMAIN order |->
                  [peer |-> order[i], connected |-> is_connected(pool, order[i])]]
             qs == [queries EXCEPT ![s] = @ - 1]
  <2>1. PICK order \in SetToSeqs(found) :
          Process(DhtServiceResolved(tunnel, s, Listed(order)), cs, pool, lookups, qs)
    BY <1>5 DEF ProvidersFound
  <2> DEFINE providers == Listed(order)
             o == DhtServiceResolved(tunnel, s, providers)
  <2>2. providers # <<>> => Head(providers).peer \in Peers
    BY FirstOfOrder
  <2>3. Process(o, cs, pool, lookups, qs)
    BY <2>1
  <2> HIDE DEF providers, qs
  <2>4. GoodStep(tunnel, o)
    BY <1>1, <2>2, ResolvedStep, Zenon
  <2> HIDE DEF o
  <2> QED BY <1>1, <2>3, <2>4, ProcessRefines
<1>6. ASSUME NEW s \in Services, ProvidersNotFound(s)
      PROVE  Refines
  <2> DEFINE o == DhtServiceFailed(tunnel, s)
             qs == [queries EXCEPT ![s] = @ - 1]
  <2>1. Process(o, cs, pool, lookups, qs)
    BY <1>6 DEF ProvidersNotFound
  <2>2. o.state = tunnel /\ NoneOpened(o)
    BY DEF DhtServiceFailed, Out, NoneOpened, DhtGetProviders, SpawnTunnel
  <2> HIDE DEF o, qs
  <2>3. GoodStep(tunnel, o)
    BY <1>1, <2>2, IdleStep
  <2> QED BY <1>1, <2>1, <2>3, ProcessRefines
<1> QED BY <1>3, <1>4, <1>5, <1>6

\* A connection that opens, with the attempt it may begin.
LEMMA EstablishedRefines ==
  ASSUME IInv, CInv, NEW p \in Peers, NEW c \in ConnIds,
         RelayedEstablished(p, c) \/ DirectEstablished(p, c)
  PROVE  Refines
<1>1. MachineOK(tunnel) /\ Owned(tunnel) /\ SameRequests(tunnel, tunnel)
  BY DEF IInv, Coupled, SameRequests
<1>2. CASE RelayedEstablished(p, c)
  <2> DEFINE k1 == on_relayed_established(cs, p, c)
             starts == has_holepunch_intent(tunnel, p) /\ MayStartAttempt(k1, p)
             k == IF starts THEN start_hole_punch_attempt(k1, p) ELSE k1
             t == IF starts THEN begin_holepunch_attempt(tunnel, p, k.hole_punch_attempts[p])
                  ELSE tunnel
             o == TunnelPeerConnected(t, p, TRUE)
             r == [pool EXCEPT ![c] = Slot(p, "relayed")]
  <2>1. Process(o, k, r, lookups, queries)
    BY <1>2, Zenon DEF RelayedEstablished
  <2> HIDE DEF k1, k, r
  <2>2. MachineOK(t) /\ Owned(t) /\ SameRequests(tunnel, t)
    <3>1. CASE starts
      <4>1. Begun(tunnel, t, p, k.hole_punch_attempts[p])
        BY <1>1, <3>1, BeginFacts
      <4> HIDE DEF t
      <4> QED BY <4>1 DEF Begun
    <3>2. CASE ~starts
      BY <1>1, <3>2
    <3> QED BY <3>1, <3>2
  <2> HIDE DEF t, starts
  <2>3. GoodStep(t, o)
    BY <2>2, ConnectedStep, Zenon
  <2> HIDE DEF o
  <2> QED BY <2>1, <2>2, <2>3, ProcessRefines
<1>3. CASE DirectEstablished(p, c)
  <2> DEFINE k == on_direct_established(cs, p, c)
             closed == [d \in ConnIds |-> IF d \in cs.relayed_connections[p]
                                             /\ pool[d].stage = "relayed"
                                          THEN Slot(p, "closing_relayed") ELSE pool[d]]
             o == TunnelPeerConnected(tunnel, p, FALSE)
             r == [closed EXCEPT ![c] = Slot(p, "direct")]
  <2>1. Process(o, k, r, lookups, queries)
    BY <1>3, Zenon DEF DirectEstablished
  <2> HIDE DEF k, r
  <2>2. GoodStep(tunnel, o)
    BY <1>1, ConnectedStep, Zenon
  <2> HIDE DEF o
  <2> QED BY <1>1, <2>1, <2>2, ProcessRefines
<1> QED BY <1>2, <1>3

\* A connection that is closed: its peer's requests are lost only with the last one.
LEMMA ClosedRefines ==
  ASSUME IInv, CInv, NEW p \in Peers, NEW c \in ConnIds, CloseHandler(p, c)
  PROVE  Refines
<1> DEFINE remaining == Cardinality(In(pool, p, OpenStages) \ {c})
           k == on_connection_closed(cs, p, c, remaining)
           o == IF Untracked(k, p) THEN ConnectionLostAll(tunnel, p, Now) ELSE Out(tunnel, {})
           r == [pool EXCEPT ![c] = Free]
<1>1. MachineOK(tunnel) /\ Owned(tunnel) /\ SameRequests(tunnel, tunnel)
  BY DEF IInv, Coupled, SameRequests
<1>2. Process(o, k, r, lookups, queries)
  BY Zenon DEF CloseHandler
<1> HIDE DEF k, r
<1>3. GoodStep(tunnel, o)
  <2>1. CASE Untracked(k, p)
    <3>1. GoodStep(tunnel, ConnectionLostAll(tunnel, p, Now))
      BY <1>1, LostStep, Zenon
    <3> QED BY <2>1, <3>1
  <2>2. CASE ~Untracked(k, p)
    <3>1. o.state = tunnel /\ NoneOpened(o)
      BY <2>2 DEF Out, NoneOpened
    <3> HIDE DEF o
    <3> QED BY <1>1, <3>1, IdleStep
  <2> QED BY <2>1, <2>2
<1> HIDE DEF o
<1> QED BY <1>1, <1>2, <1>3, ProcessRefines

\* A dial that fails: the requests of the peer are rerouted, or nothing moves.
LEMMA DialErrorRefines ==
  ASSUME IInv, CInv, NEW p \in Peers, NEW c \in ConnIds, DialErrorHandler(p, c)
  PROVE  Refines
<1> DEFINE k == on_outgoing_connection_error(cs, c)
           r == [pool EXCEPT ![c] = Free]
           aborted == pool[c].stage = "aborted"
           idle == Out(tunnel, {})
<1>1. /\ p \in BootstrapPeers =>
           tunnel' = tunnel /\ cs' = k /\ Execute({}, r, lookups, queries)
      /\ p \notin BootstrapPeers =>
           \E asg \in RerouteChoices(tunnel, p) :
             Process(TunnelDialFailed(tunnel, p, aborted, asg, Now), k, r, lookups, queries)
  BY Zenon DEF DialErrorHandler
<1>2. MachineOK(tunnel) /\ Owned(tunnel) /\ SameRequests(tunnel, tunnel)
  BY DEF IInv, Coupled, SameRequests
<1> HIDE DEF k, r
<1>3. CASE p \notin BootstrapPeers
  <2>1. PICK asg \in RerouteChoices(tunnel, p) :
          Process(TunnelDialFailed(tunnel, p, aborted, asg, Now), k, r, lookups, queries)
    BY <1>1, <1>3
  <2> DEFINE o == TunnelDialFailed(tunnel, p, aborted, asg, Now)
  <2>2. /\ asg \in [tunnel.pending_by_peer[p] -> (Peers \ {p}) \cup {NoPeer}]
        /\ aborted \in BOOLEAN
    BY DEF RerouteChoices
  <2>3. GoodStep(tunnel, o)
    BY <1>2, <2>2, DialFailedStep, Zenon
  <2>4. Process(o, k, r, lookups, queries)
    BY <2>1
  <2> HIDE DEF o
  <2> QED BY <1>2, <2>3, <2>4, ProcessRefines
<1>4. CASE p \in BootstrapPeers
  <2>1. tunnel' = idle.state /\ Execute(idle.commands, r, lookups, queries)
    BY <1>1, <1>4 DEF Out
  <2>2. idle.state = tunnel /\ NoneOpened(idle)
    BY DEF Out, NoneOpened
  <2> HIDE DEF idle
  <2>3. GoodStep(tunnel, idle)
    BY <1>2, <2>2, IdleStep
  <2> QED BY <2>1, <2>3, ExecutionRefines
<1> QED BY <1>3, <1>4

\* The end of an attempt, and an identify.
LEMMA AttemptRefines ==
  ASSUME IInv, CInv, NEW p \in Peers,
         \/ DcutrFailed(p)
         \/ HolePunchTimeout(p)
         \/ \E listen_addrs \in SUBSET Addrs : Identified(p, listen_addrs)
  PROVE  Refines
<1>1. MachineOK(tunnel) /\ Owned(tunnel) /\ SameRequests(tunnel, tunnel)
  BY DEF IInv, Coupled, SameRequests
<1>2. CASE DcutrFailed(p)
  <2> DEFINE o == HolePunchAttemptFailed(tunnel, p, cs.hole_punch_attempts[p])
  <2>1. Process(o, cs, pool, lookups, queries)
    BY <1>2 DEF DcutrFailed
  <2>2. GoodStep(tunnel, o)
    BY <1>1, FailedStep, Zenon
  <2> HIDE DEF o
  <2> QED BY <1>1, <2>1, <2>2, ProcessRefines
<1>3. CASE HolePunchTimeout(p)
  <2> DEFINE id == cs.hole_punch_deadlines[p]
             o == IF peer_is_relay_only(cs, p) THEN HolePunchAttemptFailed(tunnel, p, id)
                  ELSE Out(tunnel, {})
  <2>1. tunnel' = o.state /\ Execute(o.commands, pool, lookups, queries)
    BY <1>3 DEF HolePunchTimeout
  <2>2. GoodStep(tunnel, o)
    <3>1. CASE peer_is_relay_only(cs, p)
      <4>1. GoodStep(tunnel, HolePunchAttemptFailed(tunnel, p, id))
        BY <1>1, FailedStep, Zenon
      <4> QED BY <3>1, <4>1
    <3>2. CASE ~peer_is_relay_only(cs, p)
      <4>1. o.state = tunnel /\ NoneOpened(o)
        BY <3>2 DEF Out, NoneOpened
      <4> HIDE DEF o
      <4> QED BY <1>1, <4>1, IdleStep
    <3> QED BY <3>1, <3>2
  <2> HIDE DEF o
  <2> QED BY <2>1, <2>2, ExecutionRefines
<1>4. ASSUME NEW listen_addrs \in SUBSET Addrs, Identified(p, listen_addrs)
      PROVE  Refines
  <2> DEFINE o == PeerIdentified(tunnel, p, listen_addrs, Now)
  <2>1. Process(o, cs, pool, lookups, queries)
    BY <1>4 DEF Identified
  <2>2. GoodStep(tunnel, o)
    BY <1>1, IdentifiedStep, Zenon
  <2> HIDE DEF o
  <2> QED BY <1>1, <2>1, <2>2, ProcessRefines
<1> QED BY <1>2, <1>3, <1>4

\* Every iteration of the loop is a step of TunnelRequests, or none.
LEMMA NextRefines ==
  ASSUME IInv, CInv, [Next]_vars
  PROVE  Refines
<1>1. CASE \/ BecomeReady
           \/ \E p \in Peers : LookupDone(p)
           \/ \E s \in Services, found \in SUBSET Peers : ProvidersFound(s, found)
           \/ \E s \in Services : ProvidersNotFound(s)
  BY <1>1, AnswerRefines
<1>2. ASSUME NEW p \in Peers, NEW c \in ConnIds,
             DialEstablished(p, c) \/ IncomingEstablished(p, c)
      PROVE  Refines
  BY <1>2, EstablishedRefines DEF DialEstablished, IncomingEstablished
<1>3. ASSUME NEW p \in Peers, NEW c \in ConnIds,
             CloseCompletes(p, c) \/ ConnectionBreaks(p, c)
      PROVE  Refines
  BY <1>3, ClosedRefines DEF CloseCompletes, ConnectionBreaks
<1>4. ASSUME NEW p \in Peers, NEW c \in ConnIds, DialFails(p, c) \/ AbortReported(p, c)
      PROVE  Refines
  BY <1>4, DialErrorRefines DEF DialFails, AbortReported
<1>5. ASSUME NEW p \in Peers,
             \/ DcutrFailed(p)
             \/ HolePunchTimeout(p)
             \/ \E listen_addrs \in SUBSET Addrs : Identified(p, listen_addrs)
      PROVE  Refines
  BY <1>5, AttemptRefines
<1>6. CASE \E p \in Peers, c \in ConnIds : BehaviourDial(p, c)
  BY <1>6, StandingStill DEF BehaviourDial
<1>7. CASE \E p \in BootstrapPeers : ReconnectDue(p)
  BY <1>7, StandingStill DEF ReconnectDue
<1>8. CASE UNCHANGED vars
  BY <1>8, StandingStill DEF vars
<1> QED BY <1>1, <1>2, <1>3, <1>4, <1>5, <1>6, <1>7, <1>8 DEF Next

\* At the start every request is at the place TunnelRequests begins with.
LEMMA InitRefines ==
  ASSUME Init
  PROVE  CInv /\ Requests!Init
<1>1. \A x \in Specs : OpenedPeers[x] = <<>>
  BY DEF Init, OpenedPeers
<1>2. tunnel = InitialTunnels
  BY DEF Init
<1>3. /\ Conserved(InitialTunnels, OpenedPeers)
      /\ \A x \in Specs :
           PlaceIn(InitialTunnels, OpenedPeers, x) =
             IF TargetOf[x] = NoPeer THEN At("searching", NoPeer)
             ELSE At("pending", TargetOf[x])
  BY <1>1, InitialPlaces
<1>4. CInv
  BY <1>2, <1>3 DEF CInv
<1>5. \A x \in Specs : PlaceOf(x) = IF TargetOf[x] = NoPeer THEN At("searching", NoPeer)
                                    ELSE At("pending", TargetOf[x])
  BY <1>2, <1>3, PlaceOfIsPlaceIn
<1>6. Requests!Init
  BY <1>5 DEF Requests!Init, Requests!At, Requests!Searching, At
<1> QED BY <1>4, <1>6

\* A running node, with everything its swarm may do to it, keeps the promises of
\* TunnelRequests: the requests move only in the ways promised there, and each is
\* opened at most once and for good.
THEOREM LoopImplementsRequests == Spec => LoopImplementsTunnelRequests
<1>1. Init => CInv /\ Requests!Init
  BY InitRefines
<1>2. IInv /\ CInv /\ [Next]_vars => CInv' /\ [Requests!Next]_[x \in Specs |-> PlaceOf(x)]
  BY NextRefines DEF Refines
<1> QED BY <1>1, <1>2, IInvHolds, PTL DEF Spec, LoopImplementsTunnelRequests, Requests!Spec
=============================================================================
