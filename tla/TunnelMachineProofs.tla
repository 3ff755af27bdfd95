------------------------ MODULE TunnelMachineProofs ------------------------
(***************************************************************************)
(* What the events of the tunnel machine do, for every set of peers,       *)
(* services and requests and every retry budget.  Each event gets one      *)
(* lemma (...Facts) in a small vocabulary of effects on the requests: they *)
(* stay, are held, are lost to pending, opened, found a provider for, or   *)
(* given up; and one (...Step) that says it is a good step: one of the     *)
(* effects, which keeps the types and the ownership of retries and opens   *)
(* nothing over a relay before its time.                                   *)
(*                                                                         *)
(* Two parts follow on the same events: the lists of addresses and         *)
(* providers (...KeepsLists), with what the sorts and cuts of the address  *)
(* oracle return; and where each request is before and after an effect     *)
(* (...Moves), up to EffectIsRequestStep: any effect is a step of          *)
(* TunnelRequests.                                                         *)
(***************************************************************************)
EXTENDS TunnelMachine, FiniteSetTheorems, WellFoundedInduction, TLAPS

\* A session, whatever the addresses of its snapshots.
IsSession(s) ==
  s \in [attempt_id : {s.attempt_id}, phase : Phases \cup {"None"},
         relay_redial_addrs : {s.relay_redial_addrs}, direct_snapshot : {s.direct_snapshot},
         dial_retry_dispatched : BOOLEAN]

SessionsOK(f) ==
  /\ f \in [Peers -> {f[p] : p \in Peers}]
  /\ \A p \in Peers : IsSession(f[p])

\* The fields the proofs are about have their types; nothing is said of the lists
\* of providers and addresses.
MachineOK(t) ==
  /\ t \in [pending_by_peer : [Peers -> SUBSET Specs],
            pending_by_service : [Services -> SUBSET Specs],
            service_provider_candidates : {t.service_provider_candidates},
            awaiting_holepunch : [Peers -> SUBSET Specs],
            relayed_peers : SUBSET Peers,
            holepunch_retry_attempts : [Peers -> Nat],
            pending_retry_redial : SUBSET Peers,
            holepunch_sessions : {t.holepunch_sessions},
            address_oracle : {t.address_oracle},
            address_last_seen : {t.address_last_seen}]
  /\ SessionsOK(t.holepunch_sessions)

\* The requests wait where they waited; the retries stand as they stood.
SameRequests(t, r) ==
  /\ r.pending_by_peer = t.pending_by_peer
  /\ r.pending_by_service = t.pending_by_service
  /\ r.awaiting_holepunch = t.awaiting_holepunch

SameRetries(t, r) ==
  /\ r.relayed_peers = t.relayed_peers
  /\ r.holepunch_retry_attempts = t.holepunch_retry_attempts
  /\ r.pending_retry_redial = t.pending_retry_redial

\* The addresses of an attempt that goes on are not taken away.
KeepsSnapshots(t, r, p) ==
  LET old == t.holepunch_sessions[p]
      new == r.holepunch_sessions[p]
  IN  old.phase # "None" /\ new.phase # "None" =>
        /\ old.relay_redial_addrs # <<>> => new.relay_redial_addrs # <<>>
        /\ old.direct_snapshot # <<>> => new.direct_snapshot # <<>>

\* A session in place of another one.
LEMMA SessionReplaced ==
  ASSUME NEW f, SessionsOK(f), NEW p \in Peers, NEW s, IsSession(s)
  PROVE  SessionsOK([f EXCEPT ![p] = s])
  BY DEF SessionsOK

\* clear_retry_state ends the retries and the session of p and moves no request.
LEMMA ClearFacts ==
  ASSUME NEW t, MachineOK(t), NEW p \in Peers
  PROVE  LET r == clear_retry_state(t, p)
         IN  /\ MachineOK(r)
             /\ SameRequests(t, r)
             /\ r.relayed_peers = t.relayed_peers
             /\ r.holepunch_retry_attempts = [t.holepunch_retry_attempts EXCEPT ![p] = 0]
             /\ r.pending_retry_redial = t.pending_retry_redial \ {p}
             /\ r.holepunch_sessions = [t.holepunch_sessions EXCEPT ![p] = NoSession]
<1> DEFINE r == clear_retry_state(t, p)
<1>1. /\ SameRequests(t, r)
      /\ r.relayed_peers = t.relayed_peers
      /\ r.holepunch_retry_attempts = [t.holepunch_retry_attempts EXCEPT ![p] = 0]
      /\ r.pending_retry_redial = t.pending_retry_redial \ {p}
      /\ r.holepunch_sessions = [t.holepunch_sessions EXCEPT ![p] = NoSession]
  BY DEF clear_retry_state, MachineOK, SameRequests
<1>2. SessionsOK(r.holepunch_sessions)
  <2>1. IsSession(NoSession)
    BY DEF IsSession, NoSession
  <2> QED BY <1>1, <2>1, SessionReplaced DEF MachineOK
<1>3. MachineOK(r)
  BY <1>2 DEF clear_retry_state, MachineOK
<1> QED BY <1>1, <1>3

\* What route_connected_peer does with requests for p.
Routed(t, o, p, specs) ==
  /\ MachineOK(o.state)
  /\ o.state.pending_by_peer = t.pending_by_peer
  /\ o.state.pending_by_service = t.pending_by_service
  /\ SameRetries(t, o.state)
  /\ o.state.holepunch_sessions = t.holepunch_sessions
  /\ p \in t.relayed_peers =>
       /\ o.state.awaiting_holepunch = [t.awaiting_holepunch EXCEPT ![p] = @ \cup specs]
       /\ o.commands = {}
  /\ p \notin t.relayed_peers =>
       /\ o.state.awaiting_holepunch = t.awaiting_holepunch
       /\ o.commands = SpawnAll(p, specs)

\* route_connected_peer holds the requests or opens them, never both.
LEMMA RouteFacts ==
  ASSUME NEW t, MachineOK(t), NEW p \in Peers, NEW specs \in SUBSET Specs
  PROVE  Routed(t, route_connected_peer(t, p, specs), p, specs)
<1>1. CASE p \in t.relayed_peers
  BY <1>1 DEF Routed, route_connected_peer, Out, MachineOK, SameRetries
<1>2. CASE p \notin t.relayed_peers
  BY <1>2 DEF Routed, route_connected_peer, Out, MachineOK, SameRetries
<1> QED BY <1>1, <1>2

-----------------------------------------------------------------------------
(* What a transition from t with outcome o does to the requests *)

NoneOpened(o) == \A q \in Peers, x \in Specs : SpawnTunnel(q, x) \notin o.commands

\* The requests in specs are opened, on p.
OpenedOn(o, p, specs) ==
  \A q \in Peers, x \in Specs : SpawnTunnel(q, x) \in o.commands <=> q = p /\ x \in specs

Stays(t, o) == SameRequests(t, o.state) /\ NoneOpened(o)

\* The pending requests of p wait for a direct path.
Holds(t, o, p) ==
  /\ o.state.pending_by_peer = [t.pending_by_peer EXCEPT ![p] = {}]
  /\ o.state.pending_by_service = t.pending_by_service
  /\ o.state.awaiting_holepunch =
       [t.awaiting_holepunch EXCEPT ![p] = @ \cup t.pending_by_peer[p]]
  /\ NoneOpened(o)

\* Pending and held requests of p are opened.
Opens(t, o, p, pending, held) ==
  /\ o.state.pending_by_peer = [t.pending_by_peer EXCEPT ![p] = @ \ pending]
  /\ o.state.pending_by_service = t.pending_by_service
  /\ o.state.awaiting_holepunch = [t.awaiting_holepunch EXCEPT ![p] = @ \ held]
  /\ OpenedOn(o, p, pending \cup held)

\* The requests that searched for s now have p.
Finds(t, o, s, p, stage) ==
  LET found == t.pending_by_service[s]
      Gets(f, here) == [f EXCEPT ![p] = @ \cup (IF stage = here THEN found ELSE {})]
  IN  /\ o.state.pending_by_service = [t.pending_by_service EXCEPT ![s] = {}]
      /\ o.state.pending_by_peer = Gets(t.pending_by_peer, "pending")
      /\ o.state.awaiting_holepunch = Gets(t.awaiting_holepunch, "held")
      /\ OpenedOn(o, p, IF stage = "open" THEN found ELSE {})

\* The requests held for p are pending again.
Loses(t, o, p) ==
  /\ o.state.pending_by_peer = [t.pending_by_peer EXCEPT ![p] = @ \cup t.awaiting_holepunch[p]]
  /\ o.state.pending_by_service = t.pending_by_service
  /\ o.state.awaiting_holepunch = [t.awaiting_holepunch EXCEPT ![p] = {}]
  /\ NoneOpened(o)

\* The pending requests of p leave it as asg says.
GivesUp(t, o, p, asg) ==
  /\ o.state.pending_by_peer =
       [q \in Peers |-> (IF q = p THEN {} ELSE t.pending_by_peer[q])
                          \cup {x \in t.pending_by_peer[p] : asg[x] = q}]
  /\ o.state.pending_by_service =
       [s \in Services |-> t.pending_by_service[s]
                             \cup {x \in t.pending_by_peer[p] :
                                     asg[x] = NoPeer /\ ServiceOf[x] = s}]
  /\ o.state.awaiting_holepunch = t.awaiting_holepunch
  /\ NoneOpened(o)

\* SpawnAll opens exactly its requests, no other command opens any.
LEMMA SpawnAllFacts ==
  ASSUME NEW p \in Peers, NEW specs \in SUBSET Specs, NEW q, NEW x
  PROVE  SpawnTunnel(q, x) \in SpawnAll(p, specs) <=> q = p /\ x \in specs
  BY DEF SpawnAll, SpawnTunnel

\* DhtPeerLookupComplete: the requests for a connected peer are held or opened.
LEMMA LookupFacts ==
  ASSUME NEW t, MachineOK(t), NEW p \in Peers, NEW connected \in BOOLEAN
  PROVE  LET o == DhtPeerLookupComplete(t, p, connected)
         IN  /\ MachineOK(o.state)
             /\ SameRetries(t, o.state)
             /\ o.state.holepunch_sessions = t.holepunch_sessions
             /\ \/ Stays(t, o)
                \/ Holds(t, o, p)
                \/ p \notin t.relayed_peers /\ Opens(t, o, p, t.pending_by_peer[p], {})
<1> DEFINE o == DhtPeerLookupComplete(t, p, connected)
           specs == t.pending_by_peer[p]
           t0 == [t EXCEPT !.pending_by_peer[p] = {}]
<1>1. CASE specs = {} \/ ~connected
  <2>1. o.state = t /\ NoneOpened(o)
    BY <1>1 DEF DhtPeerLookupComplete, Out, NoneOpened, DialPeer, SpawnTunnel
  <2> HIDE DEF o
  <2> QED BY <2>1 DEF Stays, SameRequests, SameRetries, o
<1>2. CASE specs # {} /\ connected
  <2>1. o = route_connected_peer(t0, p, specs)
    BY <1>2 DEF DhtPeerLookupComplete
  <2>2. /\ MachineOK(t0)
        /\ t0.pending_by_peer = [t.pending_by_peer EXCEPT ![p] = {}]
        /\ t0.pending_by_service = t.pending_by_service
        /\ t0.awaiting_holepunch = t.awaiting_holepunch
        /\ SameRetries(t, t0)
        /\ t0.holepunch_sessions = t.holepunch_sessions
    BY DEF MachineOK, SameRetries
  <2>3. specs \in SUBSET Specs
    BY DEF MachineOK
  <2> HIDE DEF o, t0
  <2>4. Routed(t0, o, p, specs)
    BY <2>1, <2>2, <2>3, RouteFacts
  <2>5. CASE p \in t.relayed_peers
    BY <2>2, <2>4, <2>5 DEF Routed, Holds, NoneOpened, SameRetries, o
  <2>6. CASE p \notin t.relayed_peers
    <3>1. OpenedOn(o, p, specs \cup {})
      BY <2>2, <2>3, <2>4, <2>6, SpawnAllFacts DEF Routed, OpenedOn, SameRetries
    <3>2. o.state.pending_by_peer = [t.pending_by_peer EXCEPT ![p] = @ \ specs]
      BY <2>2, <2>4 DEF Routed, MachineOK
    <3>3. o.state.awaiting_holepunch = [t.awaiting_holepunch EXCEPT ![p] = @ \ {}]
      BY <2>2, <2>4, <2>6 DEF Routed, MachineOK, SameRetries
    <3>4. Opens(t, o, p, specs, {})
      BY <2>2, <2>4, <3>1, <3>2, <3>3 DEF Routed, Opens
    <3> QED BY <2>2, <2>4, <2>6, <3>4 DEF Routed, SameRetries, o
  <2> QED BY <2>5, <2>6
<1> QED BY <1>1, <1>2

\* The requests for s are taken out of their map.
Dequeued(t, d, s) ==
  /\ MachineOK(d)
  /\ d.pending_by_service = [t.pending_by_service EXCEPT ![s] = {}]
  /\ d.pending_by_peer = t.pending_by_peer
  /\ d.awaiting_holepunch = t.awaiting_holepunch
  /\ SameRetries(t, d)
  /\ d.holepunch_sessions = t.holepunch_sessions

\* Taking the requests for s out and storing its providers changes nothing else.
LEMMA DequeueFacts ==
  ASSUME NEW t, MachineOK(t), NEW s \in Services, NEW list
  PROVE  Dequeued(t, [t EXCEPT !.pending_by_service[s] = {},
                               !.service_provider_candidates[s] = list], s)
  BY DEF Dequeued, MachineOK, SameRetries

\* Requests join those that are pending for p.
Queued(d, o, p, specs) ==
  /\ MachineOK(o.state)
  /\ o.state.pending_by_peer = [d.pending_by_peer EXCEPT ![p] = @ \cup specs]
  /\ o.state.pending_by_service = d.pending_by_service
  /\ o.state.awaiting_holepunch = d.awaiting_holepunch
  /\ SameRetries(d, o.state)
  /\ o.state.holepunch_sessions = d.holepunch_sessions

\* Adding requests to those pending for p changes nothing else.
LEMMA QueueFacts ==
  ASSUME NEW d, MachineOK(d), NEW p \in Peers, NEW specs \in SUBSET Specs, NEW cmds
  PROVE  Queued(d, Out([d EXCEPT !.pending_by_peer[p] = @ \cup specs], cmds), p, specs)
  BY DEF Queued, Out, MachineOK, SameRetries

\* DhtServiceResolved: the requests for s get the first provider.
LEMMA ResolvedFacts ==
  ASSUME NEW t, MachineOK(t), NEW s \in Services, NEW providers,
         providers # <<>> => Head(providers).peer \in Peers
  PROVE  LET o == DhtServiceResolved(t, s, providers)
             p == Head(providers).peer
         IN  /\ MachineOK(o.state)
             /\ SameRetries(t, o.state)
             /\ o.state.holepunch_sessions = t.holepunch_sessions
             /\ \/ Stays(t, o)
                \/ p \in Peers /\ Finds(t, o, s, p, "pending")
                \/ p \in Peers /\ Finds(t, o, s, p, "held")
                \/ p \in Peers /\ p \notin t.relayed_peers /\ Finds(t, o, s, p, "open")
<1> DEFINE o == DhtServiceResolved(t, s, providers)
           specs == t.pending_by_service[s]
           p == Head(providers).peer
           d == [t EXCEPT !.pending_by_service[s] = {},
                          !.service_provider_candidates[s] =
                             Tail(Dedup([i \in DOMAIN providers |-> providers[i].peer]))]
<1>1. CASE specs = {} \/ providers = <<>>
  <2>1. o.state = t /\ NoneOpened(o)
    BY <1>1 DEF DhtServiceResolved, Out, NoneOpened, DhtGetProviders, SpawnTunnel
  <2> HIDE DEF o
  <2> QED BY <2>1 DEF Stays, SameRequests, SameRetries, o
<1>2. CASE specs # {} /\ providers # <<>>
  <2>1. /\ Head(providers).connected => o = route_connected_peer(d, p, specs)
        /\ ~Head(providers).connected =>
             o = Out([d EXCEPT !.pending_by_peer[p] = @ \cup specs], {DhtLookupPeer(p)})
    BY <1>2, Zenon DEF DhtServiceResolved
  <2>2. Dequeued(t, d, s)
    BY DequeueFacts, Zenon
  <2>3. specs \in SUBSET Specs /\ p \in Peers
    BY <1>2 DEF MachineOK
  <2> HIDE DEF d, o, specs, p
  <2>4. CASE Head(providers).connected
    <3>1. Routed(d, o, p, specs)
      BY <2>1, <2>2, <2>3, <2>4, RouteFacts DEF Dequeued
    <3>2. CASE p \in t.relayed_peers
      <4>1. OpenedOn(o, p, {})
        BY <2>2, <3>1, <3>2 DEF Routed, Dequeued, OpenedOn, SameRetries
      <4>2. o.state.pending_by_peer = [t.pending_by_peer EXCEPT ![p] = @ \cup {}]
        BY <2>2, <3>1 DEF Routed, Dequeued, MachineOK
      <4>3. Finds(t, o, s, p, "held")
        BY <2>2, <3>1, <3>2, <4>1, <4>2 DEF Routed, Dequeued, Finds, SameRetries, specs
      <4> QED BY <2>2, <2>3, <3>1, <4>3 DEF Routed, Dequeued, SameRetries, o, p
    <3>3. CASE p \notin t.relayed_peers
      <4>1. OpenedOn(o, p, specs)
        BY <2>2, <2>3, <3>1, <3>3, SpawnAllFacts DEF Routed, Dequeued, OpenedOn, SameRetries
      <4>2. o.state.pending_by_peer = [t.pending_by_peer EXCEPT ![p] = @ \cup {}]
        BY <2>2, <3>1 DEF Routed, Dequeued, MachineOK
      <4>3. o.state.awaiting_holepunch = [t.awaiting_holepunch EXCEPT ![p] = @ \cup {}]
        BY <2>2, <3>1, <3>3 DEF Routed, Dequeued, MachineOK, SameRetries
      <4>4. Finds(t, o, s, p, "open")
        BY <2>2, <3>1, <3>3, <4>1, <4>2, <4>3 DEF Routed, Dequeued, Finds, specs
      <4> QED BY <2>2, <2>3, <3>1, <3>3, <4>4 DEF Routed, Dequeued, SameRetries, o, p
    <3> QED BY <3>2, <3>3
  <2>5. CASE ~Head(providers).connected
    <3>1. Queued(d, o, p, specs)
      BY <2>1, <2>2, <2>3, <2>5, QueueFacts DEF Dequeued
    <3>2. OpenedOn(o, p, {})
      BY <2>1, <2>5 DEF OpenedOn, Out, DhtLookupPeer, SpawnTunnel
    <3>3. o.state.awaiting_holepunch = [t.awaiting_holepunch EXCEPT ![p] = @ \cup {}]
      BY <2>2, <3>1 DEF Queued, Dequeued, MachineOK
    <3>4. Finds(t, o, s, p, "pending")
      BY <2>2, <3>1, <3>2, <3>3 DEF Queued, Dequeued, Finds, specs
    <3> QED BY <2>2, <2>3, <3>1, <3>4 DEF Queued, Dequeued, SameRetries, o, p
  <2> QED BY <2>4, <2>5
<1> QED BY <1>1, <1>2

\* What may be dialled for a retry is not a tunnel.
LEMMA RedialFacts ==
  ASSUME NEW t, NEW p, NEW time, NEW q, NEW x
  PROVE  SpawnTunnel(q, x) # RedialCommand(t, p, time)
  BY DEF RedialCommand, SpawnTunnel, DialPeer, DialPeerWithAddrs

\* The requests of a peer that cannot be dialled move to the next provider or
\* back to the search.
LEMMA RerouteFacts ==
  ASSUME NEW t, MachineOK(t), NEW p \in Peers,
         NEW asg \in [t.pending_by_peer[p] -> Peers \cup {NoPeer}]
  PROVE  LET g == reroute_specs_after_dial_failure(t, p, asg)
         IN  /\ MachineOK(g.state)
             /\ SameRetries(t, g.state)
             /\ g.state.holepunch_sessions = t.holepunch_sessions
             /\ GivesUp(t, g, p, asg)
<1> DEFINE g == reroute_specs_after_dial_failure(t, p, asg)
           To(q) == {x \in t.pending_by_peer[p] : asg[x] = q}
           Requeued(s) == {x \in To(NoPeer) : ServiceOf[x] = s}
           pending == [q \in Peers |-> IF q = p THEN To(q)
                                       ELSE t.pending_by_peer[q] \cup To(q)]
           searching == [s \in Services |-> t.pending_by_service[s] \cup Requeued(s)]
           list == [s \in Services |->
                      RemainingCandidates(t, s, p, Cardinality(PendingFor(t, p, s)))]
           r == [t EXCEPT !.pending_by_peer = pending, !.pending_by_service = searching,
                          !.service_provider_candidates = list]
           cmds == {DhtLookupPeer(q) : q \in {q2 \in Peers : To(q2) # {}}}
                     \cup {DhtGetProviders(s) : s \in {s2 \in Services : Requeued(s2) # {}}}
<1>1. g.state = r /\ g.commands = cmds
  BY DEF reroute_specs_after_dial_failure, Out
<1>2. pending \in [Peers -> SUBSET Specs] /\ searching \in [Services -> SUBSET Specs]
  BY DEF MachineOK
<1>3. NoneOpened(g)
  BY <1>1 DEF NoneOpened, DhtLookupPeer, DhtGetProviders, SpawnTunnel
<1>4. /\ pending = [q \in Peers |-> (IF q = p THEN {} ELSE t.pending_by_peer[q])
                                       \cup {x \in t.pending_by_peer[p] : asg[x] = q}]
      /\ searching = [s \in Services |-> t.pending_by_service[s]
                                          \cup {x \in t.pending_by_peer[p] :
                                                  asg[x] = NoPeer /\ ServiceOf[x] = s}]
  OBVIOUS
<1> HIDE DEF pending, searching, list, cmds, g
<1>5. /\ MachineOK(r)
      /\ SameRetries(t, r)
      /\ r.holepunch_sessions = t.holepunch_sessions
      /\ r.pending_by_peer = pending
      /\ r.pending_by_service = searching
      /\ r.awaiting_holepunch = t.awaiting_holepunch
  BY <1>2 DEF MachineOK, SameRetries
<1> HIDE DEF r
<1>6. GivesUp(t, g, p, asg)
  BY <1>1, <1>3, <1>4, <1>5 DEF GivesUp
<1> QED BY <1>1, <1>5, <1>6 DEF g

\* TunnelDialFailed: nothing, one more dial of the running attempt, or a new
\* provider for every pending request.
LEMMA DialFailedFacts ==
  ASSUME NEW t, MachineOK(t), NEW p \in Peers, NEW aborted \in BOOLEAN,
         NEW asg \in [t.pending_by_peer[p] -> Peers \cup {NoPeer}], NEW time
  PROVE  LET o == TunnelDialFailed(t, p, aborted, asg, time)
         IN  /\ MachineOK(o.state)
             /\ SameRetries(t, o.state)
             /\ \A q \in Peers : KeepsSnapshots(t, o.state, q)
             /\ Stays(t, o) \/ GivesUp(t, o, p, asg)
<1> DEFINE o == TunnelDialFailed(t, p, aborted, asg, time)
           s == [t EXCEPT !.holepunch_sessions[p].dial_retry_dispatched = TRUE]
           g == reroute_specs_after_dial_failure(t, p, asg)
<1>1. \/ o = Out(t, {})
      \/ o = Out(s, {RedialCommand(t, p, time)})
      \/ o = g
  BY DEF TunnelDialFailed
<1>2. CASE o = Out(t, {})
  <2>1. o.state = t /\ NoneOpened(o)
    BY <1>2 DEF Out, NoneOpened
  <2> HIDE DEF o
  <2> QED BY <2>1 DEF Stays, SameRequests, SameRetries, KeepsSnapshots, o
<1>3. CASE o = Out(s, {RedialCommand(t, p, time)})
  <2>1. /\ SameRequests(t, s)
        /\ SameRetries(t, s)
        /\ s.holepunch_sessions =
             [t.holepunch_sessions EXCEPT ![p].dial_retry_dispatched = TRUE]
    BY DEF MachineOK, SameRequests, SameRetries
  <2>2. IsSession([t.holepunch_sessions[p] EXCEPT !.dial_retry_dispatched = TRUE])
    BY DEF MachineOK, SessionsOK, IsSession
  <2>3. SessionsOK(s.holepunch_sessions)
    <3>1. s.holepunch_sessions =
            [t.holepunch_sessions EXCEPT ![p] =
               [t.holepunch_sessions[p] EXCEPT !.dial_retry_dispatched = TRUE]]
      BY <2>1
    <3> QED BY <2>2, <3>1, SessionReplaced DEF MachineOK
  <2>4. MachineOK(s)
    BY <2>3 DEF MachineOK
  <2>5. \A q \in Peers : KeepsSnapshots(t, s, q)
    BY <2>1 DEF KeepsSnapshots, MachineOK, SessionsOK, IsSession
  <2>6. o.state = s /\ NoneOpened(o)
    BY <1>3, RedialFacts DEF Out, NoneOpened
  <2> HIDE DEF o, s
  <2> QED BY <2>1, <2>4, <2>5, <2>6 DEF Stays, SameRequests, SameRetries, o
<1>4. CASE o = g
  <2>1. /\ MachineOK(g.state)
        /\ SameRetries(t, g.state)
        /\ g.state.holepunch_sessions = t.holepunch_sessions
        /\ GivesUp(t, g, p, asg)
    BY RerouteFacts
  <2> HIDE DEF o, g
  <2> QED BY <1>4, <2>1 DEF KeepsSnapshots, o
<1> QED BY <1>1, <1>2, <1>3, <1>4

\* PeerIdentified: only addresses change, and an attempt that runs keeps its own
\* when there are no new ones.
LEMMA IdentifiedFacts ==
  ASSUME NEW t, MachineOK(t), NEW p \in Peers, NEW listen_addrs, NEW time
  PROVE  LET o == PeerIdentified(t, p, listen_addrs, time)
         IN  /\ MachineOK(o.state)
             /\ SameRetries(t, o.state)
             /\ \A q \in Peers : KeepsSnapshots(t, o.state, q)
             /\ Stays(t, o)
<1> DEFINE o == PeerIdentified(t, p, listen_addrs, time)
           r == o.state
           seen == record_address_candidates(t.address_last_seen[p], listen_addrs, time)
           relay == fresh_candidates(seen, time, RelayAddrs, MAX_RELAY_CANDIDATES)
           direct == fresh_candidates(seen, time, DirectAddrs, MAX_DIRECT_CANDIDATES)
           session == t.holepunch_sessions[p]
           newRelay == relay # <<>> /\ relay # session.relay_redial_addrs
           newDirect == direct # <<>> /\ direct # session.direct_snapshot
           refreshed == [session EXCEPT
             !.relay_redial_addrs = IF newRelay THEN relay ELSE @,
             !.direct_snapshot = IF newDirect THEN direct ELSE @,
             !.dial_retry_dispatched = IF newRelay \/ newDirect THEN FALSE ELSE @]
           s == IF HasSession(t, p) THEN refreshed ELSE session
<1>1. o = Out([t EXCEPT !.address_last_seen[p] = seen,
                        !.address_oracle[p] = [relay |-> relay, direct |-> direct],
                        !.holepunch_sessions[p] = s], {})
  BY Zenon DEF PeerIdentified, update_address_oracle
<1>2. IsSession(session)
  BY DEF MachineOK, SessionsOK
<1> HIDE DEF seen, relay, direct, session, o
<1>3. /\ IsSession(s)
      /\ session.relay_redial_addrs # <<>> => s.relay_redial_addrs # <<>>
      /\ session.direct_snapshot # <<>> => s.direct_snapshot # <<>>
  BY <1>2 DEF IsSession
<1> HIDE DEF newRelay, newDirect, refreshed, s
<1>4. /\ SameRequests(t, r)
      /\ SameRetries(t, r)
      /\ r.holepunch_sessions = [t.holepunch_sessions EXCEPT ![p] = s]
      /\ o.commands = {}
  BY <1>1 DEF Out, MachineOK, SameRequests, SameRetries
<1>5. SessionsOK(r.holepunch_sessions)
  BY <1>3, <1>4, SessionReplaced DEF MachineOK
<1>6. MachineOK(r)
  BY <1>1, <1>5 DEF Out, MachineOK
<1>7. \A q \in Peers : KeepsSnapshots(t, r, q)
  BY <1>3, <1>4 DEF KeepsSnapshots, MachineOK, SessionsOK, session
<1> QED BY <1>4, <1>6, <1>7 DEF Stays, NoneOpened, o

\* TunnelPeerConnected: over a relay the pending requests are held; a direct
\* connection opens all requests of the peer and ends its retries.
LEMMA ConnectedFacts ==
  ASSUME NEW t, MachineOK(t), NEW p \in Peers, NEW relayed \in BOOLEAN
  PROVE  LET o == TunnelPeerConnected(t, p, relayed)
         IN  /\ MachineOK(o.state)
             /\ \A q \in Peers : KeepsSnapshots(t, o.state, q)
             /\ \/ /\ Holds(t, o, p)
                   /\ o.state.relayed_peers = t.relayed_peers \cup {p}
                   /\ o.state.holepunch_retry_attempts = t.holepunch_retry_attempts
                   /\ o.state.pending_retry_redial = t.pending_retry_redial
                \/ /\ Opens(t, o, p, t.pending_by_peer[p], t.awaiting_holepunch[p])
                   /\ o.state.relayed_peers = t.relayed_peers \ {p}
                   /\ o.state.holepunch_retry_attempts =
                        [t.holepunch_retry_attempts EXCEPT ![p] = 0]
                   /\ o.state.pending_retry_redial = t.pending_retry_redial \ {p}
<1> DEFINE o == TunnelPeerConnected(t, p, relayed)
           specs == t.pending_by_peer[p] \cup t.awaiting_holepunch[p]
           c == clear_retry_state(t, p)
           idle == [c EXCEPT !.relayed_peers = @ \ {p},
                             !.pending_by_peer[p] = {},
                             !.awaiting_holepunch[p] = {}]
           held == [t EXCEPT !.relayed_peers = @ \cup {p},
                             !.pending_by_peer[p] = {},
                             !.awaiting_holepunch[p] = @ \cup t.pending_by_peer[p]]
<1>1. CASE relayed
  <2>1. o.state = held /\ o.commands = {}
    BY <1>1 DEF TunnelPeerConnected, Out
  <2>2. /\ MachineOK(held)
        /\ held.pending_by_peer = [t.pending_by_peer EXCEPT ![p] = {}]
        /\ held.pending_by_service = t.pending_by_service
        /\ held.awaiting_holepunch =
             [t.awaiting_holepunch EXCEPT ![p] = @ \cup t.pending_by_peer[p]]
        /\ held.relayed_peers = t.relayed_peers \cup {p}
        /\ held.holepunch_retry_attempts = t.holepunch_retry_attempts
        /\ held.pending_retry_redial = t.pending_retry_redial
        /\ held.holepunch_sessions = t.holepunch_sessions
    BY DEF MachineOK
  <2> HIDE DEF held, o
  <2> QED BY <2>1, <2>2 DEF Holds, NoneOpened, KeepsSnapshots, o
<1>2. CASE ~relayed
  <2>1. o.state = idle /\ o.commands = SpawnAll(p, specs)
    BY <1>2 DEF TunnelPeerConnected, Out
  <2>2. /\ MachineOK(c)
        /\ SameRequests(t, c)
        /\ c.relayed_peers = t.relayed_peers
        /\ c.holepunch_retry_attempts = [t.holepunch_retry_attempts EXCEPT ![p] = 0]
        /\ c.pending_retry_redial = t.pending_retry_redial \ {p}
        /\ c.holepunch_sessions = [t.holepunch_sessions EXCEPT ![p] = NoSession]
    BY ClearFacts, Zenon
  <2>3. specs \in SUBSET Specs
    BY DEF MachineOK
  <2> HIDE DEF c, specs, o
  <2>4. /\ MachineOK(idle)
        /\ idle.pending_by_peer = [c.pending_by_peer EXCEPT ![p] = {}]
        /\ idle.pending_by_service = c.pending_by_service
        /\ idle.awaiting_holepunch = [c.awaiting_holepunch EXCEPT ![p] = {}]
        /\ idle.relayed_peers = c.relayed_peers \ {p}
        /\ idle.holepunch_retry_attempts = c.holepunch_retry_attempts
        /\ idle.pending_retry_redial = c.pending_retry_redial
        /\ idle.holepunch_sessions = c.holepunch_sessions
    BY <2>2 DEF MachineOK
  <2> HIDE DEF idle
  <2>5. OpenedOn(o, p, specs)
    BY <2>1, <2>3, SpawnAllFacts DEF OpenedOn
  <2>6. /\ idle.pending_by_peer = [t.pending_by_peer EXCEPT ![p] = @ \ t.pending_by_peer[p]]
        /\ idle.awaiting_holepunch =
             [t.awaiting_holepunch EXCEPT ![p] = @ \ t.awaiting_holepunch[p]]
    <3>1. /\ t.pending_by_peer \in [Peers -> SUBSET Specs]
          /\ t.awaiting_holepunch \in [Peers -> SUBSET Specs]
      BY DEF MachineOK
    <3>2. /\ idle.pending_by_peer = [t.pending_by_peer EXCEPT ![p] = {}]
          /\ idle.awaiting_holepunch = [t.awaiting_holepunch EXCEPT ![p] = {}]
      BY <2>2, <2>4, Zenon DEF SameRequests
    <3> QED BY <3>1, <3>2
  <2>7. Opens(t, o, p, t.pending_by_peer[p], t.awaiting_holepunch[p])
    BY <2>1, <2>2, <2>4, <2>5, <2>6 DEF Opens, SameRequests, specs
  <2>8. \A q \in Peers : KeepsSnapshots(t, idle, q)
    BY <2>2, <2>4 DEF KeepsSnapshots, MachineOK, SessionsOK, NoSession
  <2> QED BY <2>1, <2>2, <2>4, <2>7, <2>8 DEF o
<1> QED BY <1>1, <1>2

\* HolePunchAttemptStarted: the session of p is a new one.
LEMMA StartedFacts ==
  ASSUME NEW t, MachineOK(t), NEW p \in Peers, NEW id
  PROVE  LET o == HolePunchAttemptStarted(t, p, id)
         IN  /\ MachineOK(o.state)
             /\ SameRetries(t, o.state)
             /\ \A q \in Peers \ {p} : KeepsSnapshots(t, o.state, q)
             /\ Stays(t, o)
<1> DEFINE o == HolePunchAttemptStarted(t, p, id)
           r == o.state
           s == [attempt_id |-> id, phase |-> "Punching",
                 relay_redial_addrs |-> t.address_oracle[p].relay,
                 direct_snapshot |-> t.address_oracle[p].direct,
                 dial_retry_dispatched |-> FALSE]
<1>1. o = Out([t EXCEPT !.holepunch_sessions[p] = s], {})
  BY DEF HolePunchAttemptStarted, begin_holepunch_attempt
<1>2. IsSession(s)
  BY DEF IsSession, Phases
<1> HIDE DEF s, o
<1>3. /\ SameRequests(t, r)
      /\ SameRetries(t, r)
      /\ r.holepunch_sessions = [t.holepunch_sessions EXCEPT ![p] = s]
      /\ o.commands = {}
  BY <1>1 DEF Out, MachineOK, SameRequests, SameRetries
<1>4. SessionsOK(r.holepunch_sessions)
  BY <1>2, <1>3, SessionReplaced DEF MachineOK
<1>5. MachineOK(r)
  BY <1>1, <1>4 DEF Out, MachineOK
<1>6. \A q \in Peers \ {p} : KeepsSnapshots(t, r, q)
  BY <1>3 DEF KeepsSnapshots, MachineOK, SessionsOK
<1> QED BY <1>3, <1>5, <1>6 DEF Stays, NoneOpened, o

\* HolePunchAttemptFailed: a stale failure does nothing; the running attempt is
\* retried within its budget; after that the requests are opened as things are.
LEMMA FailedFacts ==
  ASSUME NEW t, MachineOK(t), NEW p \in Peers, NEW id
  PROVE  LET o == HolePunchAttemptFailed(t, p, id)
         IN  /\ MachineOK(o.state)
             /\ \A q \in Peers : KeepsSnapshots(t, o.state, q)
             /\ o.state.relayed_peers = t.relayed_peers
             /\ \/ Stays(t, o) /\ SameRetries(t, o.state)
                \/ /\ Opens(t, o, p, {}, t.awaiting_holepunch[p])
                   /\ RetriesExhausted(t, p)
                   /\ o.state.holepunch_retry_attempts =
                        [t.holepunch_retry_attempts EXCEPT ![p] = 0]
                   /\ o.state.pending_retry_redial = t.pending_retry_redial \ {p}
                \/ /\ Stays(t, o)
                   /\ ~RetriesExhausted(t, p)
                   /\ t.awaiting_holepunch[p] # {}
                   /\ o.state.holepunch_retry_attempts =
                        [t.holepunch_retry_attempts EXCEPT ![p] = @ + 1]
                   /\ o.state.pending_retry_redial = t.pending_retry_redial \cup {p}
<1> DEFINE o == HolePunchAttemptFailed(t, p, id)
           specs == t.awaiting_holepunch[p]
           c == clear_retry_state(t, p)
           opened == [c EXCEPT !.awaiting_holepunch[p] = {}]
           again == [t EXCEPT !.holepunch_retry_attempts[p] = @ + 1,
                              !.pending_retry_redial = @ \cup {p},
                              !.holepunch_sessions[p].phase = "WaitingDisconnect"]
<1>1. CASE ~RetryApplies(t, p, id)
  <2>1. o.state = t /\ NoneOpened(o)
    BY <1>1 DEF HolePunchAttemptFailed, retry_holepunch_attempt, Out, NoneOpened
  <2> HIDE DEF o
  <2> QED BY <2>1 DEF Stays, SameRequests, SameRetries, KeepsSnapshots, o
<1>2. CASE RetryApplies(t, p, id) /\ RetriesExhausted(t, p)
  <2>1. o.state = opened /\ o.commands = SpawnAll(p, specs)
    BY <1>2 DEF HolePunchAttemptFailed, retry_holepunch_attempt, Out
  <2>2. /\ MachineOK(c)
        /\ SameRequests(t, c)
        /\ c.relayed_peers = t.relayed_peers
        /\ c.holepunch_retry_attempts = [t.holepunch_retry_attempts EXCEPT ![p] = 0]
        /\ c.pending_retry_redial = t.pending_retry_redial \ {p}
        /\ c.holepunch_sessions = [t.holepunch_sessions EXCEPT ![p] = NoSession]
    BY ClearFacts, Zenon
  <2>3. specs \in SUBSET Specs
    BY DEF MachineOK
  <2> HIDE DEF c, specs, o
  <2>4. /\ MachineOK(opened)
        /\ opened.pending_by_peer = c.pending_by_peer
        /\ opened.pending_by_service = c.pending_by_service
        /\ opened.awaiting_holepunch = [c.awaiting_holepunch EXCEPT ![p] = {}]
        /\ opened.relayed_peers = c.relayed_peers
        /\ opened.holepunch_retry_attempts = c.holepunch_retry_attempts
        /\ opened.pending_retry_redial = c.pending_retry_redial
        /\ opened.holepunch_sessions = c.holepunch_sessions
    BY <2>2 DEF MachineOK
  <2> HIDE DEF opened
  <2>5. OpenedOn(o, p, {} \cup specs)
    BY <2>1, <2>3, SpawnAllFacts DEF OpenedOn
  <2>6. /\ opened.pending_by_peer = [t.pending_by_peer EXCEPT ![p] = @ \ {}]
        /\ opened.awaiting_holepunch = [t.awaiting_holepunch EXCEPT ![p] = @ \ specs]
    <3>1. /\ t.pending_by_peer \in [Peers -> SUBSET Specs]
          /\ t.awaiting_holepunch \in [Peers -> SUBSET Specs]
      BY DEF MachineOK
    <3>2. /\ opened.pending_by_peer = t.pending_by_peer
          /\ opened.awaiting_holepunch = [t.awaiting_holepunch EXCEPT ![p] = {}]
      BY <2>2, <2>4, Zenon DEF SameRequests
    <3> QED BY <3>1, <3>2 DEF specs
  <2>7. Opens(t, o, p, {}, specs)
    BY <2>1, <2>2, <2>4, <2>5, <2>6 DEF Opens, SameRequests
  <2>8. \A q \in Peers : KeepsSnapshots(t, opened, q)
    BY <2>2, <2>4 DEF KeepsSnapshots, MachineOK, SessionsOK, NoSession
  <2> QED BY <1>2, <2>1, <2>2, <2>4, <2>7, <2>8 DEF o, specs
<1>3. CASE RetryApplies(t, p, id) /\ ~RetriesExhausted(t, p)
  <2>1. o.state = again /\ o.commands = {DisconnectPeer(p)}
    BY <1>3 DEF HolePunchAttemptFailed, retry_holepunch_attempt, Out
  <2>2. IsSession([t.holepunch_sessions[p] EXCEPT !.phase = "WaitingDisconnect"])
    BY DEF MachineOK, SessionsOK, IsSession, Phases
  <2>3. /\ SameRequests(t, again)
        /\ again.relayed_peers = t.relayed_peers
        /\ again.holepunch_retry_attempts = [t.holepunch_retry_attempts EXCEPT ![p] = @ + 1]
        /\ again.pending_retry_redial = t.pending_retry_redial \cup {p}
        /\ again.holepunch_sessions =
             [t.holepunch_sessions EXCEPT ![p] =
                [t.holepunch_sessions[p] EXCEPT !.phase = "WaitingDisconnect"]]
    BY DEF MachineOK, SameRequests
  <2>4. SessionsOK(again.holepunch_sessions)
    BY <2>2, <2>3, SessionReplaced DEF MachineOK
  <2>5. MachineOK(again)
    <3> DEFINE tries == [t.holepunch_retry_attempts EXCEPT ![p] = @ + 1]
               redials == t.pending_retry_redial \cup {p}
               sessions == again.holepunch_sessions
    <3>1. tries \in [Peers -> Nat] /\ redials \in SUBSET Peers
      BY DEF MachineOK
    <3>2. again = [t EXCEPT !.holepunch_retry_attempts = tries,
                            !.pending_retry_redial = redials,
                            !.holepunch_sessions = sessions]
      BY <2>3 DEF MachineOK
    <3> HIDE DEF tries, redials, sessions
    <3>3. SessionsOK(sessions)
      BY <2>4 DEF sessions
    <3> QED BY <3>1, <3>2, <3>3 DEF MachineOK
  <2>6. \A q \in Peers : KeepsSnapshots(t, again, q)
    BY <2>3 DEF KeepsSnapshots, MachineOK, SessionsOK, IsSession
  <2>7. NoneOpened(o)
    BY <2>1 DEF NoneOpened, DisconnectPeer, SpawnTunnel
  <2>8. t.awaiting_holepunch[p] # {}
    BY <1>3 DEF RetryApplies
  <2> HIDE DEF o, again
  <2> QED BY <1>3, <2>1, <2>3, <2>5, <2>6, <2>7, <2>8 DEF Stays, SameRequests, o
<1> QED BY <1>1, <1>2, <1>3

\* ConnectionLostAll: a retry that asked for it goes on; otherwise the held
\* requests are pending again and the retries of p end.
LEMMA LostFacts ==
  ASSUME NEW t, MachineOK(t), NEW p \in Peers, NEW time
  PROVE  LET o == ConnectionLostAll(t, p, time)
         IN  /\ MachineOK(o.state)
             /\ \A q \in Peers : KeepsSnapshots(t, o.state, q)
             /\ o.state.relayed_peers = t.relayed_peers \ {p}
             /\ o.state.pending_retry_redial = t.pending_retry_redial \ {p}
             /\ NoneOpened(o)
             /\ \/ /\ Stays(t, o)
                   /\ o.state.holepunch_retry_attempts = t.holepunch_retry_attempts
                \/ /\ Loses(t, o, p)
                   /\ o.state.holepunch_retry_attempts =
                        [t.holepunch_retry_attempts EXCEPT ![p] = 0]
<1> DEFINE o == ConnectionLostAll(t, p, time)
           lost == [t EXCEPT !.relayed_peers = @ \ {p}]
           waiting == t.awaiting_holepunch[p]
           c == clear_retry_state(lost, p)
           requeued == [c EXCEPT !.awaiting_holepunch[p] = {},
                                 !.pending_by_peer[p] = @ \cup waiting]
           phase == IF HasSession(t, p) THEN "WaitingRedial" ELSE t.holepunch_sessions[p].phase
           again == [lost EXCEPT !.pending_retry_redial = @ \ {p},
                                 !.holepunch_sessions[p].phase = phase]
<1>1. /\ MachineOK(lost)
      /\ SameRequests(t, lost)
      /\ lost.relayed_peers = t.relayed_peers \ {p}
      /\ lost.holepunch_retry_attempts = t.holepunch_retry_attempts
      /\ lost.pending_retry_redial = t.pending_retry_redial
      /\ lost.holepunch_sessions = t.holepunch_sessions
  BY DEF MachineOK, SameRequests
<1>2. CASE p \in t.pending_retry_redial
  <2>1. o.state = again /\ o.commands = {RedialCommand(t, p, time)}
    <3> HIDE DEF lost
    <3>1. lost.holepunch_sessions[p].phase = t.holepunch_sessions[p].phase
      BY <1>1
    <3>2. o = Out([lost EXCEPT !.pending_retry_redial = @ \ {p},
                     !.holepunch_sessions[p].phase =
                        IF HasSession(t, p) THEN "WaitingRedial" ELSE @],
                  {RedialCommand(t, p, time)})
      BY <1>2, Zenon DEF ConnectionLostAll, lost
    <3> QED BY <3>1, <3>2 DEF Out
  <2>2. IsSession([t.holepunch_sessions[p] EXCEPT !.phase = phase])
    BY DEF MachineOK, SessionsOK, IsSession, Phases
  <2> HIDE DEF lost, phase, o
  <2>3. /\ SameRequests(t, again)
        /\ again.relayed_peers = lost.relayed_peers
        /\ again.holepunch_retry_attempts = t.holepunch_retry_attempts
        /\ again.pending_retry_redial = t.pending_retry_redial \ {p}
        /\ again.holepunch_sessions =
             [t.holepunch_sessions EXCEPT ![p] =
                [t.holepunch_sessions[p] EXCEPT !.phase = phase]]
    BY <1>1 DEF MachineOK, SameRequests
  <2>4. SessionsOK(again.holepunch_sessions)
    BY <2>2, <2>3, SessionReplaced DEF MachineOK
  <2>5. MachineOK(again)
    <3> DEFINE redials == t.pending_retry_redial \ {p}
               sessions == again.holepunch_sessions
    <3>1. redials \in SUBSET Peers
      BY DEF MachineOK
    <3>2. again = [lost EXCEPT !.pending_retry_redial = redials,
                               !.holepunch_sessions = sessions]
      BY <1>1, <2>3 DEF MachineOK
    <3> HIDE DEF redials, sessions
    <3>3. SessionsOK(sessions)
      BY <2>4 DEF sessions
    <3> QED BY <1>1, <3>1, <3>2, <3>3 DEF MachineOK
  <2>6. \A q \in Peers : KeepsSnapshots(t, again, q)
    <3> DEFINE s == [t.holepunch_sessions[p] EXCEPT !.phase = phase]
    <3>1. /\ s.relay_redial_addrs = t.holepunch_sessions[p].relay_redial_addrs
          /\ s.direct_snapshot = t.holepunch_sessions[p].direct_snapshot
      BY DEF MachineOK, SessionsOK, IsSession
    <3> HIDE DEF again, s
    <3>2. again.holepunch_sessions = [t.holepunch_sessions EXCEPT ![p] = s]
      BY <2>3 DEF s
    <3> QED BY <3>1, <3>2 DEF KeepsSnapshots, MachineOK, SessionsOK
  <2>7. NoneOpened(o)
    BY <2>1, RedialFacts DEF NoneOpened
  <2> HIDE DEF again
  <2> QED BY <1>1, <2>1, <2>3, <2>5, <2>6, <2>7 DEF Stays, SameRequests, o
<1>3. CASE p \notin t.pending_retry_redial
  <2>1. /\ o.state = requeued
        /\ o.commands = IF waiting = {} THEN {} ELSE {DialPeer(p)}
    BY <1>3 DEF ConnectionLostAll, Out
  <2> HIDE DEF lost, o
  <2>2. /\ MachineOK(c)
        /\ SameRequests(lost, c)
        /\ c.relayed_peers = lost.relayed_peers
        /\ c.holepunch_retry_attempts = [lost.holepunch_retry_attempts EXCEPT ![p] = 0]
        /\ c.pending_retry_redial = lost.pending_retry_redial \ {p}
        /\ c.holepunch_sessions = [lost.holepunch_sessions EXCEPT ![p] = NoSession]
    BY <1>1, ClearFacts, Zenon
  <2>3. waiting \in SUBSET Specs
    BY DEF MachineOK
  <2>4. NoneOpened(o)
    BY <2>1 DEF NoneOpened, DialPeer, SpawnTunnel
  <2> HIDE DEF c, waiting
  <2>5. /\ MachineOK(requeued)
        /\ requeued.pending_by_peer = [c.pending_by_peer EXCEPT ![p] = @ \cup waiting]
        /\ requeued.pending_by_service = c.pending_by_service
        /\ requeued.awaiting_holepunch = [c.awaiting_holepunch EXCEPT ![p] = {}]
        /\ requeued.relayed_peers = c.relayed_peers
        /\ requeued.holepunch_retry_attempts = c.holepunch_retry_attempts
        /\ requeued.pending_retry_redial = c.pending_retry_redial
        /\ requeued.holepunch_sessions = c.holepunch_sessions
    BY <2>2, <2>3 DEF MachineOK
  <2> HIDE DEF requeued
  <2>6. Loses(t, o, p)
    BY <1>1, <2>1, <2>2, <2>4, <2>5 DEF Loses, SameRequests, waiting
  <2>7. \A q \in Peers : KeepsSnapshots(t, requeued, q)
    BY <1>1, <2>2, <2>5 DEF KeepsSnapshots, MachineOK, SessionsOK, NoSession
  <2> QED BY <1>1, <2>1, <2>2, <2>4, <2>5, <2>6, <2>7 DEF o
<1> QED BY <1>2, <1>3

-----------------------------------------------------------------------------
(* What every transition does *)

\* RetryStateIsOwned as a fact about the machine.
Owned(t) ==
  \A p \in Peers :
    /\ t.holepunch_retry_attempts[p] <= MAX_RELAY_RECONNECT_RETRIES
    /\ t.holepunch_retry_attempts[p] > 0 => t.awaiting_holepunch[p] # {}
    /\ p \in t.pending_retry_redial => t.holepunch_retry_attempts[p] > 0

\* What is opened over a relay has used up its retries.
Direct(t, o) ==
  \A p \in Peers, x \in Specs :
    SpawnTunnel(p, x) \in o.commands /\ p \in o.state.relayed_peers
      => /\ t.holepunch_retry_attempts[p] = MAX_RELAY_RECONNECT_RETRIES
         /\ x \in t.awaiting_holepunch[p]

\* The ways in which requests may move.
Effect(t, o) ==
  \/ Stays(t, o)
  \/ \E p \in Peers : Holds(t, o, p)
  \/ \E p \in Peers : Loses(t, o, p)
  \/ \E p \in Peers : Opens(t, o, p, t.pending_by_peer[p], {})
  \/ \E p \in Peers : Opens(t, o, p, {}, t.awaiting_holepunch[p])
  \/ \E p \in Peers : Opens(t, o, p, t.pending_by_peer[p], t.awaiting_holepunch[p])
  \/ \E s \in Services, p \in Peers, stage \in {"pending", "held", "open"} :
       Finds(t, o, s, p, stage)
  \/ \E p \in Peers : \E asg \in [t.pending_by_peer[p] -> (Peers \ {p}) \cup {NoPeer}] :
       GivesUp(t, o, p, asg)

GoodStep(t, o) ==
  /\ MachineOK(o.state)
  /\ Effect(t, o)
  /\ Owned(o.state)
  /\ Direct(t, o)

\* A transition that leaves the machine alone and opens nothing.
LEMMA IdleStep ==
  ASSUME NEW t, MachineOK(t), Owned(t), NEW o, o.state = t, NoneOpened(o)
  PROVE  GoodStep(t, o) /\ \A q \in Peers : KeepsSnapshots(t, o.state, q)
  BY DEF GoodStep, Effect, Stays, SameRequests, Direct, NoneOpened, KeepsSnapshots

\* Retries stay as they are and nobody stops waiting for a direct path.
LEMMA OwnedStep ==
  ASSUME NEW t, Owned(t), NEW r, SameRetries(t, r),
         \A p \in Peers : t.awaiting_holepunch[p] # {} => r.awaiting_holepunch[p] # {}
  PROVE  Owned(r)
  BY DEF Owned, SameRetries

\* DhtPeerLookupComplete is a good step: it opens nothing on a relayed peer.
LEMMA LookupStep ==
  ASSUME NEW t, MachineOK(t), Owned(t), NEW p \in Peers, NEW connected \in BOOLEAN
  PROVE  LET o == DhtPeerLookupComplete(t, p, connected)
         IN  GoodStep(t, o) /\ \A q \in Peers : KeepsSnapshots(t, o.state, q)
<1> DEFINE o == DhtPeerLookupComplete(t, p, connected)
<1>1. /\ MachineOK(o.state)
      /\ SameRetries(t, o.state)
      /\ o.state.holepunch_sessions = t.holepunch_sessions
      /\ \/ Stays(t, o)
         \/ Holds(t, o, p)
         \/ p \notin t.relayed_peers /\ Opens(t, o, p, t.pending_by_peer[p], {})
  BY LookupFacts, Zenon
<1> HIDE DEF o
<1>2. \A q \in Peers : t.awaiting_holepunch[q] # {} => o.state.awaiting_holepunch[q] # {}
  BY <1>1 DEF Stays, SameRequests, Holds, Opens, MachineOK
<1>3. Owned(o.state)
  BY <1>1, <1>2, OwnedStep
<1>4. Direct(t, o)
  BY <1>1 DEF Direct, Stays, Holds, Opens, NoneOpened, OpenedOn, SameRetries
<1>5. Effect(t, o)
  BY <1>1, Zenon DEF Effect
<1>6. \A q \in Peers : KeepsSnapshots(t, o.state, q)
  BY <1>1 DEF KeepsSnapshots
<1> QED BY <1>1, <1>3, <1>4, <1>5, <1>6 DEF GoodStep, o

\* DhtServiceResolved is a good step, connected provider or not.
LEMMA ResolvedStep ==
  ASSUME NEW t, MachineOK(t), Owned(t), NEW s \in Services, NEW providers,
         providers # <<>> => Head(providers).peer \in Peers
  PROVE  LET o == DhtServiceResolved(t, s, providers)
         IN  GoodStep(t, o) /\ \A q \in Peers : KeepsSnapshots(t, o.state, q)
<1> DEFINE o == DhtServiceResolved(t, s, providers)
           p == Head(providers).peer
<1>1. /\ MachineOK(o.state)
      /\ SameRetries(t, o.state)
      /\ o.state.holepunch_sessions = t.holepunch_sessions
      /\ \/ Stays(t, o)
         \/ p \in Peers /\ Finds(t, o, s, p, "pending")
         \/ p \in Peers /\ Finds(t, o, s, p, "held")
         \/ p \in Peers /\ p \notin t.relayed_peers /\ Finds(t, o, s, p, "open")
  BY ResolvedFacts, Zenon
<1> HIDE DEF o, p
<1>2. \A q \in Peers : t.awaiting_holepunch[q] # {} => o.state.awaiting_holepunch[q] # {}
  BY <1>1 DEF Stays, SameRequests, Finds, MachineOK
<1>3. Owned(o.state)
  BY <1>1, <1>2, OwnedStep
<1>4. Direct(t, o)
  BY <1>1 DEF Direct, Stays, Finds, NoneOpened, OpenedOn, SameRetries
<1>5. Effect(t, o)
  BY <1>1, Zenon DEF Effect
<1>6. \A q \in Peers : KeepsSnapshots(t, o.state, q)
  BY <1>1 DEF KeepsSnapshots
<1> QED BY <1>1, <1>3, <1>4, <1>5, <1>6 DEF GoodStep, o

\* TunnelDialFailed is a good step, whatever providers are left.
LEMMA DialFailedStep ==
  ASSUME NEW t, MachineOK(t), Owned(t), NEW p \in Peers, NEW aborted \in BOOLEAN,
         NEW asg \in [t.pending_by_peer[p] -> (Peers \ {p}) \cup {NoPeer}], NEW time
  PROVE  LET o == TunnelDialFailed(t, p, aborted, asg, time)
         IN  GoodStep(t, o) /\ \A q \in Peers : KeepsSnapshots(t, o.state, q)
<1> DEFINE o == TunnelDialFailed(t, p, aborted, asg, time)
<1>1. asg \in [t.pending_by_peer[p] -> Peers \cup {NoPeer}]
  OBVIOUS
<1>2. /\ MachineOK(o.state)
      /\ SameRetries(t, o.state)
      /\ \A q \in Peers : KeepsSnapshots(t, o.state, q)
      /\ Stays(t, o) \/ GivesUp(t, o, p, asg)
  BY <1>1, DialFailedFacts, Zenon
<1> HIDE DEF o
<1>3. Owned(o.state)
  <2>1. o.state.awaiting_holepunch = t.awaiting_holepunch
    BY <1>2 DEF Stays, SameRequests, GivesUp
  <2> QED BY <1>2, <2>1, OwnedStep
<1>4. Direct(t, o)
  BY <1>2 DEF Direct, Stays, GivesUp, NoneOpened
<1>5. Effect(t, o)
  BY <1>2, Zenon DEF Effect
<1> QED BY <1>2, <1>3, <1>4, <1>5 DEF GoodStep, o

\* PeerIdentified is a good step: it moves no request.
LEMMA IdentifiedStep ==
  ASSUME NEW t, MachineOK(t), Owned(t), NEW p \in Peers, NEW listen_addrs, NEW time
  PROVE  LET o == PeerIdentified(t, p, listen_addrs, time)
         IN  GoodStep(t, o) /\ \A q \in Peers : KeepsSnapshots(t, o.state, q)
<1> DEFINE o == PeerIdentified(t, p, listen_addrs, time)
<1>1. /\ MachineOK(o.state)
      /\ SameRetries(t, o.state)
      /\ \A q \in Peers : KeepsSnapshots(t, o.state, q)
      /\ Stays(t, o)
  BY IdentifiedFacts, Zenon
<1> HIDE DEF o
<1>2. Owned(o.state)
  BY <1>1, OwnedStep DEF Stays, SameRequests
<1>3. Direct(t, o)
  BY <1>1 DEF Direct, Stays, NoneOpened
<1> QED BY <1>1, <1>2, <1>3 DEF GoodStep, Effect, o

\* TunnelPeerConnected is a good step: a direct connection ends retries and waiting
\* together.
LEMMA ConnectedStep ==
  ASSUME NEW t, MachineOK(t), Owned(t), NEW p \in Peers, NEW relayed \in BOOLEAN
  PROVE  LET o == TunnelPeerConnected(t, p, relayed)
         IN  GoodStep(t, o) /\ \A q \in Peers : KeepsSnapshots(t, o.state, q)
<1> DEFINE o == TunnelPeerConnected(t, p, relayed)
<1>1. /\ MachineOK(o.state)
      /\ \A q \in Peers : KeepsSnapshots(t, o.state, q)
      /\ \/ /\ Holds(t, o, p)
            /\ o.state.relayed_peers = t.relayed_peers \cup {p}
            /\ o.state.holepunch_retry_attempts = t.holepunch_retry_attempts
            /\ o.state.pending_retry_redial = t.pending_retry_redial
         \/ /\ Opens(t, o, p, t.pending_by_peer[p], t.awaiting_holepunch[p])
            /\ o.state.relayed_peers = t.relayed_peers \ {p}
            /\ o.state.holepunch_retry_attempts =
                 [t.holepunch_retry_attempts EXCEPT ![p] = 0]
            /\ o.state.pending_retry_redial = t.pending_retry_redial \ {p}
  BY ConnectedFacts
<1> HIDE DEF o
<1>2. Owned(o.state)
  BY <1>1, TunnelAssumption DEF Owned, Holds, Opens, MachineOK
<1>3. Direct(t, o)
  BY <1>1 DEF Direct, Holds, Opens, NoneOpened, OpenedOn
<1>4. Effect(t, o)
  BY <1>1, Zenon DEF Effect
<1> QED BY <1>1, <1>2, <1>3, <1>4 DEF GoodStep, o

\* HolePunchAttemptStarted is a good step and touches no other peer's session.
LEMMA StartedStep ==
  ASSUME NEW t, MachineOK(t), Owned(t), NEW p \in Peers, NEW id
  PROVE  LET o == HolePunchAttemptStarted(t, p, id)
         IN  GoodStep(t, o) /\ \A q \in Peers \ {p} : KeepsSnapshots(t, o.state, q)
<1> DEFINE o == HolePunchAttemptStarted(t, p, id)
<1>1. /\ MachineOK(o.state)
      /\ SameRetries(t, o.state)
      /\ \A q \in Peers \ {p} : KeepsSnapshots(t, o.state, q)
      /\ Stays(t, o)
  BY StartedFacts, Zenon
<1> HIDE DEF o
<1>2. Owned(o.state)
  BY <1>1, OwnedStep DEF Stays, SameRequests
<1>3. Direct(t, o)
  BY <1>1 DEF Direct, Stays, NoneOpened
<1> QED BY <1>1, <1>2, <1>3 DEF GoodStep, Effect, o

\* HolePunchAttemptFailed is a good step: the budget is respected, and what opens
\* over the relay has used it up.
LEMMA FailedStep ==
  ASSUME NEW t, MachineOK(t), Owned(t), NEW p \in Peers, NEW id
  PROVE  LET o == HolePunchAttemptFailed(t, p, id)
         IN  GoodStep(t, o) /\ \A q \in Peers : KeepsSnapshots(t, o.state, q)
<1> DEFINE o == HolePunchAttemptFailed(t, p, id)
<1>1. /\ MachineOK(o.state)
      /\ \A q \in Peers : KeepsSnapshots(t, o.state, q)
      /\ o.state.relayed_peers = t.relayed_peers
      /\ \/ Stays(t, o) /\ SameRetries(t, o.state)
         \/ /\ Opens(t, o, p, {}, t.awaiting_holepunch[p])
            /\ RetriesExhausted(t, p)
            /\ o.state.holepunch_retry_attempts =
                 [t.holepunch_retry_attempts EXCEPT ![p] = 0]
            /\ o.state.pending_retry_redial = t.pending_retry_redial \ {p}
         \/ /\ Stays(t, o)
            /\ ~RetriesExhausted(t, p)
            /\ t.awaiting_holepunch[p] # {}
            /\ o.state.holepunch_retry_attempts =
                 [t.holepunch_retry_attempts EXCEPT ![p] = @ + 1]
            /\ o.state.pending_retry_redial = t.pending_retry_redial \cup {p}
  BY FailedFacts, Zenon
<1> HIDE DEF o
<1>2. t.holepunch_retry_attempts \in [Peers -> Nat] /\ t.awaiting_holepunch \in [Peers -> SUBSET Specs]
  BY DEF MachineOK
<1>3. Owned(o.state)
  BY <1>1, <1>2, TunnelAssumption
     DEF Owned, Stays, SameRequests, SameRetries, Opens, RetriesExhausted
<1>4. Direct(t, o)
  BY <1>1, <1>2, TunnelAssumption
     DEF Direct, Stays, Opens, NoneOpened, OpenedOn, RetriesExhausted, Owned
<1>5. Effect(t, o)
  BY <1>1, Zenon DEF Effect
<1> QED BY <1>1, <1>3, <1>4, <1>5 DEF GoodStep, o

\* ConnectionLostAll is a good step: retries end when the waiting ends.
LEMMA LostStep ==
  ASSUME NEW t, MachineOK(t), Owned(t), NEW p \in Peers, NEW time
  PROVE  LET o == ConnectionLostAll(t, p, time)
         IN  GoodStep(t, o) /\ \A q \in Peers : KeepsSnapshots(t, o.state, q)
<1> DEFINE o == ConnectionLostAll(t, p, time)
<1>1. /\ MachineOK(o.state)
      /\ \A q \in Peers : KeepsSnapshots(t, o.state, q)
      /\ o.state.relayed_peers = t.relayed_peers \ {p}
      /\ o.state.pending_retry_redial = t.pending_retry_redial \ {p}
      /\ NoneOpened(o)
      /\ \/ /\ Stays(t, o)
            /\ o.state.holepunch_retry_attempts = t.holepunch_retry_attempts
         \/ /\ Loses(t, o, p)
            /\ o.state.holepunch_retry_attempts =
                 [t.holepunch_retry_attempts EXCEPT ![p] = 0]
  BY LostFacts, Zenon
<1> HIDE DEF o
<1>2. t.holepunch_retry_attempts \in [Peers -> Nat] /\ t.awaiting_holepunch \in [Peers -> SUBSET Specs]
  BY DEF MachineOK
<1>3. Owned(o.state)
  BY <1>1, <1>2, TunnelAssumption DEF Owned, Stays, SameRequests, Loses
<1>4. Direct(t, o)
  BY <1>1 DEF Direct, NoneOpened
<1>5. Effect(t, o)
  BY <1>1, Zenon DEF Effect
<1> QED BY <1>1, <1>3, <1>4, <1>5 DEF GoodStep, o

-----------------------------------------------------------------------------
(* Numbers, and the elements of a finite set in their order *)

\* A set of natural numbers has a least element.
LEMMA LeastElement ==
  ASSUME NEW T \in SUBSET Nat, T # {}
  PROVE  /\ Min(T) \in T
         /\ \A m \in T : Min(T) <= m
<1>1. IsWellFoundedOn({ss \in Nat \X Nat : ss[1] < ss[2]}, Nat)
  BY NatLessThanWellFounded DEF OpToRel
<1>2. PICK n \in T : \A m \in T : ~(<<m, n>> \in {ss \in Nat \X Nat : ss[1] < ss[2]})
  BY <1>1, WFMin
<1>3. ASSUME NEW m \in T
      PROVE  n <= m
  <2>1. m \in Nat /\ n \in Nat
    OBVIOUS
  <2>2. <<m, n>> \in Nat \X Nat /\ <<m, n>>[1] = m /\ <<m, n>>[2] = n
    BY <2>1
  <2>3. ~(m < n)
    BY <1>2, <2>2, Zenon
  <2> QED BY <2>1, <2>3
<1> QED BY <1>3 DEF Min

\* Of two numbers the smaller one.
LEMMA MinOfTwo ==
  ASSUME NEW m \in Nat, NEW n \in Nat
  PROVE  Min({m, n}) = IF m <= n THEN m ELSE n
<1>1. Min({m, n}) \in {m, n} /\ \A k \in {m, n} : Min({m, n}) <= k
  BY LeastElement
<1> QED BY <1>1

\* Counting the elements up to and including each one of a finite, totally ordered
\* set numbers them from 1 on: upTo[a] are the elements that are not after a.
LEMMA RanksAreNumbers ==
  ASSUME NEW S, IsFiniteSet(S), NEW upTo \in [S -> SUBSET S],
         \A a \in S : a \in upTo[a],
         \A a, b \in S : a # b => (a \in upTo[b] <=> b \notin upTo[a]),
         \A a, b \in S : b \in upTo[a] => upTo[b] \subseteq upTo[a]
  PROVE  /\ Cardinality(S) \in Nat
         /\ \A a \in S : Cardinality(upTo[a]) \in 1..Cardinality(S)
         /\ \A a, b \in S : Cardinality(upTo[a]) = Cardinality(upTo[b]) => a = b
         /\ \A k \in 1..Cardinality(S) : \E a \in S : Cardinality(upTo[a]) = k
<1> DEFINE n == Cardinality(S)
           rank == [a \in S |-> Cardinality(upTo[a])]
<1>1. n \in Nat
  BY FS_CardinalityType
<1>2. ASSUME NEW a \in S
      PROVE  /\ IsFiniteSet(upTo[a])
             /\ Cardinality(upTo[a]) \in Nat
             /\ Cardinality(upTo[a]) <= n
             /\ Cardinality(upTo[a]) # 0
  <2>1. IsFiniteSet(upTo[a]) /\ Cardinality(upTo[a]) <= n
    BY FS_Subset
  <2>2. Cardinality(upTo[a]) \in Nat
    BY <2>1, FS_CardinalityType
  <2> QED BY <2>1, <2>2, FS_EmptySet
<1>3. ASSUME NEW a \in S, NEW b \in S, Cardinality(upTo[a]) = Cardinality(upTo[b])
      PROVE  a = b
  <2>1. CASE a \in upTo[b]
    <3>1. upTo[a] = upTo[b]
      BY <1>2, <1>3, <2>1, FS_Subset
    <3> QED BY <3>1
  <2>2. CASE b \in upTo[a]
    <3>1. upTo[a] = upTo[b]
      BY <1>2, <1>3, <2>2, FS_Subset
    <3> QED BY <3>1
  <2> QED BY <2>1, <2>2
<1>4. rank \in Injection(S, 1..n)
  <2>1. rank \in [S -> 1..n]
    BY <1>1, <1>2
  <2> QED BY <1>3, <2>1 DEF Injection, IsInjective
<1>5. IsFiniteSet(1..n) /\ Cardinality(1..n) = n
  BY <1>1, FS_Interval
<1>6. rank \in Surjection(S, 1..n)
  <2> HIDE DEF rank
  <2> QED BY <1>4, <1>5, FS_Injection
<1>7. \A k \in 1..n : \E a \in S : rank[a] = k
  BY <1>6 DEF Surjection
<1> QED BY <1>1, <1>2, <1>3, <1>7

-----------------------------------------------------------------------------
(* The lists of addresses *)

\* The addresses of class that are fresh.
Fresh(seen, now, class) == {a \in class : IsFresh(seen, a, now)}

\* Rank numbers the addresses of a finite set from 1 on.
LEMMA RankFacts ==
  ASSUME NEW fresh \in SUBSET Addrs, NEW seen \in [Addrs -> Nat]
  PROVE  /\ Cardinality(fresh) \in Nat
         /\ \A a \in fresh : Rank(seen, fresh, a) \in 1..Cardinality(fresh)
         /\ \A a, b \in fresh : Rank(seen, fresh, a) = Rank(seen, fresh, b) => a = b
         /\ \A k \in 1..Cardinality(fresh) : \E a \in fresh : Rank(seen, fresh, a) = k
<1> DEFINE Before(a) == {b \in fresh : seen[b] > seen[a] \/ (seen[b] = seen[a] /\ b <= a)}
           upTo == [a \in fresh |-> Before(a)]
<1>1. IsFiniteSet(fresh)
  BY LimitAssumption, FS_Subset
<1>2. \A a \in fresh : a \in Nat /\ seen[a] \in Nat
  BY AddressAssumption
<1>3. /\ upTo \in [fresh -> SUBSET fresh]
      /\ \A a \in fresh : a \in upTo[a]
      /\ \A a, b \in fresh : a # b => (a \in upTo[b] <=> b \notin upTo[a])
      /\ \A a, b \in fresh : b \in upTo[a] => upTo[b] \subseteq upTo[a]
  BY <1>2
<1>4. \A a \in fresh : Rank(seen, fresh, a) = Cardinality(upTo[a])
  BY DEF Rank
<1> HIDE DEF upTo
<1> QED BY <1>1, <1>3, <1>4, RanksAreNumbers

\* fresh_candidates is a list of addresses of its class, within the limit: the
\* fresh ones whose rank is within it.
LEMMA CandidateFacts ==
  ASSUME NEW class \in SUBSET Addrs, NEW seen \in [Addrs -> Nat], NEW now,
         NEW limit \in Nat
  PROVE  LET s == fresh_candidates(seen, now, class, limit)
         IN  /\ s \in Seq(class)
             /\ Len(s) <= limit
             /\ \A a : a \in ToSet(s) <=>
                        /\ a \in Fresh(seen, now, class)
                        /\ Rank(seen, Fresh(seen, now, class), a) <= limit
<1> DEFINE fresh == Fresh(seen, now, class)
           s == fresh_candidates(seen, now, class, limit)
           n == Min({limit, Cardinality(fresh)})
           Pick(k) == CHOOSE a \in fresh : Rank(seen, fresh, a) = k
<1>1. s = [k \in 1..n |-> Pick(k)]
  BY DEF fresh_candidates, Ranked, Fresh
<1>2. fresh \subseteq class /\ fresh \in SUBSET Addrs
  BY DEF Fresh
<1> HIDE DEF fresh, s
<1>3. /\ Cardinality(fresh) \in Nat
      /\ \A a \in fresh : Rank(seen, fresh, a) \in 1..Cardinality(fresh)
      /\ \A a, b \in fresh : Rank(seen, fresh, a) = Rank(seen, fresh, b) => a = b
      /\ \A k \in 1..Cardinality(fresh) : \E a \in fresh : Rank(seen, fresh, a) = k
  BY <1>2, RankFacts
<1>4. n \in Nat /\ n <= limit /\ n <= Cardinality(fresh)
      /\ (n = limit \/ n = Cardinality(fresh))
  BY <1>3, MinOfTwo
<1> HIDE DEF n
<1>5. ASSUME NEW k \in 1..n
      PROVE  Pick(k) \in fresh /\ Rank(seen, fresh, Pick(k)) = k
  <2>1. \E a \in fresh : Rank(seen, fresh, a) = k
    BY <1>3, <1>4
  <2> QED BY <2>1, Zenon
<1>6. s \in Seq(class) /\ Len(s) = n /\ DOMAIN s = 1..n
  BY <1>1, <1>2, <1>4, <1>5
<1>7. ASSUME NEW a \in fresh, Rank(seen, fresh, a) <= limit
      PROVE  a \in ToSet(s)
  <2> DEFINE k == Rank(seen, fresh, a)
  <2>1. k \in 1..n
    BY <1>3, <1>4, <1>7
  <2>2. Pick(k) = a
    BY <1>3, <1>5, <2>1
  <2> QED BY <1>1, <1>6, <2>1, <2>2 DEF ToSet
<1>8. ASSUME NEW a \in ToSet(s)
      PROVE  a \in fresh /\ Rank(seen, fresh, a) <= limit
  <2>1. PICK k \in 1..n : a = Pick(k)
    BY <1>1, <1>6 DEF ToSet
  <2> QED BY <1>4, <1>5, <2>1
<1> QED BY <1>4, <1>6, <1>7, <1>8 DEF fresh, s

\* As time passes without a new sighting, candidates can only be dropped: none
\* moves up into the list when another one expires, as the oldest expire first.
LEMMA CandidatesOnlyExpire ==
  ASSUME NEW class \in SUBSET Addrs, NEW seen \in [Addrs -> Nat], NEW limit \in Nat,
         NEW at \in Nat, NEW now \in Nat, at <= now
  PROVE  ToSet(fresh_candidates(seen, now, class, limit))
           \subseteq ToSet(fresh_candidates(seen, at, class, limit))
<1> DEFINE old == Fresh(seen, at, class)
           new == Fresh(seen, now, class)
<1>1. \A a \in class : a \in Nat /\ seen[a] \in Nat
  BY AddressAssumption
<1>2. new \subseteq old
  <2>1. ASSUME NEW a \in class, IsFresh(seen, a, now)
        PROVE  IsFresh(seen, a, at)
    <3>1. seen[a] \in Nat /\ ADDRESS_CANDIDATE_TTL \in Nat
      BY <1>1, AddressAssumption
    <3>2. seen[a] # Never /\ now - seen[a] <= ADDRESS_CANDIDATE_TTL
      BY <2>1 DEF IsFresh
    <3> QED BY <3>1, <3>2 DEF IsFresh
  <2> QED BY <2>1 DEF Fresh
<1>3. ASSUME NEW a \in new
      PROVE  Rank(seen, old, a) = Rank(seen, new, a)
  <2>1. ASSUME NEW b \in old, seen[b] >= seen[a]
        PROVE  b \in new
    BY <1>1, <2>1, AddressAssumption DEF Fresh, IsFresh, Never
  <2>2. \A b \in old : b \in Nat /\ seen[b] \in Nat
    BY <1>1 DEF Fresh
  <2>3. a \in Nat /\ seen[a] \in Nat
    BY <1>1 DEF Fresh
  <2> HIDE DEF old, new
  <2>4. {b \in old : seen[b] > seen[a] \/ (seen[b] = seen[a] /\ b <= a)} =
        {b \in new : seen[b] > seen[a] \/ (seen[b] = seen[a] /\ b <= a)}
    <3>1. ASSUME NEW b \in old, seen[b] > seen[a] \/ (seen[b] = seen[a] /\ b <= a)
          PROVE  b \in new
      <4>1. seen[b] \in Nat /\ seen[b] >= seen[a]
        BY <2>2, <2>3, <3>1
      <4> QED BY <2>1, <4>1
    <3> QED BY <1>2, <3>1, Zenon
  <2> QED BY <2>4 DEF Rank
<1>4. \A a : a \in ToSet(fresh_candidates(seen, at, class, limit)) <=>
              a \in old /\ Rank(seen, old, a) <= limit
  BY CandidateFacts
<1>5. \A a : a \in ToSet(fresh_candidates(seen, now, class, limit)) <=>
              a \in new /\ Rank(seen, new, a) <= limit
  BY CandidateFacts
<1> HIDE DEF old, new
<1> QED BY <1>2, <1>3, <1>4, <1>5

-----------------------------------------------------------------------------
(* Dedup *)

\* The places of s that hold something for the first time.
Firsts(s) == {i \in DOMAIN s : \A j \in 1..(i-1) : s[j] # s[i]}

Count(s, i) == Cardinality(Firsts(s) \cap (1..i))

\* The first occurrences of a list are numbered from 1 on.
LEMMA CountFacts ==
  ASSUME NEW A, NEW s \in Seq(A)
  PROVE  /\ IsFiniteSet(Firsts(s))
         /\ Cardinality(Firsts(s)) \in Nat
         /\ \A i \in Firsts(s) : Count(s, i) \in 1..Cardinality(Firsts(s))
         /\ \A i, j \in Firsts(s) : Count(s, i) = Count(s, j) => i = j
         /\ \A k \in 1..Cardinality(Firsts(s)) : \E i \in Firsts(s) : Count(s, i) = k
<1> DEFINE firsts == Firsts(s)
           upTo == [i \in firsts |-> firsts \cap (1..i)]
<1>1. Len(s) \in Nat /\ DOMAIN s = 1..Len(s)
  OBVIOUS
<1>2. firsts \in SUBSET Nat /\ \A i \in firsts : i >= 1 /\ i <= Len(s)
  BY <1>1 DEF Firsts
<1>3. IsFiniteSet(firsts)
  BY <1>1, <1>2, FS_BoundedSetOfNaturals
<1> HIDE DEF firsts
<1>4. /\ upTo \in [firsts -> SUBSET firsts]
      /\ \A i \in firsts : i \in upTo[i]
      /\ \A i, j \in firsts : i # j => (i \in upTo[j] <=> j \notin upTo[i])
      /\ \A i, j \in firsts : j \in upTo[i] => upTo[j] \subseteq upTo[i]
  BY <1>2
<1>5. \A i \in firsts : Count(s, i) = Cardinality(upTo[i])
  BY DEF Count, firsts
<1> HIDE DEF upTo
<1>6. /\ Cardinality(firsts) \in Nat
      /\ \A a \in firsts : Cardinality(upTo[a]) \in 1..Cardinality(firsts)
      /\ \A a, b \in firsts : Cardinality(upTo[a]) = Cardinality(upTo[b]) => a = b
      /\ \A k \in 1..Cardinality(firsts) : \E a \in firsts : Cardinality(upTo[a]) = k
  BY <1>3, <1>4, RanksAreNumbers
<1> QED BY <1>3, <1>5, <1>6 DEF firsts

\* Dedup returns the values of the first occurrences, in their order.
LEMMA DedupFacts ==
  ASSUME NEW A, NEW s \in Seq(A)
  PROVE  /\ Dedup(s) \in Seq(A)
         /\ Len(Dedup(s)) = Cardinality(Firsts(s))
         /\ \A i \in Firsts(s) : Dedup(s)[Count(s, i)] = s[i]
<1> DEFINE n == Cardinality(Firsts(s))
           Pick(k) == CHOOSE i \in Firsts(s) : Count(s, i) = k
<1>1. Dedup(s) = [k \in 1..n |-> s[Pick(k)]]
  BY DEF Dedup, Firsts, Count
<1>2. n \in Nat
  BY CountFacts
<1>3. ASSUME NEW k \in 1..n
      PROVE  Pick(k) \in Firsts(s) /\ Count(s, Pick(k)) = k
  <2>1. \E i \in Firsts(s) : Count(s, i) = k
    BY CountFacts
  <2> QED BY <2>1, Zenon
<1>4. \A k \in 1..n : s[Pick(k)] \in A
  <2>1. \A i \in Firsts(s) : s[i] \in A
    BY DEF Firsts
  <2> QED BY <1>3, <2>1, Zenon
<1>5. ASSUME NEW i \in Firsts(s)
      PROVE  Count(s, i) \in 1..n /\ Pick(Count(s, i)) = i
  BY <1>3, CountFacts
<1> HIDE DEF Pick, n
<1>6. Dedup(s) \in Seq(A) /\ Len(Dedup(s)) = n
  BY <1>1, <1>2, <1>4
<1> QED BY <1>1, <1>5, <1>6 DEF n

\* What stands at place i survives, and not further back than the number of
\* different values up to i.
LEMMA DedupKeeps ==
  ASSUME NEW A, NEW s \in Seq(A), NEW i \in 1..Len(s),
         NEW S, IsFiniteSet(S), \A j \in 1..i : s[j] \in S
  PROVE  \E k \in 1..Len(Dedup(s)) : k <= Cardinality(S) /\ Dedup(s)[k] = s[i]
<1> DEFINE same == {j \in 1..i : s[j] = s[i]}
           f == Min(same)
           upTo == Firsts(s) \cap (1..f)
           value == [j \in upTo |-> s[j]]
<1>1. Len(s) \in Nat /\ DOMAIN s = 1..Len(s)
  OBVIOUS
<1>2. f \in same /\ \A m \in same : f <= m
  <2>1. same \in SUBSET Nat /\ i \in same
    OBVIOUS
  <2> QED BY <2>1, LeastElement
<1>3. f \in 1..i /\ s[f] = s[i]
  BY <1>2
<1>4. f \in Firsts(s)
  BY <1>1, <1>2, <1>3 DEF Firsts
<1>5. value \in Injection(upTo, S)
  <2>1. \A j \in upTo : j \in 1..i /\ j \in Nat
    BY <1>3
  <2>2. value \in [upTo -> S]
    BY <2>1
  <2>3. ASSUME NEW j \in upTo, NEW l \in upTo, s[j] = s[l]
        PROVE  j = l
    BY <2>1, <2>3 DEF Firsts
  <2> QED BY <2>2, <2>3 DEF Injection, IsInjective
<1> HIDE DEF value
<1>6. Cardinality(upTo) <= Cardinality(S)
  BY <1>5, FS_Injection
<1>7. Count(s, f) <= Cardinality(S)
  BY <1>6 DEF Count
<1> QED BY <1>3, <1>4, <1>7, CountFacts, DedupFacts

-----------------------------------------------------------------------------
(* The addresses of a retry *)

\* The oracle and the snapshot of one class of addresses: the oracle is what was
\* fresh at some time, and a running attempt has it unless it is empty.
ClassOK(seen, at, oracle, snapshot, running, class, limit) ==
  /\ oracle = fresh_candidates(seen, at, class, limit)
  /\ snapshot \in Seq(class)
  /\ Len(snapshot) <= limit
  /\ running /\ oracle # <<>> => snapshot = oracle

\* The addresses known of one peer.
PeerAddressesOK(seen, oracle, session, now) ==
  /\ seen \in [Addrs -> Nat]
  /\ oracle \in [relay : Seq(RelayAddrs), direct : Seq(DirectAddrs)]
  /\ session.attempt_id \in Nat
  /\ \E at \in Nat :
       /\ at <= now
       /\ ClassOK(seen, at, oracle.relay, session.relay_redial_addrs,
                  session.phase # "None", RelayAddrs, MAX_RELAY_CANDIDATES)
       /\ ClassOK(seen, at, oracle.direct, session.direct_snapshot,
                  session.phase # "None", DirectAddrs, MAX_DIRECT_CANDIDATES)

\* The lists of the machine: the providers of every service, the addresses of
\* every peer.
ListsOK(t, now) ==
  /\ t.service_provider_candidates \in [Services -> Seq(Peers)]
  /\ t.address_last_seen = [p \in Peers |-> t.address_last_seen[p]]
  /\ t.address_oracle = [p \in Peers |-> t.address_oracle[p]]
  /\ \A p \in Peers :
       PeerAddressesOK(t.address_last_seen[p], t.address_oracle[p],
                       t.holepunch_sessions[p], now)

\* The classes are addresses, with their limits.
LEMMA ClassFacts ==
  /\ RelayAddrs \in SUBSET Addrs /\ DirectAddrs \in SUBSET Addrs
  /\ MAX_RELAY_CANDIDATES \in Nat /\ MAX_DIRECT_CANDIDATES \in Nat
  BY AddressAssumption DEF Addrs

\* The members of the direct snapshot, the direct oracle and the fresh direct
\* addresses are few: those of the snapshot, for what is not in it has expired.
LEMMA SourcesAgree ==
  ASSUME NEW class \in SUBSET Addrs, NEW seen \in [Addrs -> Nat], NEW limit \in Nat,
         NEW at \in Nat, NEW now \in Nat, at <= now, NEW oracle, NEW snapshot,
         ClassOK(seen, at, oracle, snapshot, TRUE, class, limit)
  PROVE  /\ ToSet(oracle) \subseteq ToSet(snapshot)
         /\ ToSet(fresh_candidates(seen, now, class, limit)) \subseteq ToSet(snapshot)
<1>1. ToSet(oracle) \subseteq ToSet(snapshot)
  <2>1. CASE oracle = <<>>
    BY <2>1 DEF ToSet
  <2>2. CASE oracle # <<>>
    BY <2>2 DEF ClassOK
  <2> QED BY <2>1, <2>2
<1>2. ToSet(fresh_candidates(seen, now, class, limit)) \subseteq ToSet(oracle)
  BY CandidatesOnlyExpire DEF ClassOK
<1> QED BY <1>1, <1>2

\* A list has no more different members than places.
LEMMA MembersFewerThanPlaces ==
  ASSUME NEW A, NEW s \in Seq(A)
  PROVE  IsFiniteSet(ToSet(s)) /\ Cardinality(ToSet(s)) <= Len(s)
<1> DEFINE f == [i \in 1..Len(s) |-> s[i]]
<1>1. Len(s) \in Nat /\ DOMAIN s = 1..Len(s)
  OBVIOUS
<1>2. f \in Surjection(1..Len(s), ToSet(s))
  BY <1>1 DEF Surjection, ToSet
<1>3. IsFiniteSet(1..Len(s)) /\ Cardinality(1..Len(s)) = Len(s)
  BY <1>1, FS_Interval
<1> HIDE DEF f
<1> QED BY <1>2, <1>3, FS_Surjection

\* The places and the members of two lists in a row.
LEMMA ConcatFacts ==
  ASSUME NEW A, NEW s \in Seq(A), NEW u \in Seq(A)
  PROVE  /\ s \o u \in Seq(A)
         /\ Len(s \o u) = Len(s) + Len(u)
         /\ \A j \in 1..Len(s) : (s \o u)[j] = s[j]
         /\ \A j \in 1..Len(u) : (s \o u)[Len(s) + j] = u[j]
         /\ ToSet(s \o u) \subseteq ToSet(s) \cup ToSet(u)
<1>1. /\ s \o u \in Seq(A)
      /\ Len(s \o u) = Len(s) + Len(u)
      /\ Len(s) \in Nat /\ Len(u) \in Nat
      /\ \A j \in 1..Len(s) : (s \o u)[j] = s[j]
      /\ \A j \in 1..Len(u) : (s \o u)[Len(s) + j] = u[j]
  OBVIOUS
<1>2. ASSUME NEW j \in 1..Len(s \o u)
      PROVE  (s \o u)[j] \in ToSet(s) \cup ToSet(u)
  <2>1. CASE j <= Len(s)
    BY <1>1, <2>1 DEF ToSet
  <2>2. CASE j > Len(s)
    <3>1. j - Len(s) \in 1..Len(u) /\ j = Len(s) + (j - Len(s))
      BY <1>1, <2>2
    <3>2. (s \o u)[j] = u[j - Len(s)]
      BY <1>1, <3>1
    <3> QED BY <3>1, <3>2 DEF ToSet
  <2> QED BY <1>1, <2>1, <2>2
<1>3. DOMAIN (s \o u) = 1..Len(s \o u)
  BY <1>1
<1> QED BY <1>1, <1>2, <1>3 DEF ToSet

\* The limit of a redial list never cuts off a relayed address of the attempt: in
\* front of it are only the direct addresses, which are those of the snapshot, and
\* relayed addresses of the snapshot.
LEMMA RelayedAddressesAreDialled ==
  ASSUME NEW now \in Nat, NEW seen, NEW oracle, NEW session,
         PeerAddressesOK(seen, oracle, session, now), session.phase # "None"
  PROVE  ToSet(session.relay_redial_addrs)
           \subseteq ToSet(prioritized_redial_addrs(oracle, seen, session, now))
<1> DEFINE direct == session.direct_snapshot
           relay == session.relay_redial_addrs
           freshDirect == fresh_candidates(seen, now, DirectAddrs, MAX_DIRECT_CANDIDATES)
           freshRelay == fresh_candidates(seen, now, RelayAddrs, MAX_RELAY_CANDIDATES)
           front == direct \o oracle.direct \o freshDirect
           all == direct \o oracle.direct \o freshDirect \o relay \o oracle.relay \o freshRelay
           few == ToSet(direct) \cup ToSet(relay)
           listed == Dedup(all)
           redial == prioritized_redial_addrs(oracle, seen, session, now)
<1>1. PICK at \in Nat :
        /\ at <= now
        /\ ClassOK(seen, at, oracle.relay, relay, TRUE, RelayAddrs, MAX_RELAY_CANDIDATES)
        /\ ClassOK(seen, at, oracle.direct, direct, TRUE, DirectAddrs, MAX_DIRECT_CANDIDATES)
  BY DEF PeerAddressesOK
<1>2. /\ seen \in [Addrs -> Nat]
      /\ oracle.relay \in Seq(RelayAddrs) /\ oracle.direct \in Seq(DirectAddrs)
  BY DEF PeerAddressesOK
<1>3. freshDirect \in Seq(DirectAddrs) /\ freshRelay \in Seq(RelayAddrs)
  BY <1>2, ClassFacts, CandidateFacts
<1>4. /\ direct \in Seq(DirectAddrs) /\ Len(direct) <= MAX_DIRECT_CANDIDATES
      /\ relay \in Seq(RelayAddrs) /\ Len(relay) <= MAX_RELAY_CANDIDATES
  BY <1>1 DEF ClassOK
<1>5. ToSet(oracle.direct) \subseteq ToSet(direct) /\ ToSet(freshDirect) \subseteq ToSet(direct)
  BY <1>1, <1>2, ClassFacts, SourcesAgree
<1>6. redial = SubSeq(listed, 1, Min({MAX_REDIAL_ADDRESSES, Len(listed)}))
  BY DEF prioritized_redial_addrs, redial_candidates
<1> HIDE DEF direct, relay, freshDirect, freshRelay, redial
<1>7. IsFiniteSet(few) /\ Cardinality(few) <= MAX_REDIAL_ADDRESSES
  <2>1. /\ IsFiniteSet(ToSet(direct)) /\ Cardinality(ToSet(direct)) <= Len(direct)
        /\ IsFiniteSet(ToSet(relay)) /\ Cardinality(ToSet(relay)) <= Len(relay)
    BY <1>4, MembersFewerThanPlaces
  <2>2. /\ IsFiniteSet(few)
        /\ Cardinality(few) = Cardinality(ToSet(direct)) + Cardinality(ToSet(relay))
                                - Cardinality(ToSet(direct) \cap ToSet(relay))
    BY <2>1, FS_Union
  <2>3. IsFiniteSet(ToSet(direct) \cap ToSet(relay))
    BY <2>1, FS_Subset
  <2>4. /\ Cardinality(ToSet(direct)) \in Nat /\ Cardinality(ToSet(relay)) \in Nat
        /\ Cardinality(ToSet(direct) \cap ToSet(relay)) \in Nat
        /\ Cardinality(few) \in Nat
    BY <2>1, <2>2, <2>3, FS_CardinalityType
  <2>5. Len(direct) \in Nat /\ Len(relay) \in Nat
    BY <1>4
  <2> HIDE DEF few
  <2> QED BY <1>4, <2>1, <2>2, <2>4, <2>5, ClassFacts, LimitAssumption, AddressAssumption
<1>8. /\ direct \in Seq(Addrs) /\ oracle.direct \in Seq(Addrs) /\ freshDirect \in Seq(Addrs)
      /\ relay \in Seq(Addrs) /\ oracle.relay \in Seq(Addrs) /\ freshRelay \in Seq(Addrs)
  BY <1>2, <1>3, <1>4, ClassFacts
<1>9. front \in Seq(Addrs) /\ ToSet(front) \subseteq few
  <2>1. /\ direct \o oracle.direct \in Seq(Addrs)
        /\ ToSet(direct \o oracle.direct) \subseteq ToSet(direct) \cup ToSet(oracle.direct)
    BY <1>8, ConcatFacts
  <2>2. /\ front \in Seq(Addrs)
        /\ ToSet(front) \subseteq ToSet(direct \o oracle.direct) \cup ToSet(freshDirect)
    BY <1>8, <2>1, ConcatFacts
  <2> QED BY <1>5, <2>1, <2>2
<1>10. /\ all \in Seq(Addrs)
       /\ Len(front) + Len(relay) <= Len(all)
       /\ \A j \in 1..Len(front) : all[j] = front[j]
       /\ \A j \in 1..Len(relay) : all[Len(front) + j] = relay[j]
  <2> DEFINE both == front \o relay
             back == oracle.relay
  <2>1. all = both \o back \o freshRelay
    OBVIOUS
  <2> HIDE DEF front, all
  <2>2. /\ both \in Seq(Addrs) /\ Len(both) = Len(front) + Len(relay)
        /\ \A j \in 1..Len(front) : both[j] = front[j]
        /\ \A j \in 1..Len(relay) : both[Len(front) + j] = relay[j]
    BY <1>8, <1>9, ConcatFacts
  <2>3. /\ Len(front) \in Nat /\ Len(relay) \in Nat /\ Len(back) \in Nat
        /\ Len(freshRelay) \in Nat
    BY <1>8, <1>9
  <2> HIDE DEF both, back
  <2> DEFINE most == both \o back
  <2>4. /\ most \in Seq(Addrs) /\ Len(most) = Len(both) + Len(back)
        /\ \A j \in 1..Len(both) : most[j] = both[j]
    <3>1. both \in Seq(Addrs) /\ back \in Seq(Addrs)
      BY <1>8, <2>2 DEF back
    <3> QED BY <3>1, ConcatFacts
  <2> HIDE DEF most
  <2>5. /\ all \in Seq(Addrs) /\ Len(all) = Len(most) + Len(freshRelay)
        /\ \A j \in 1..Len(most) : all[j] = most[j]
    BY <1>8, <2>1, <2>4, ConcatFacts DEF most
  <2>6. ASSUME NEW j \in 1..Len(both)
        PROVE  all[j] = both[j]
    <3>1. j \in 1..Len(most)
      BY <2>2, <2>3, <2>4
    <3> QED BY <2>4, <2>5, <3>1
  <2>7. ASSUME NEW j \in 1..Len(relay)
        PROVE  all[Len(front) + j] = relay[j]
    <3>1. Len(front) + j \in 1..Len(both)
      BY <2>2, <2>3
    <3> QED BY <2>2, <2>6, <3>1
  <2>8. ASSUME NEW j \in 1..Len(front)
        PROVE  all[j] = front[j]
    <3>1. j \in 1..Len(both)
      BY <2>2, <2>3
    <3> QED BY <2>2, <2>6, <3>1
  <2> QED BY <2>2, <2>3, <2>4, <2>5, <2>7, <2>8
<1> HIDE DEF front, all, few
<1>11. ASSUME NEW i \in 1..Len(relay)
       PROVE  relay[i] \in ToSet(redial)
  <2> DEFINE place == Len(front) + i
  <2>1. Len(front) \in Nat /\ Len(relay) \in Nat /\ Len(all) \in Nat
    BY <1>4, <1>9, <1>10
  <2>2. place \in 1..Len(all) /\ all[place] = relay[i]
    BY <1>10, <2>1
  <2>3. \A j \in 1..place : all[j] \in few
    <3> SUFFICES ASSUME NEW j \in 1..place PROVE all[j] \in few
      OBVIOUS
    <3>1. CASE j <= Len(front)
      BY <1>9, <1>10, <2>1, <3>1 DEF ToSet
    <3>2. CASE j > Len(front)
      <4> DEFINE k == j - Len(front)
      <4>1. k \in 1..Len(relay) /\ j = Len(front) + k
        BY <2>1, <3>2
      <4>2. all[j] = relay[k]
        BY <1>10, <4>1
      <4>3. relay[k] \in few
        BY <1>4, <4>1 DEF few, ToSet
      <4> QED BY <4>2, <4>3
    <3> QED BY <2>1, <3>1, <3>2
  <2> HIDE DEF place
  <2>4. PICK k \in 1..Len(listed) : k <= Cardinality(few) /\ listed[k] = relay[i]
    BY <1>7, <1>10, <2>2, <2>3, DedupKeeps
  <2>5. listed \in Seq(Addrs) /\ Len(listed) \in Nat
    BY <1>10, DedupFacts
  <2> HIDE DEF listed
  <2>6. Cardinality(few) \in Nat /\ MAX_REDIAL_ADDRESSES \in Nat
    BY <1>7, FS_CardinalityType, AddressAssumption
  <2>7. k \in Nat /\ k >= 1 /\ k <= MAX_REDIAL_ADDRESSES /\ k <= Len(listed)
    BY <1>7, <2>4, <2>5, <2>6
  <2>8. /\ Min({MAX_REDIAL_ADDRESSES, Len(listed)}) \in Nat
        /\ Min({MAX_REDIAL_ADDRESSES, Len(listed)}) <= Len(listed)
        /\ k <= Min({MAX_REDIAL_ADDRESSES, Len(listed)})
    BY <2>5, <2>6, <2>7, MinOfTwo
  <2> DEFINE n == Min({MAX_REDIAL_ADDRESSES, Len(listed)})
  <2>9. Len(SubSeq(listed, 1, n)) = n /\ SubSeq(listed, 1, n)[k] = listed[k]
    BY <2>5, <2>7, <2>8
  <2>10. k \in DOMAIN redial /\ redial[k] = relay[i]
    BY <1>6, <2>4, <2>5, <2>7, <2>8, <2>9
  <2> QED BY <2>10 DEF ToSet
<1> QED BY <1>4, <1>11 DEF ToSet, relay, redial

-----------------------------------------------------------------------------
(* What the events do to the lists *)

\* A session goes on with its addresses, or ends.
SessionKept(s, r) ==
  \/ r = NoSession
  \/ /\ r.attempt_id = s.attempt_id
     /\ r.relay_redial_addrs = s.relay_redial_addrs
     /\ r.direct_snapshot = s.direct_snapshot
     /\ r.phase # "None" => s.phase # "None"

\* No address is learnt or forgotten.
KeepsAddresses(t, r) ==
  /\ r.address_last_seen = t.address_last_seen
  /\ r.address_oracle = t.address_oracle
  /\ \A p \in Peers : SessionKept(t.holepunch_sessions[p], r.holepunch_sessions[p])

KeepsProviders(t, r) == r.service_provider_candidates = t.service_provider_candidates

\* Lists that are kept stay well formed.
LEMMA KeptLists ==
  ASSUME NEW t, NEW now, ListsOK(t, now), NEW r, KeepsAddresses(t, r),
         r.service_provider_candidates \in [Services -> Seq(Peers)]
  PROVE  ListsOK(r, now)
<1>1. ASSUME NEW seen, NEW oracle, NEW s, PeerAddressesOK(seen, oracle, s, now),
             NEW new, SessionKept(s, new)
      PROVE  PeerAddressesOK(seen, oracle, new, now)
  <2>1. PICK at \in Nat :
          /\ at <= now
          /\ ClassOK(seen, at, oracle.relay, s.relay_redial_addrs,
                     s.phase # "None", RelayAddrs, MAX_RELAY_CANDIDATES)
          /\ ClassOK(seen, at, oracle.direct, s.direct_snapshot,
                     s.phase # "None", DirectAddrs, MAX_DIRECT_CANDIDATES)
    BY <1>1 DEF PeerAddressesOK
  <2>2. CASE new = NoSession
    <3>1. /\ new.attempt_id = 0 /\ new.phase = "None"
          /\ new.relay_redial_addrs = <<>> /\ new.direct_snapshot = <<>>
      BY <2>2 DEF NoSession
    <3>2. /\ ClassOK(seen, at, oracle.relay, new.relay_redial_addrs,
                     new.phase # "None", RelayAddrs, MAX_RELAY_CANDIDATES)
          /\ ClassOK(seen, at, oracle.direct, new.direct_snapshot,
                     new.phase # "None", DirectAddrs, MAX_DIRECT_CANDIDATES)
      BY <2>1, <3>1, ClassFacts DEF ClassOK
    <3>3. new.attempt_id \in Nat
      BY <3>1
    <3> QED BY <1>1, <2>1, <3>2, <3>3, Zenon DEF PeerAddressesOK
  <2>3. CASE new # NoSession
    <3>1. /\ ClassOK(seen, at, oracle.relay, new.relay_redial_addrs,
                     new.phase # "None", RelayAddrs, MAX_RELAY_CANDIDATES)
          /\ ClassOK(seen, at, oracle.direct, new.direct_snapshot,
                     new.phase # "None", DirectAddrs, MAX_DIRECT_CANDIDATES)
          /\ new.attempt_id = s.attempt_id
      BY <1>1, <2>1, <2>3 DEF ClassOK, SessionKept
    <3> QED BY <1>1, <2>1, <3>1 DEF PeerAddressesOK
  <2> QED BY <2>2, <2>3
<1> QED BY <1>1 DEF ListsOK, KeepsAddresses

\* Nothing but the queues of requests and the marks of peers changes.
LEMMA SameLists ==
  ASSUME NEW t, NEW r, r.address_last_seen = t.address_last_seen,
         r.address_oracle = t.address_oracle, r.holepunch_sessions = t.holepunch_sessions
  PROVE  KeepsAddresses(t, r)
  BY DEF KeepsAddresses, SessionKept

\* clear_retry_state ends the session of p.
LEMMA ClearKeepsAddresses ==
  ASSUME NEW t, MachineOK(t), NEW p \in Peers
  PROVE  LET r == clear_retry_state(t, p)
         IN  KeepsAddresses(t, r) /\ KeepsProviders(t, r)
<1> DEFINE r == clear_retry_state(t, p)
<1>1. /\ r.address_last_seen = t.address_last_seen
      /\ r.address_oracle = t.address_oracle
      /\ r.service_provider_candidates = t.service_provider_candidates
  BY DEF clear_retry_state, MachineOK
<1>2. r.holepunch_sessions = [t.holepunch_sessions EXCEPT ![p] = NoSession]
  BY ClearFacts, Zenon
<1> HIDE DEF r
<1>3. \A q \in Peers : SessionKept(t.holepunch_sessions[q], r.holepunch_sessions[q])
  BY <1>2 DEF SessionKept, MachineOK, SessionsOK
<1> QED BY <1>1, <1>3 DEF KeepsAddresses, KeepsProviders, r

\* route_connected_peer touches no list.
LEMMA RouteKeepsLists ==
  ASSUME NEW t, MachineOK(t), NEW p, NEW specs
  PROVE  LET r == route_connected_peer(t, p, specs).state
         IN  KeepsAddresses(t, r) /\ KeepsProviders(t, r)
<1> DEFINE r == route_connected_peer(t, p, specs).state
<1>1. r = t \/ r = [t EXCEPT !.awaiting_holepunch[p] = @ \cup specs]
  BY DEF route_connected_peer, Out
<1>2. /\ r.address_last_seen = t.address_last_seen
      /\ r.address_oracle = t.address_oracle
      /\ r.holepunch_sessions = t.holepunch_sessions
      /\ r.service_provider_candidates = t.service_provider_candidates
  BY <1>1 DEF MachineOK
<1> QED BY <1>2, SameLists DEF KeepsProviders

\* DhtPeerLookupComplete touches no list.
LEMMA LookupKeepsLists ==
  ASSUME NEW t, MachineOK(t), NEW p \in Peers, NEW connected, NEW now, ListsOK(t, now)
  PROVE  ListsOK(DhtPeerLookupComplete(t, p, connected).state, now)
<1> DEFINE r == DhtPeerLookupComplete(t, p, connected).state
           t0 == [t EXCEPT !.pending_by_peer[p] = {}]
<1>1. r = t \/ r = route_connected_peer(t0, p, t.pending_by_peer[p]).state
  BY DEF DhtPeerLookupComplete, Out
<1>2. MachineOK(t0) /\ KeepsProviders(t, t0) /\ KeepsAddresses(t, t0)
  <2>1. /\ t0.address_last_seen = t.address_last_seen
        /\ t0.address_oracle = t.address_oracle
        /\ t0.holepunch_sessions = t.holepunch_sessions
        /\ KeepsProviders(t, t0)
    BY DEF MachineOK, KeepsProviders
  <2>2. MachineOK(t0)
    BY DEF MachineOK
  <2> HIDE DEF t0
  <2> QED BY <2>1, <2>2, SameLists
<1> HIDE DEF t0, r
<1>3. ListsOK(t0, now)
  BY <1>2, KeptLists DEF KeepsProviders, ListsOK
<1>4. ListsOK(route_connected_peer(t0, p, t.pending_by_peer[p]).state, now)
  BY <1>2, <1>3, RouteKeepsLists, KeptLists DEF KeepsProviders, ListsOK
<1> QED BY <1>1, <1>4 DEF r

\* The fallback providers of an answer: all but the first, each once.
LEMMA FallbacksArePeers ==
  ASSUME NEW providers \in Seq([peer : Peers, connected : BOOLEAN]), providers # <<>>
  PROVE  Tail(Dedup([i \in DOMAIN providers |-> providers[i].peer])) \in Seq(Peers)
<1> DEFINE list == [i \in DOMAIN providers |-> providers[i].peer]
<1>1. Len(providers) \in Nat /\ DOMAIN providers = 1..Len(providers) /\ Len(providers) # 0
  OBVIOUS
<1>2. ASSUME NEW i \in 1..Len(providers)
      PROVE  providers[i].peer \in Peers
  <2> DEFINE R == [peer : Peers, connected : BOOLEAN]
  <2>1. providers \in Seq(R)
    OBVIOUS
  <2> HIDE DEF R
  <2>2. providers[i] \in R
    BY <2>1
  <2> QED BY <2>2 DEF R
<1>3. list \in Seq(Peers) /\ DOMAIN list = 1..Len(providers)
  BY <1>1, <1>2
<1> HIDE DEF list
<1>4. 1 \in Firsts(list)
  BY <1>1, <1>3 DEF Firsts
<1>5. Dedup(list) \in Seq(Peers) /\ Len(Dedup(list)) = Cardinality(Firsts(list))
  BY <1>3, DedupFacts
<1>6. Cardinality(Firsts(list)) \in Nat /\ Cardinality(Firsts(list)) >= 1
  BY <1>3, <1>4, CountFacts
<1>7. Tail(Dedup(list)) \in Seq(Peers)
  BY <1>5, <1>6
<1> QED BY <1>7 DEF list

\* DhtServiceResolved stores the other providers of the answer.
LEMMA ResolvedKeepsLists ==
  ASSUME NEW t, MachineOK(t), NEW s \in Services, NEW now, ListsOK(t, now),
         NEW providers \in Seq([peer : Peers, connected : BOOLEAN])
  PROVE  ListsOK(DhtServiceResolved(t, s, providers).state, now)
<1> DEFINE r == DhtServiceResolved(t, s, providers).state
           specs == t.pending_by_service[s]
           p == Head(providers).peer
           list == Tail(Dedup([i \in DOMAIN providers |-> providers[i].peer]))
           d == [t EXCEPT !.pending_by_service[s] = {},
                          !.service_provider_candidates[s] = list]
           q == [d EXCEPT !.pending_by_peer[p] = @ \cup specs]
<1>1. r = t \/ (providers # <<>> /\ (r = route_connected_peer(d, p, specs).state \/ r = q))
  <2>1. CASE specs = {} \/ providers = <<>>
    <3>1. r = t
      BY <2>1 DEF DhtServiceResolved, Out
    <3> HIDE DEF r, d, q
    <3> QED BY <3>1
  <2>2. CASE specs # {} /\ providers # <<>>
    <3>1. \/ DhtServiceResolved(t, s, providers) = route_connected_peer(d, p, specs)
          \/ DhtServiceResolved(t, s, providers) = Out(q, {DhtLookupPeer(p)})
      BY <2>2, Zenon DEF DhtServiceResolved
    <3> HIDE DEF d, q, p, specs
    <3> QED BY <2>2, <3>1 DEF Out
  <2> QED BY <2>1, <2>2
<1>2. CASE r = t
  BY <1>2
<1>3. CASE r # t
  <2>1. providers # <<>> /\ list \in Seq(Peers)
    BY <1>1, <1>3, FallbacksArePeers
  <2>2. Dequeued(t, d, s)
    BY DequeueFacts, Zenon
  <2> HIDE DEF list
  <2>3. /\ d.address_last_seen = t.address_last_seen
        /\ d.address_oracle = t.address_oracle
        /\ d.holepunch_sessions = t.holepunch_sessions
        /\ d.service_provider_candidates = [t.service_provider_candidates EXCEPT ![s] = list]
    BY DEF MachineOK
  <2> HIDE DEF d
  <2>4. ListsOK(d, now)
    BY <2>1, <2>3, SameLists, KeptLists DEF ListsOK
  <2>5. ListsOK(route_connected_peer(d, p, specs).state, now)
    BY <2>2, <2>4, RouteKeepsLists, KeptLists DEF Dequeued, KeepsProviders, ListsOK
  <2>6. /\ q.address_last_seen = d.address_last_seen
        /\ q.address_oracle = d.address_oracle
        /\ q.holepunch_sessions = d.holepunch_sessions
        /\ q.service_provider_candidates = d.service_provider_candidates
    BY <2>2 DEF Dequeued, MachineOK
  <2> HIDE DEF q
  <2>7. ListsOK(q, now)
    BY <2>4, <2>6, SameLists, KeptLists DEF ListsOK
  <2> QED BY <1>1, <1>3, <2>5, <2>7
<1> QED BY <1>2, <1>3

\* What is left of a list of providers is a list of providers.
LEMMA RemainingArePeers ==
  ASSUME NEW t, t.service_provider_candidates \in [Services -> Seq(Peers)],
         NEW s \in Services, NEW p, NEW n
  PROVE  RemainingCandidates(t, s, p, n) \in Seq(Peers)
<1> DEFINE list == t.service_provider_candidates[s]
           avail == Fallbacks(t, s, p)
           hits == {i \in 1..Len(list) : list[i] = avail[n]}
           k == IF hits # {} THEN Min(hits) ELSE 0
<1>1. list \in Seq(Peers) /\ Len(list) \in Nat
  OBVIOUS
<1>2. RemainingCandidates(t, s, p, n) \in {list, <<>>, SubSeq(list, k + 1, Len(list))}
  BY DEF RemainingCandidates, SelectInSeq
<1>3. k \in 0..Len(list)
  <2>1. CASE hits = {}
    BY <1>1, <2>1
  <2>2. CASE hits # {}
    <3>1. hits \in SUBSET Nat
      BY <1>1
    <3>2. Min(hits) \in hits
      BY <2>2, <3>1, LeastElement
    <3> QED BY <1>1, <2>2, <3>2
  <2> QED BY <2>1, <2>2
<1> HIDE DEF list, k
<1>4. SubSeq(list, k + 1, Len(list)) \in Seq(Peers)
  BY <1>1, <1>3
<1>5. <<>> \in Seq(Peers)
  OBVIOUS
<1> QED BY <1>1, <1>2, <1>4, <1>5

\* TunnelDialFailed uses up fallback providers, or marks the session.
LEMMA DialFailedKeepsLists ==
  ASSUME NEW t, MachineOK(t), NEW p \in Peers, NEW aborted, NEW asg, NEW time, NEW now,
         ListsOK(t, now)
  PROVE  ListsOK(TunnelDialFailed(t, p, aborted, asg, time).state, now)
<1> DEFINE r == TunnelDialFailed(t, p, aborted, asg, time).state
           m == [t EXCEPT !.holepunch_sessions[p].dial_retry_dispatched = TRUE]
           g == reroute_specs_after_dial_failure(t, p, asg).state
           list == [s \in Services |->
                      RemainingCandidates(t, s, p, Cardinality(PendingFor(t, p, s)))]
<1>1. r \in {t, m, g}
  BY DEF TunnelDialFailed, Out
<1>2. ListsOK(m, now)
  <2>1. /\ m.address_last_seen = t.address_last_seen
        /\ m.address_oracle = t.address_oracle
        /\ m.service_provider_candidates = t.service_provider_candidates
        /\ m.holepunch_sessions =
             [t.holepunch_sessions EXCEPT ![p].dial_retry_dispatched = TRUE]
    BY DEF MachineOK
  <2> HIDE DEF m
  <2>2. \A q \in Peers : SessionKept(t.holepunch_sessions[q], m.holepunch_sessions[q])
    BY <2>1 DEF SessionKept, MachineOK, SessionsOK, IsSession
  <2> QED BY <2>1, <2>2, KeptLists DEF ListsOK, KeepsAddresses
<1>3. ListsOK(g, now)
  <2>1. list \in [Services -> Seq(Peers)]
    BY RemainingArePeers DEF ListsOK
  <2>2. /\ g.address_last_seen = t.address_last_seen
        /\ g.address_oracle = t.address_oracle
        /\ g.holepunch_sessions = t.holepunch_sessions
        /\ g.service_provider_candidates = list
    BY DEF reroute_specs_after_dial_failure, Out, MachineOK
  <2> HIDE DEF g, list
  <2> QED BY <2>1, <2>2, SameLists, KeptLists
<1> QED BY <1>1, <1>2, <1>3

\* TunnelPeerConnected may end the session of p.
LEMMA ConnectedKeepsLists ==
  ASSUME NEW t, MachineOK(t), NEW p \in Peers, NEW relayed, NEW now, ListsOK(t, now)
  PROVE  ListsOK(TunnelPeerConnected(t, p, relayed).state, now)
<1> DEFINE r == TunnelPeerConnected(t, p, relayed).state
           c == clear_retry_state(t, p)
           idle == [c EXCEPT !.relayed_peers = @ \ {p},
                             !.pending_by_peer[p] = {},
                             !.awaiting_holepunch[p] = {}]
           held == [t EXCEPT !.relayed_peers = @ \cup {p},
                             !.pending_by_peer[p] = {},
                             !.awaiting_holepunch[p] = @ \cup t.pending_by_peer[p]]
<1>1. r \in {idle, held}
  BY DEF TunnelPeerConnected, Out
<1>2. MachineOK(c) /\ KeepsAddresses(t, c) /\ KeepsProviders(t, c)
  BY ClearFacts, ClearKeepsAddresses, Zenon
<1> HIDE DEF c
<1>3. ListsOK(c, now)
  BY <1>2, KeptLists DEF KeepsProviders, ListsOK
<1>4. /\ idle.address_last_seen = c.address_last_seen
      /\ idle.address_oracle = c.address_oracle
      /\ idle.holepunch_sessions = c.holepunch_sessions
      /\ idle.service_provider_candidates = c.service_provider_candidates
  BY <1>2 DEF MachineOK
<1>5. /\ held.address_last_seen = t.address_last_seen
      /\ held.address_oracle = t.address_oracle
      /\ held.holepunch_sessions = t.holepunch_sessions
      /\ held.service_provider_candidates = t.service_provider_candidates
  BY DEF MachineOK
<1> HIDE DEF idle, held
<1>6. ListsOK(idle, now) /\ ListsOK(held, now)
  BY <1>3, <1>4, <1>5, SameLists, KeptLists DEF ListsOK
<1> QED BY <1>1, <1>6

\* HolePunchAttemptFailed ends the session of p or lets it wait.
LEMMA FailedKeepsLists ==
  ASSUME NEW t, MachineOK(t), NEW p \in Peers, NEW id, NEW now, ListsOK(t, now)
  PROVE  ListsOK(HolePunchAttemptFailed(t, p, id).state, now)
<1> DEFINE r == HolePunchAttemptFailed(t, p, id).state
           c == clear_retry_state(t, p)
           opened == [c EXCEPT !.awaiting_holepunch[p] = {}]
           again == [t EXCEPT !.holepunch_retry_attempts[p] = @ + 1,
                              !.pending_retry_redial = @ \cup {p},
                              !.holepunch_sessions[p].phase = "WaitingDisconnect"]
<1>1. r = t \/ r = opened \/ (RetryApplies(t, p, id) /\ r = again)
  <2>1. CASE ~RetryApplies(t, p, id)
    <3>1. r = t
      BY <2>1 DEF HolePunchAttemptFailed, retry_holepunch_attempt, Out
    <3> HIDE DEF r, opened, again
    <3> QED BY <3>1
  <2>2. CASE RetryApplies(t, p, id) /\ RetriesExhausted(t, p)
    <3>1. r = opened
      BY <2>2 DEF HolePunchAttemptFailed, retry_holepunch_attempt, Out
    <3> HIDE DEF r, opened, again
    <3> QED BY <3>1
  <2>3. CASE RetryApplies(t, p, id) /\ ~RetriesExhausted(t, p)
    <3>1. r = again
      BY <2>3 DEF HolePunchAttemptFailed, retry_holepunch_attempt, Out
    <3> HIDE DEF r, opened, again
    <3> QED BY <2>3, <3>1
  <2> QED BY <2>1, <2>2, <2>3
<1>2. MachineOK(c) /\ KeepsAddresses(t, c) /\ KeepsProviders(t, c)
  BY ClearFacts, ClearKeepsAddresses, Zenon
<1> HIDE DEF c
<1>3. ListsOK(c, now)
  BY <1>2, KeptLists DEF KeepsProviders, ListsOK
<1>4. /\ opened.address_last_seen = c.address_last_seen
      /\ opened.address_oracle = c.address_oracle
      /\ opened.holepunch_sessions = c.holepunch_sessions
      /\ opened.service_provider_candidates = c.service_provider_candidates
  BY <1>2 DEF MachineOK
<1>5. /\ again.address_last_seen = t.address_last_seen
      /\ again.address_oracle = t.address_oracle
      /\ again.service_provider_candidates = t.service_provider_candidates
      /\ again.holepunch_sessions =
           [t.holepunch_sessions EXCEPT ![p] =
              [t.holepunch_sessions[p] EXCEPT !.phase = "WaitingDisconnect"]]
  BY DEF MachineOK
<1> HIDE DEF opened, again
<1>6. ASSUME RetryApplies(t, p, id)
      PROVE  \A q \in Peers : SessionKept(t.holepunch_sessions[q], again.holepunch_sessions[q])
  <2>1. t.holepunch_sessions[p].phase # "None"
    BY <1>6 DEF RetryApplies
  <2> QED BY <1>5, <2>1 DEF SessionKept, MachineOK, SessionsOK, IsSession
<1>7. ListsOK(opened, now)
  BY <1>3, <1>4, SameLists, KeptLists DEF ListsOK
<1>8. RetryApplies(t, p, id) => ListsOK(again, now)
  BY <1>5, <1>6, KeptLists DEF ListsOK, KeepsAddresses
<1> QED BY <1>1, <1>7, <1>8

\* ConnectionLostAll ends the session of p or lets it wait for the redial.
LEMMA LostKeepsLists ==
  ASSUME NEW t, MachineOK(t), NEW p \in Peers, NEW time, NEW now, ListsOK(t, now)
  PROVE  ListsOK(ConnectionLostAll(t, p, time).state, now)
<1> DEFINE r == ConnectionLostAll(t, p, time).state
           lost == [t EXCEPT !.relayed_peers = @ \ {p}]
           c == clear_retry_state(lost, p)
           requeued == [c EXCEPT !.awaiting_holepunch[p] = {},
                                 !.pending_by_peer[p] = @ \cup t.awaiting_holepunch[p]]
           phase == IF HasSession(t, p) THEN "WaitingRedial" ELSE lost.holepunch_sessions[p].phase
           again == [lost EXCEPT !.pending_retry_redial = @ \ {p},
                                 !.holepunch_sessions[p].phase = phase]
<1>1. r = requeued \/ r = again
  <2>1. CASE p \in t.pending_retry_redial
    <3>1. ConnectionLostAll(t, p, time) =
            Out([lost EXCEPT !.pending_retry_redial = @ \ {p},
                   !.holepunch_sessions[p].phase =
                      IF HasSession(t, p) THEN "WaitingRedial" ELSE @],
                {RedialCommand(t, p, time)})
      BY <2>1, Zenon DEF ConnectionLostAll
    <3> QED BY <3>1 DEF Out
  <2>2. CASE p \notin t.pending_retry_redial
    BY <2>2 DEF ConnectionLostAll, Out
  <2> QED BY <2>1, <2>2
<1>2. /\ MachineOK(lost)
      /\ lost.address_last_seen = t.address_last_seen
      /\ lost.address_oracle = t.address_oracle
      /\ lost.holepunch_sessions = t.holepunch_sessions
      /\ lost.service_provider_candidates = t.service_provider_candidates
  BY DEF MachineOK
<1> HIDE DEF lost
<1>3. ListsOK(lost, now)
  BY <1>2, SameLists, KeptLists DEF ListsOK
<1>4. MachineOK(c) /\ KeepsAddresses(lost, c) /\ KeepsProviders(lost, c)
  BY <1>2, ClearFacts, ClearKeepsAddresses, Zenon
<1> HIDE DEF c
<1>5. ListsOK(c, now)
  BY <1>3, <1>4, KeptLists DEF KeepsProviders, ListsOK
<1>6. /\ requeued.address_last_seen = c.address_last_seen
      /\ requeued.address_oracle = c.address_oracle
      /\ requeued.holepunch_sessions = c.holepunch_sessions
      /\ requeued.service_provider_candidates = c.service_provider_candidates
  BY <1>4 DEF MachineOK
<1>7. /\ again.address_last_seen = lost.address_last_seen
      /\ again.address_oracle = lost.address_oracle
      /\ again.service_provider_candidates = lost.service_provider_candidates
      /\ again.holepunch_sessions =
           [lost.holepunch_sessions EXCEPT ![p] =
              [lost.holepunch_sessions[p] EXCEPT !.phase = phase]]
  BY <1>2 DEF MachineOK
<1>8. phase # "None" => lost.holepunch_sessions[p].phase # "None"
  BY <1>2 DEF HasSession
<1> HIDE DEF requeued, again, phase
<1>9. \A q \in Peers : SessionKept(lost.holepunch_sessions[q], again.holepunch_sessions[q])
  BY <1>2, <1>7, <1>8 DEF SessionKept, MachineOK, SessionsOK, IsSession
<1>10. ListsOK(requeued, now)
  BY <1>5, <1>6, SameLists, KeptLists DEF ListsOK
<1>11. ListsOK(again, now)
  BY <1>3, <1>7, <1>9, KeptLists DEF ListsOK, KeepsAddresses
<1> QED BY <1>1, <1>10, <1>11

\* PeerIdentified takes the fresh candidates as they are now: the running attempt
\* gets them, unless there are none.
LEMMA IdentifiedKeepsLists ==
  ASSUME NEW t, MachineOK(t), NEW p \in Peers, NEW listen_addrs, NEW now \in Nat,
         ListsOK(t, now)
  PROVE  ListsOK(PeerIdentified(t, p, listen_addrs, now).state, now)
<1> DEFINE o == PeerIdentified(t, p, listen_addrs, now)
           r == o.state
           seen == record_address_candidates(t.address_last_seen[p], listen_addrs, now)
           relay == fresh_candidates(seen, now, RelayAddrs, MAX_RELAY_CANDIDATES)
           direct == fresh_candidates(seen, now, DirectAddrs, MAX_DIRECT_CANDIDATES)
           oracle == [relay |-> relay, direct |-> direct]
           session == t.holepunch_sessions[p]
           newRelay == relay # <<>> /\ relay # session.relay_redial_addrs
           newDirect == direct # <<>> /\ direct # session.direct_snapshot
           refreshed == [session EXCEPT
             !.relay_redial_addrs = IF newRelay THEN relay ELSE @,
             !.direct_snapshot = IF newDirect THEN direct ELSE @,
             !.dial_retry_dispatched = IF newRelay \/ newDirect THEN FALSE ELSE @]
           s == IF HasSession(t, p) THEN refreshed ELSE session
<1>1. o = Out([t EXCEPT !.address_last_seen[p] = seen,
                        !.address_oracle[p] = oracle,
                        !.holepunch_sessions[p] = s], {})
  BY Zenon DEF PeerIdentified, update_address_oracle
<1>2. seen \in [Addrs -> Nat]
  BY DEF record_address_candidates, ListsOK, PeerAddressesOK, Never
<1>3. IsSession(session)
  BY DEF MachineOK, SessionsOK
<1>4. /\ session.attempt_id \in Nat
      /\ session.relay_redial_addrs \in Seq(RelayAddrs)
      /\ Len(session.relay_redial_addrs) <= MAX_RELAY_CANDIDATES
      /\ session.direct_snapshot \in Seq(DirectAddrs)
      /\ Len(session.direct_snapshot) <= MAX_DIRECT_CANDIDATES
  BY DEF ListsOK, PeerAddressesOK, ClassOK
<1>5. HasSession(t, p) <=> session.phase # "None"
  BY DEF HasSession
<1> HIDE DEF seen, session, o
<1>6. /\ relay \in Seq(RelayAddrs) /\ Len(relay) <= MAX_RELAY_CANDIDATES
      /\ direct \in Seq(DirectAddrs) /\ Len(direct) <= MAX_DIRECT_CANDIDATES
  BY <1>2, ClassFacts, CandidateFacts
<1> HIDE DEF relay, direct
<1>7. /\ s.attempt_id = session.attempt_id
      /\ s.phase = session.phase
      /\ s.relay_redial_addrs = IF HasSession(t, p) /\ newRelay THEN relay
                                ELSE session.relay_redial_addrs
      /\ s.direct_snapshot = IF HasSession(t, p) /\ newDirect THEN direct
                             ELSE session.direct_snapshot
  BY <1>3 DEF IsSession
<1> HIDE DEF s, refreshed
<1>8. /\ ClassOK(seen, now, relay, s.relay_redial_addrs, s.phase # "None",
                 RelayAddrs, MAX_RELAY_CANDIDATES)
      /\ ClassOK(seen, now, direct, s.direct_snapshot, s.phase # "None",
                 DirectAddrs, MAX_DIRECT_CANDIDATES)
  <2>1. /\ relay = fresh_candidates(seen, now, RelayAddrs, MAX_RELAY_CANDIDATES)
        /\ direct = fresh_candidates(seen, now, DirectAddrs, MAX_DIRECT_CANDIDATES)
    BY DEF relay, direct
  <2> QED BY <1>4, <1>5, <1>6, <1>7, <2>1 DEF ClassOK
<1>9. PeerAddressesOK(seen, oracle, s, now)
  <2>1. /\ oracle.relay = relay /\ oracle.direct = direct
        /\ oracle \in [relay : Seq(RelayAddrs), direct : Seq(DirectAddrs)]
    BY <1>6
  <2>2. s.attempt_id \in Nat /\ now <= now
    BY <1>4, <1>7
  <2> HIDE DEF oracle
  <2>3. /\ ClassOK(seen, now, oracle.relay, s.relay_redial_addrs, s.phase # "None",
                   RelayAddrs, MAX_RELAY_CANDIDATES)
        /\ ClassOK(seen, now, oracle.direct, s.direct_snapshot, s.phase # "None",
                   DirectAddrs, MAX_DIRECT_CANDIDATES)
    BY <1>8, <2>1
  <2> QED BY <1>2, <2>1, <2>2, <2>3, Zenon DEF PeerAddressesOK
<1> HIDE DEF oracle
<1>10. /\ r.address_last_seen = [t.address_last_seen EXCEPT ![p] = seen]
       /\ r.address_oracle = [t.address_oracle EXCEPT ![p] = oracle]
       /\ r.holepunch_sessions = [t.holepunch_sessions EXCEPT ![p] = s]
       /\ r.service_provider_candidates = t.service_provider_candidates
  BY <1>1 DEF Out, MachineOK
<1> HIDE DEF r
<1>11. ASSUME NEW q \in Peers
       PROVE  PeerAddressesOK(r.address_last_seen[q], r.address_oracle[q],
                              r.holepunch_sessions[q], now)
  <2>1. CASE q = p
    BY <1>9, <1>10, <2>1 DEF ListsOK, MachineOK, SessionsOK
  <2>2. CASE q # p
    BY <1>10, <2>2 DEF ListsOK, MachineOK, SessionsOK
  <2> QED BY <2>1, <2>2
<1>12. ListsOK(r, now)
  BY <1>10, <1>11 DEF ListsOK
<1> QED BY <1>12 DEF r, o

\* HolePunchAttemptStarted takes the oracle as it is.
LEMMA StartedKeepsLists ==
  ASSUME NEW t, MachineOK(t), NEW p \in Peers, NEW id \in Nat, NEW now \in Nat,
         ListsOK(t, now)
  PROVE  ListsOK(HolePunchAttemptStarted(t, p, id).state, now)
<1> DEFINE r == HolePunchAttemptStarted(t, p, id).state
           seen == t.address_last_seen[p]
           oracle == t.address_oracle[p]
           s == [attempt_id |-> id, phase |-> "Punching",
                 relay_redial_addrs |-> oracle.relay,
                 direct_snapshot |-> oracle.direct,
                 dial_retry_dispatched |-> FALSE]
<1>1. r = [t EXCEPT !.holepunch_sessions[p] = s]
  BY DEF HolePunchAttemptStarted, begin_holepunch_attempt, Out
<1>2. /\ seen \in [Addrs -> Nat]
      /\ oracle \in [relay : Seq(RelayAddrs), direct : Seq(DirectAddrs)]
      /\ \E at \in Nat :
           /\ at <= now
           /\ oracle.relay = fresh_candidates(seen, at, RelayAddrs, MAX_RELAY_CANDIDATES)
           /\ oracle.direct = fresh_candidates(seen, at, DirectAddrs, MAX_DIRECT_CANDIDATES)
  BY DEF ListsOK, PeerAddressesOK, ClassOK
<1>3. /\ s.attempt_id = id
      /\ s.relay_redial_addrs = oracle.relay /\ s.direct_snapshot = oracle.direct
  OBVIOUS
<1> HIDE DEF seen, oracle, s, r
<1>4. PICK at \in Nat :
        /\ at <= now
        /\ oracle.relay = fresh_candidates(seen, at, RelayAddrs, MAX_RELAY_CANDIDATES)
        /\ oracle.direct = fresh_candidates(seen, at, DirectAddrs, MAX_DIRECT_CANDIDATES)
  BY <1>2
<1>5. /\ oracle.relay \in Seq(RelayAddrs) /\ Len(oracle.relay) <= MAX_RELAY_CANDIDATES
      /\ oracle.direct \in Seq(DirectAddrs) /\ Len(oracle.direct) <= MAX_DIRECT_CANDIDATES
  BY <1>2, <1>4, ClassFacts, CandidateFacts
<1>6. /\ ClassOK(seen, at, oracle.relay, s.relay_redial_addrs, s.phase # "None",
                 RelayAddrs, MAX_RELAY_CANDIDATES)
      /\ ClassOK(seen, at, oracle.direct, s.direct_snapshot, s.phase # "None",
                 DirectAddrs, MAX_DIRECT_CANDIDATES)
  BY <1>3, <1>4, <1>5 DEF ClassOK
<1>7. PeerAddressesOK(seen, oracle, s, now)
  BY <1>2, <1>3, <1>4, <1>6 DEF PeerAddressesOK
<1>8. /\ r.address_last_seen = t.address_last_seen
      /\ r.address_oracle = t.address_oracle
      /\ r.holepunch_sessions = [t.holepunch_sessions EXCEPT ![p] = s]
      /\ r.service_provider_candidates = t.service_provider_candidates
  BY <1>1 DEF MachineOK
<1>9. ASSUME NEW q \in Peers
      PROVE  PeerAddressesOK(r.address_last_seen[q], r.address_oracle[q],
                             r.holepunch_sessions[q], now)
  <2>1. CASE q = p
    BY <1>7, <1>8, <2>1 DEF MachineOK, SessionsOK, seen, oracle
  <2>2. CASE q # p
    BY <1>8, <2>2 DEF ListsOK, MachineOK, SessionsOK
  <2> QED BY <2>1, <2>2
<1>10. ListsOK(r, now)
  BY <1>8, <1>9 DEF ListsOK
<1> QED BY <1>10 DEF r

\* The lists stay well formed as time passes.
LEMMA ListsAge ==
  ASSUME NEW t, NEW now \in Nat, ListsOK(t, now), NEW later \in Nat, now <= later
  PROVE  ListsOK(t, later)
<1>1. ASSUME NEW seen, NEW oracle, NEW s, PeerAddressesOK(seen, oracle, s, now)
      PROVE  PeerAddressesOK(seen, oracle, s, later)
  <2>1. PICK at \in Nat :
          /\ at <= now
          /\ ClassOK(seen, at, oracle.relay, s.relay_redial_addrs,
                     s.phase # "None", RelayAddrs, MAX_RELAY_CANDIDATES)
          /\ ClassOK(seen, at, oracle.direct, s.direct_snapshot,
                     s.phase # "None", DirectAddrs, MAX_DIRECT_CANDIDATES)
    BY <1>1 DEF PeerAddressesOK
  <2>2. at <= later
    BY <2>1
  <2> QED BY <1>1, <2>1, <2>2 DEF PeerAddressesOK
<1> QED BY <1>1 DEF ListsOK

\* At the start nothing is known of any peer or provider.
LEMMA InitialLists ==
  ASSUME NEW now \in Nat
  PROVE  ListsOK(InitialTunnels, now)
<1> DEFINE t == InitialTunnels
<1>1. /\ t.service_provider_candidates = [s \in Services |-> <<>>]
      /\ t.address_last_seen = [p \in Peers |-> NothingSeen]
      /\ t.address_oracle = [p \in Peers |-> NoCandidates]
      /\ t.holepunch_sessions = [p \in Peers |-> NoSession]
  BY DEF InitialTunnels
<1> HIDE DEF t
<1>2. NothingSeen \in [Addrs -> Nat] /\ \A a \in Addrs : ~IsFresh(NothingSeen, a, now)
  BY DEF NothingSeen, IsFresh, Never
<1>3. ASSUME NEW class \in SUBSET Addrs, NEW limit \in Nat
      PROVE  fresh_candidates(NothingSeen, now, class, limit) = <<>>
  <2> DEFINE s == fresh_candidates(NothingSeen, now, class, limit)
  <2>1. Fresh(NothingSeen, now, class) = {}
    BY <1>2 DEF Fresh
  <2>2. s \in Seq(class) /\ \A a : a \notin ToSet(s)
    BY <1>2, <2>1, CandidateFacts
  <2> HIDE DEF s
  <2>3. DOMAIN s = {}
    BY <2>2 DEF ToSet
  <2>4. s = <<>>
    BY <2>2, <2>3
  <2> QED BY <2>4 DEF s
<1>4. /\ ClassOK(NothingSeen, now, NoCandidates.relay, NoSession.relay_redial_addrs,
                 NoSession.phase # "None", RelayAddrs, MAX_RELAY_CANDIDATES)
      /\ ClassOK(NothingSeen, now, NoCandidates.direct, NoSession.direct_snapshot,
                 NoSession.phase # "None", DirectAddrs, MAX_DIRECT_CANDIDATES)
  <2>1. /\ NoCandidates.relay = <<>> /\ NoCandidates.direct = <<>>
        /\ NoSession.relay_redial_addrs = <<>> /\ NoSession.direct_snapshot = <<>>
        /\ NoSession.phase = "None"
    BY DEF NoCandidates, NoSession
  <2> QED BY <1>3, <2>1, ClassFacts DEF ClassOK
<1>5. PeerAddressesOK(NothingSeen, NoCandidates, NoSession, now)
  <2>1. /\ NoSession.attempt_id \in Nat /\ now <= now
        /\ NoCandidates \in [relay : Seq(RelayAddrs), direct : Seq(DirectAddrs)]
    BY DEF NoSession, NoCandidates
  <2> QED BY <1>2, <1>4, <2>1, Zenon DEF PeerAddressesOK
<1>6. [s \in Services |-> <<>>] \in [Services -> Seq(Peers)]
  OBVIOUS
<1>7. ListsOK(t, now)
  BY <1>1, <1>5, <1>6 DEF ListsOK
<1> QED BY <1>7 DEF t

-----------------------------------------------------------------------------
(* Where a request is *)

Places == {At("searching", NoPeer)} \cup [stage : {"pending", "held", "open"}, peer : Peers]

\* The place of x, with sp the peers each request was opened on.
PlaceIn(t, sp, x) ==
  IF sp[x] # <<>> THEN At("open", Last(sp[x])) ELSE WaitingPlace(t, x)

\* x is at the place l and nowhere else.
Located(t, sp, x, l) ==
  /\ sp[x] = IF l.stage = "open" THEN <<l.peer>> ELSE <<>>
  /\ \A p \in Peers : x \in t.pending_by_peer[p] <=> l.stage = "pending" /\ l.peer = p
  /\ \A p \in Peers : x \in t.awaiting_holepunch[p] <=> l.stage = "held" /\ l.peer = p
  /\ \A s \in Services :
       x \in t.pending_by_service[s] <=> l.stage = "searching" /\ s = ServiceOf[x]

\* Every request is at one place.
Conserved(t, sp) ==
  \A x \in Specs : PlaceIn(t, sp, x) \in Places /\ Located(t, sp, x, PlaceIn(t, sp, x))

\* PlaceIn finds the place of a request that is at one place only.
LEMMA PlaceIsUnique ==
  ASSUME NEW t, NEW sp, NEW x \in Specs, NEW l \in Places, Located(t, sp, x, l)
  PROVE  PlaceIn(t, sp, x) = l
<1> DEFINE Waits(f) == {p \in Peers : x \in f[p]}
<1>1. CASE l.stage = "open"
  <2>1. sp[x] = <<l.peer>> /\ l = At("open", l.peer)
    BY <1>1 DEF Located, Places, At
  <2>2. sp[x] # <<>> /\ Last(sp[x]) = l.peer
    BY <2>1 DEF Last
  <2> QED BY <2>1, <2>2 DEF PlaceIn, WaitingPlace, At
<1>2. CASE l.stage = "held"
  <2>1. l = At("held", l.peer) /\ l.peer \in Peers /\ sp[x] = <<>>
    BY <1>2 DEF Located, Places, At
  <2>2. Waits(t.awaiting_holepunch) = {l.peer}
    BY <1>2, <2>1 DEF Located
  <2>3. (CHOOSE p \in Waits(t.awaiting_holepunch) : TRUE) = l.peer
    BY <2>2
  <2> QED BY <2>1, <2>2, <2>3, Zenon DEF PlaceIn, WaitingPlace, At
<1>3. CASE l.stage = "pending"
  <2>1. l = At("pending", l.peer) /\ l.peer \in Peers /\ sp[x] = <<>>
    BY <1>3 DEF Located, Places, At
  <2>2. Waits(t.pending_by_peer) = {l.peer}
    BY <1>3, <2>1 DEF Located
  <2>3. Waits(t.awaiting_holepunch) = {}
    BY <1>3 DEF Located
  <2>4. (CHOOSE p \in Waits(t.pending_by_peer) : TRUE) = l.peer
    BY <2>2
  <2>5. Waits(t.pending_by_peer) # {}
    BY <2>2
  <2> HIDE DEF Waits
  <2> QED BY <2>1, <2>3, <2>4, <2>5, Zenon DEF PlaceIn, WaitingPlace, At, Waits
<1>4. CASE l.stage = "searching"
  <2>1. l = At("searching", NoPeer) /\ sp[x] = <<>>
    BY <1>4 DEF Located, Places, At
  <2>2. Waits(t.awaiting_holepunch) = {} /\ Waits(t.pending_by_peer) = {}
    BY <1>4 DEF Located
  <2> QED BY <2>1, <2>2, Zenon DEF PlaceIn, WaitingPlace, At
<1>5. l.stage \in {"open", "held", "pending", "searching"}
  BY DEF Places, At
<1> QED BY <1>1, <1>2, <1>3, <1>4, <1>5

\* A new place for every request is all there is to show about a step.
LEMMA MovedTo ==
  ASSUME NEW t, NEW sp, NEW f \in [Specs -> Places],
         \A x \in Specs : Located(t, sp, x, f[x])
  PROVE  /\ Conserved(t, sp)
         /\ \A x \in Specs : PlaceIn(t, sp, x) = f[x]
<1>1. ASSUME NEW x \in Specs
      PROVE  PlaceIn(t, sp, x) = f[x] /\ f[x] \in Places
  BY PlaceIsUnique
<1> QED BY <1>1, Zenon DEF Conserved

\* What was opened, after the commands of one more transition.
Opened(sp, cmds) ==
  [x \in Specs |-> IF x \in SpawnedBy(cmds) THEN Append(sp[x], SpawnPeer(cmds, x)) ELSE sp[x]]

\* The commands of a transition open what OpenedOn says.
LEMMA OpenedFacts ==
  ASSUME NEW o, NEW sp, NEW p \in Peers, NEW specs, OpenedOn(o, p, specs)
  PROVE  Opened(sp, o.commands) =
           [x \in Specs |-> IF x \in specs THEN Append(sp[x], p) ELSE sp[x]]
<1>1. ASSUME NEW x \in Specs
      PROVE  x \in SpawnedBy(o.commands) <=> x \in specs
  BY DEF SpawnedBy, OpenedOn
<1>2. ASSUME NEW x \in Specs, x \in specs
      PROVE  SpawnPeer(o.commands, x) = p
  BY <1>2 DEF SpawnPeer, OpenedOn
<1> QED BY <1>1, <1>2, Zenon DEF Opened

\* Without a tunnel to open nothing more is opened.
LEMMA NoneOpenedFacts ==
  ASSUME NEW o, NEW sp, NoneOpened(o)
  PROVE  Opened(sp, o.commands) = [x \in Specs |-> sp[x]]
<1>1. ASSUME NEW x \in Specs
      PROVE  x \notin SpawnedBy(o.commands)
  BY DEF SpawnedBy, NoneOpened
<1> QED BY <1>1, Zenon DEF Opened

\* Nothing moves.
LEMMA StayMoves ==
  ASSUME NEW t, NEW sp, Conserved(t, sp), NEW o, Stays(t, o)
  PROVE  /\ Conserved(o.state, Opened(sp, o.commands))
         /\ \A x \in Specs : PlaceIn(o.state, Opened(sp, o.commands), x) = PlaceIn(t, sp, x)
<1> DEFINE f == [x \in Specs |-> PlaceIn(t, sp, x)]
<1>1. f \in [Specs -> Places] /\ \A x \in Specs : Located(t, sp, x, f[x])
  BY DEF Conserved
<1>2. Opened(sp, o.commands) = [x \in Specs |-> sp[x]]
  BY NoneOpenedFacts DEF Stays
<1>3. \A x \in Specs : Located(o.state, Opened(sp, o.commands), x, f[x])
  <2> HIDE DEF f
  <2> QED BY <1>1, <1>2 DEF Located, Stays, SameRequests
<1> HIDE DEF f
<1>4. /\ Conserved(o.state, Opened(sp, o.commands))
      /\ \A x \in Specs : PlaceIn(o.state, Opened(sp, o.commands), x) = f[x]
  BY <1>1, <1>3, MovedTo
<1> QED BY <1>4 DEF f

\* The pending requests of p move together, to held.
LEMMA HoldMoves ==
  ASSUME NEW t, MachineOK(t), NEW sp, Conserved(t, sp), NEW o, NEW p \in Peers,
         Holds(t, o, p)
  PROVE  /\ Conserved(o.state, Opened(sp, o.commands))
         /\ \A x \in Specs :
              PlaceIn(o.state, Opened(sp, o.commands), x) =
                IF PlaceIn(t, sp, x) = At("pending", p) THEN At("held", p)
                ELSE PlaceIn(t, sp, x)
<1> DEFINE old == [x \in Specs |-> PlaceIn(t, sp, x)]
           f == [x \in Specs |-> IF old[x] = At("pending", p) THEN At("held", p)
                                 ELSE old[x]]
<1>1. old \in [Specs -> Places] /\ \A x \in Specs : Located(t, sp, x, old[x])
  BY DEF Conserved
<1>2. Opened(sp, o.commands) = [x \in Specs |-> sp[x]]
  BY NoneOpenedFacts DEF Holds
<1> HIDE DEF old
<1>3. f \in [Specs -> Places]
  BY <1>1 DEF Places, At
<1>4. ASSUME NEW x \in Specs
      PROVE  Located(o.state, Opened(sp, o.commands), x, f[x])
  <2>1. Located(t, sp, x, old[x]) /\ old[x] \in Places
    BY <1>1
  <2>2. CASE old[x] = At("pending", p)
    BY <1>2, <2>1, <2>2 DEF Located, Holds, At, MachineOK
  <2>3. CASE old[x] # At("pending", p)
    BY <1>2, <2>1, <2>3 DEF Located, Holds, Places, At, MachineOK
  <2> QED BY <2>2, <2>3
<1> HIDE DEF f
<1>5. /\ Conserved(o.state, Opened(sp, o.commands))
      /\ \A x \in Specs : PlaceIn(o.state, Opened(sp, o.commands), x) = f[x]
  BY <1>3, <1>4, MovedTo
<1> QED BY <1>5 DEF f, old

\* The requests held for p move together, back to pending.
LEMMA LoseMoves ==
  ASSUME NEW t, MachineOK(t), NEW sp, Conserved(t, sp), NEW o, NEW p \in Peers,
         Loses(t, o, p)
  PROVE  /\ Conserved(o.state, Opened(sp, o.commands))
         /\ \A x \in Specs :
              PlaceIn(o.state, Opened(sp, o.commands), x) =
                IF PlaceIn(t, sp, x) = At("held", p) THEN At("pending", p)
                ELSE PlaceIn(t, sp, x)
<1> DEFINE old == [x \in Specs |-> PlaceIn(t, sp, x)]
           f == [x \in Specs |-> IF old[x] = At("held", p) THEN At("pending", p)
                                 ELSE old[x]]
<1>1. old \in [Specs -> Places] /\ \A x \in Specs : Located(t, sp, x, old[x])
  BY DEF Conserved
<1>2. Opened(sp, o.commands) = [x \in Specs |-> sp[x]]
  BY NoneOpenedFacts DEF Loses
<1> HIDE DEF old
<1>3. f \in [Specs -> Places]
  BY <1>1 DEF Places, At
<1>4. ASSUME NEW x \in Specs
      PROVE  Located(o.state, Opened(sp, o.commands), x, f[x])
  <2>1. Located(t, sp, x, old[x]) /\ old[x] \in Places
    BY <1>1
  <2>2. CASE old[x] = At("held", p)
    BY <1>2, <2>1, <2>2 DEF Located, Loses, At, MachineOK
  <2>3. CASE old[x] # At("held", p)
    BY <1>2, <2>1, <2>3 DEF Located, Loses, Places, At, MachineOK
  <2> QED BY <2>2, <2>3
<1> HIDE DEF f
<1>5. /\ Conserved(o.state, Opened(sp, o.commands))
      /\ \A x \in Specs : PlaceIn(o.state, Opened(sp, o.commands), x) = f[x]
  BY <1>3, <1>4, MovedTo
<1> QED BY <1>5 DEF f, old

\* All pending requests of p, all held ones, or both, are opened on p.
LEMMA OpenMoves ==
  ASSUME NEW t, MachineOK(t), NEW sp, Conserved(t, sp), NEW o, NEW p \in Peers,
         NEW pending, NEW held, Opens(t, o, p, pending, held),
         NEW stages \in SUBSET {"pending", "held"},
         pending = IF "pending" \in stages THEN t.pending_by_peer[p] ELSE {},
         held = IF "held" \in stages THEN t.awaiting_holepunch[p] ELSE {}
  PROVE  /\ Conserved(o.state, Opened(sp, o.commands))
         /\ \A x \in Specs :
              PlaceIn(o.state, Opened(sp, o.commands), x) =
                IF PlaceIn(t, sp, x) \in {At(stage, p) : stage \in stages}
                THEN At("open", p) ELSE PlaceIn(t, sp, x)
<1> DEFINE old == [x \in Specs |-> PlaceIn(t, sp, x)]
           f == [x \in Specs |-> IF old[x] \in {At(stage, p) : stage \in stages}
                                 THEN At("open", p) ELSE old[x]]
<1>1. old \in [Specs -> Places] /\ \A x \in Specs : Located(t, sp, x, old[x])
  BY DEF Conserved
<1>2. Opened(sp, o.commands) =
        [x \in Specs |-> IF x \in pending \cup held THEN Append(sp[x], p) ELSE sp[x]]
  BY OpenedFacts DEF Opens
<1> HIDE DEF old
<1>3. f \in [Specs -> Places]
  BY <1>1 DEF Places, At
<1>4. ASSUME NEW x \in Specs
      PROVE  Located(o.state, Opened(sp, o.commands), x, f[x])
  <2>1. Located(t, sp, x, old[x]) /\ old[x] \in Places
    BY <1>1
  <2>2. x \in pending \cup held <=> old[x] \in {At(stage, p) : stage \in stages}
    BY <2>1 DEF Located, Places, At
  <2>3. CASE x \in pending \cup held
    <3>1. f[x] = At("open", p) /\ sp[x] = <<>>
      BY <2>1, <2>2, <2>3 DEF Located, At
    <3>2. Opened(sp, o.commands)[x] = <<p>>
      <4>1. Opened(sp, o.commands)[x] = Append(<<>>, p)
        BY <1>2, <2>3, <3>1
      <4>2. Append(<<>>, p) = <<p>>
        OBVIOUS
      <4> QED BY <4>1, <4>2
    <3>3. /\ \A q \in Peers : x \notin o.state.pending_by_peer[q]
          /\ \A q \in Peers : x \notin o.state.awaiting_holepunch[q]
      BY <2>1, <2>3 DEF Located, Opens, MachineOK
    <3>4. \A s \in Services : x \notin o.state.pending_by_service[s]
      BY <2>1, <2>3 DEF Located, Opens
    <3> QED BY <3>1, <3>2, <3>3, <3>4 DEF Located, At
  <2>4. CASE x \notin pending \cup held
    <3>1. f[x] = old[x] /\ Opened(sp, o.commands)[x] = sp[x]
      BY <1>2, <2>2, <2>4
    <3>2. /\ \A q \in Peers :
               x \in o.state.pending_by_peer[q] <=> x \in t.pending_by_peer[q]
          /\ \A q \in Peers :
               x \in o.state.awaiting_holepunch[q] <=> x \in t.awaiting_holepunch[q]
      BY <2>4 DEF Opens, MachineOK
    <3> HIDE DEF f
    <3> QED BY <2>1, <3>1, <3>2 DEF Located, Opens
  <2> QED BY <2>3, <2>4
<1> HIDE DEF f
<1>5. /\ Conserved(o.state, Opened(sp, o.commands))
      /\ \A x \in Specs : PlaceIn(o.state, Opened(sp, o.commands), x) = f[x]
  BY <1>3, <1>4, MovedTo
<1> QED BY <1>5 DEF f, old

\* The requests that search for s move together, to one place on p.
LEMMA FindMoves ==
  ASSUME NEW t, MachineOK(t), NEW sp, Conserved(t, sp), NEW o, NEW s \in Services,
         NEW p \in Peers, NEW stage \in {"pending", "held", "open"}, Finds(t, o, s, p, stage)
  PROVE  /\ Conserved(o.state, Opened(sp, o.commands))
         /\ \A x \in Specs :
              PlaceIn(o.state, Opened(sp, o.commands), x) =
                IF PlaceIn(t, sp, x) = At("searching", NoPeer) /\ ServiceOf[x] = s
                THEN At(stage, p) ELSE PlaceIn(t, sp, x)
<1> DEFINE old == [x \in Specs |-> PlaceIn(t, sp, x)]
           found == t.pending_by_service[s]
           f == [x \in Specs |-> IF old[x] = At("searching", NoPeer) /\ ServiceOf[x] = s
                                 THEN At(stage, p) ELSE old[x]]
<1>1. old \in [Specs -> Places] /\ \A x \in Specs : Located(t, sp, x, old[x])
  BY DEF Conserved
<1>2. Opened(sp, o.commands) =
        [x \in Specs |-> IF x \in (IF stage = "open" THEN found ELSE {})
                         THEN Append(sp[x], p) ELSE sp[x]]
  BY OpenedFacts DEF Finds
<1> HIDE DEF old
<1>3. f \in [Specs -> Places]
  BY <1>1 DEF Places, At
<1>4. ASSUME NEW x \in Specs
      PROVE  Located(o.state, Opened(sp, o.commands), x, f[x])
  <2>1. Located(t, sp, x, old[x]) /\ old[x] \in Places
    BY <1>1
  <2>2. x \in found <=> old[x] = At("searching", NoPeer) /\ ServiceOf[x] = s
    BY <2>1 DEF Located, Places, At
  <2>3. /\ \A q \in Peers : x \in o.state.pending_by_peer[q] <=>
             x \in t.pending_by_peer[q] \/ (q = p /\ stage = "pending" /\ x \in found)
        /\ \A q \in Peers : x \in o.state.awaiting_holepunch[q] <=>
             x \in t.awaiting_holepunch[q] \/ (q = p /\ stage = "held" /\ x \in found)
        /\ \A r \in Services : x \in o.state.pending_by_service[r] <=>
             x \in t.pending_by_service[r] /\ r # s
    BY DEF Finds, MachineOK
  <2>4. CASE x \in found
    <3>1. f[x] = At(stage, p) /\ sp[x] = <<>> /\ s = ServiceOf[x]
      BY <2>1, <2>2, <2>4 DEF Located, At
    <3>2. Opened(sp, o.commands)[x] = IF stage = "open" THEN <<p>> ELSE <<>>
      <4>1. Append(<<>>, p) = <<p>>
        OBVIOUS
      <4>2. Opened(sp, o.commands)[x] = IF stage = "open" THEN Append(<<>>, p) ELSE <<>>
        BY <1>2, <2>4, <3>1
      <4> QED BY <4>1, <4>2
    <3>3. f[x].stage = stage /\ f[x].peer = p
      BY <3>1 DEF At
    <3> HIDE DEF f, found
    <3> QED BY <2>1, <2>2, <2>3, <2>4, <3>1, <3>2, <3>3 DEF Located, At
  <2>5. CASE x \notin found
    <3>1. f[x] = old[x] /\ Opened(sp, o.commands)[x] = sp[x]
      BY <1>2, <2>2, <2>5
    <3> HIDE DEF f, found
    <3> QED BY <2>1, <2>3, <2>5, <3>1 DEF Located, found
  <2> QED BY <2>4, <2>5
<1> HIDE DEF f
<1>5. /\ Conserved(o.state, Opened(sp, o.commands))
      /\ \A x \in Specs : PlaceIn(o.state, Opened(sp, o.commands), x) = f[x]
  BY <1>3, <1>4, MovedTo
<1> QED BY <1>5 DEF f, old

\* The pending requests of p go where asg says, to another peer or to the search.
LEMMA GiveUpMoves ==
  ASSUME NEW t, MachineOK(t), NEW sp, Conserved(t, sp), NEW o, NEW p \in Peers,
         NEW asg \in [t.pending_by_peer[p] -> (Peers \ {p}) \cup {NoPeer}],
         GivesUp(t, o, p, asg)
  PROVE  /\ Conserved(o.state, Opened(sp, o.commands))
         /\ \A x \in Specs :
              PlaceIn(t, sp, x) = At("pending", p) <=> x \in t.pending_by_peer[p]
         /\ \A x \in Specs :
              PlaceIn(o.state, Opened(sp, o.commands), x) =
                IF x \notin t.pending_by_peer[p] THEN PlaceIn(t, sp, x)
                ELSE IF asg[x] = NoPeer THEN At("searching", NoPeer)
                ELSE At("pending", asg[x])
<1> DEFINE old == [x \in Specs |-> PlaceIn(t, sp, x)]
           f == [x \in Specs |-> IF x \notin t.pending_by_peer[p] THEN old[x]
                                 ELSE IF asg[x] = NoPeer THEN At("searching", NoPeer)
                                 ELSE At("pending", asg[x])]
<1>1. old \in [Specs -> Places] /\ \A x \in Specs : Located(t, sp, x, old[x])
  BY DEF Conserved
<1>2. Opened(sp, o.commands) = [x \in Specs |-> sp[x]]
  BY NoneOpenedFacts DEF GivesUp
<1> HIDE DEF old
<1>3. f \in [Specs -> Places]
  BY <1>1 DEF Places, At
<1>4. ASSUME NEW x \in Specs
      PROVE  /\ Located(o.state, Opened(sp, o.commands), x, f[x])
             /\ old[x] = At("pending", p) <=> x \in t.pending_by_peer[p]
  <2>1. Located(t, sp, x, old[x]) /\ old[x] \in Places
    BY <1>1
  <2>2. old[x] = At("pending", p) <=> x \in t.pending_by_peer[p]
    BY <2>1 DEF Located, Places, At
  <2>3. /\ \A q \in Peers : x \in o.state.pending_by_peer[q] <=>
             \/ q # p /\ x \in t.pending_by_peer[q]
             \/ x \in t.pending_by_peer[p] /\ asg[x] = q
        /\ \A s \in Services : x \in o.state.pending_by_service[s] <=>
             \/ x \in t.pending_by_service[s]
             \/ x \in t.pending_by_peer[p] /\ asg[x] = NoPeer /\ ServiceOf[x] = s
        /\ o.state.awaiting_holepunch = t.awaiting_holepunch
    BY DEF GivesUp
  <2>4. CASE x \in t.pending_by_peer[p]
    <3>1. /\ asg[x] \in Peers \cup {NoPeer}
          /\ sp[x] = <<>>
          /\ \A q \in Peers : x \in t.pending_by_peer[q] => q = p
          /\ \A q \in Peers : x \notin t.awaiting_holepunch[q]
          /\ \A s \in Services : x \notin t.pending_by_service[s]
      BY <2>1, <2>2, <2>4 DEF Located, At
    <3>2. Opened(sp, o.commands)[x] = <<>>
      BY <1>2, <3>1
    <3>3. CASE asg[x] = NoPeer
      <4>1. f[x].stage = "searching"
        BY <2>4, <3>3 DEF At
      <4> HIDE DEF f
      <4>2. \A q \in Peers : x \notin o.state.pending_by_peer[q]
        BY <2>3, <3>1, <3>3, PeerAssumption
      <4>3. \A s \in Services : x \in o.state.pending_by_service[s] <=> s = ServiceOf[x]
        BY <2>3, <2>4, <3>1, <3>3
      <4>4. \A q \in Peers : x \notin o.state.awaiting_holepunch[q]
        BY <2>3, <3>1
      <4> QED BY <2>2, <3>2, <4>1, <4>2, <4>3, <4>4 DEF Located
    <3>4. CASE asg[x] # NoPeer
      <4>1. f[x].stage = "pending" /\ f[x].peer = asg[x]
        BY <2>4, <3>4 DEF At
      <4> HIDE DEF f
      <4>2. \A q \in Peers : x \in o.state.pending_by_peer[q] <=> asg[x] = q
        BY <2>3, <2>4, <3>1
      <4>3. \A s \in Services : x \notin o.state.pending_by_service[s]
        BY <2>3, <3>1, <3>4
      <4>4. \A q \in Peers : x \notin o.state.awaiting_holepunch[q]
        BY <2>3, <3>1
      <4> QED BY <2>2, <3>2, <4>1, <4>2, <4>3, <4>4 DEF Located
    <3> QED BY <2>2, <3>3, <3>4
  <2>5. CASE x \notin t.pending_by_peer[p]
    <3>1. f[x] = old[x] /\ Opened(sp, o.commands)[x] = sp[x]
      BY <1>2, <2>5
    <3> HIDE DEF f
    <3> QED BY <2>1, <2>2, <2>3, <2>5, <3>1 DEF Located
  <2> QED BY <2>4, <2>5
<1> HIDE DEF f
<1>5. /\ Conserved(o.state, Opened(sp, o.commands))
      /\ \A x \in Specs : PlaceIn(o.state, Opened(sp, o.commands), x) = f[x]
  BY <1>3, <1>4, MovedTo
<1> QED BY <1>4, <1>5 DEF f, old

\* At the start every request is at the place the command line gives it.
LEMMA InitialPlaces ==
  ASSUME NEW sp, \A x \in Specs : sp[x] = <<>>
  PROVE  /\ Conserved(InitialTunnels, sp)
         /\ \A x \in Specs :
              PlaceIn(InitialTunnels, sp, x) =
                IF TargetOf[x] = NoPeer THEN At("searching", NoPeer)
                ELSE At("pending", TargetOf[x])
<1> DEFINE f == [x \in Specs |-> IF TargetOf[x] = NoPeer THEN At("searching", NoPeer)
                                 ELSE At("pending", TargetOf[x])]
<1>1. f \in [Specs -> Places]
  BY TunnelAssumption DEF Places, At
<1>2. ASSUME NEW x \in Specs
      PROVE  Located(InitialTunnels, sp, x, f[x])
  <2>1. /\ \A p \in Peers : x \in InitialTunnels.pending_by_peer[p] <=> TargetOf[x] = p
        /\ \A p \in Peers : x \notin InitialTunnels.awaiting_holepunch[p]
        /\ \A s \in Services : x \in InitialTunnels.pending_by_service[s] <=>
             TargetOf[x] = NoPeer /\ s = ServiceOf[x]
        /\ sp[x] = <<>>
    BY DEF InitialTunnels
  <2>2. IF TargetOf[x] = NoPeer THEN f[x].stage = "searching"
        ELSE f[x].stage = "pending" /\ f[x].peer = TargetOf[x]
    BY DEF At
  <2> HIDE DEF f
  <2> QED BY <2>1, <2>2, PeerAssumption DEF Located
<1> HIDE DEF f
<1>3. /\ Conserved(InitialTunnels, sp)
      /\ \A x \in Specs : PlaceIn(InitialTunnels, sp, x) = f[x]
  BY <1>1, <1>2, MovedTo
<1> QED BY <1>3 DEF f

\* Every way of moving keeps each request at one place.
LEMMA EffectConserves ==
  ASSUME NEW t, MachineOK(t), NEW sp, Conserved(t, sp), NEW o, Effect(t, o)
  PROVE  Conserved(o.state, Opened(sp, o.commands))
<1>1. CASE Stays(t, o)
  BY <1>1, StayMoves
<1>2. ASSUME NEW p \in Peers, Holds(t, o, p)
      PROVE  Conserved(o.state, Opened(sp, o.commands))
  BY <1>2, HoldMoves
<1>3. ASSUME NEW p \in Peers, Loses(t, o, p)
      PROVE  Conserved(o.state, Opened(sp, o.commands))
  BY <1>3, LoseMoves
<1>4. ASSUME NEW p \in Peers, Opens(t, o, p, t.pending_by_peer[p], {})
      PROVE  Conserved(o.state, Opened(sp, o.commands))
  <2> DEFINE stages == {"pending"}
  <2>1. stages \in SUBSET {"pending", "held"} /\ "pending" \in stages /\ "held" \notin stages
    OBVIOUS
  <2> HIDE DEF stages
  <2> QED BY <1>4, <2>1, OpenMoves
<1>5. ASSUME NEW p \in Peers, Opens(t, o, p, {}, t.awaiting_holepunch[p])
      PROVE  Conserved(o.state, Opened(sp, o.commands))
  <2> DEFINE stages == {"held"}
  <2>1. stages \in SUBSET {"pending", "held"} /\ "pending" \notin stages /\ "held" \in stages
    OBVIOUS
  <2> HIDE DEF stages
  <2> QED BY <1>5, <2>1, OpenMoves
<1>6. ASSUME NEW p \in Peers, Opens(t, o, p, t.pending_by_peer[p], t.awaiting_holepunch[p])
      PROVE  Conserved(o.state, Opened(sp, o.commands))
  <2> DEFINE stages == {"pending", "held"}
  <2>1. stages \in SUBSET {"pending", "held"} /\ "pending" \in stages /\ "held" \in stages
    OBVIOUS
  <2> HIDE DEF stages
  <2> QED BY <1>6, <2>1, OpenMoves
<1>7. ASSUME NEW s \in Services, NEW p \in Peers, NEW stage \in {"pending", "held", "open"},
             Finds(t, o, s, p, stage)
      PROVE  Conserved(o.state, Opened(sp, o.commands))
  BY <1>7, FindMoves
<1>8. ASSUME NEW p \in Peers,
             NEW asg \in [t.pending_by_peer[p] -> (Peers \ {p}) \cup {NoPeer}],
             GivesUp(t, o, p, asg)
      PROVE  Conserved(o.state, Opened(sp, o.commands))
  BY <1>8, GiveUpMoves
<1> QED BY <1>1, <1>2, <1>3, <1>4, <1>5, <1>6, <1>7, <1>8, Zenon DEF Effect

\* The ways in which TunnelRequests lets the places change from old to new: some
\* requests move to one place, or the pending ones of p scatter.
MoveStep(old, new, requests, to) ==
  new = [x \in Specs |-> IF x \in requests THEN to ELSE old[x]]

AllIn(old, places) == {x \in Specs : old[x] \in places}

FoundStep(old, new, s, p, stage) ==
  MoveStep(old, new, {x \in AllIn(old, {At("searching", NoPeer)}) : ServiceOf[x] = s},
           At(stage, p))
HoldStep(old, new, p) == MoveStep(old, new, AllIn(old, {At("pending", p)}), At("held", p))
OpenStep(old, new, p, stages) ==
  MoveStep(old, new, AllIn(old, {At(stage, p) : stage \in stages}), At("open", p))
LoseStep(old, new, p) == MoveStep(old, new, AllIn(old, {At("held", p)}), At("pending", p))
GiveUpStep(old, new, p) ==
  \E to \in [AllIn(old, {At("pending", p)}) ->
               {At("searching", NoPeer)} \cup {At("pending", q) : q \in Peers \ {p}}] :
    new = [x \in Specs |-> IF x \in DOMAIN to THEN to[x] ELSE old[x]]

RequestStep(old, new) ==
  \/ new = old
  \/ \E s \in Services, p \in Peers, stage \in {"pending", "held", "open"} :
       FoundStep(old, new, s, p, stage)
  \/ \E p \in Peers : HoldStep(old, new, p)
  \/ \E p \in Peers : \E stages \in SUBSET {"pending", "held"} : OpenStep(old, new, p, stages)
  \/ \E p \in Peers : LoseStep(old, new, p)
  \/ \E p \in Peers : GiveUpStep(old, new, p)

\* Every effect of a transition is one of them.
LEMMA EffectIsRequestStep ==
  ASSUME NEW t, MachineOK(t), NEW sp, Conserved(t, sp), NEW o, Effect(t, o)
  PROVE  RequestStep([x \in Specs |-> PlaceIn(t, sp, x)],
                     [x \in Specs |-> PlaceIn(o.state, Opened(sp, o.commands), x)])
<1> DEFINE old == [x \in Specs |-> PlaceIn(t, sp, x)]
           new == [x \in Specs |-> PlaceIn(o.state, Opened(sp, o.commands), x)]
<1> HIDE DEF old, new
<1>1. /\ \A x \in Specs : old[x] = PlaceIn(t, sp, x)
      /\ \A x \in Specs : new[x] = PlaceIn(o.state, Opened(sp, o.commands), x)
      /\ new = [x \in Specs |-> new[x]] /\ old = [x \in Specs |-> old[x]]
  BY DEF old, new
<1>2. ASSUME Stays(t, o)
      PROVE  RequestStep(old, new)
  <2>1. \A x \in Specs : new[x] = old[x]
    BY <1>1, <1>2, StayMoves
  <2>2. new = old
    BY <1>1, <2>1
  <2> QED BY <2>2 DEF RequestStep
<1>3. ASSUME NEW p \in Peers, Holds(t, o, p)
      PROVE  RequestStep(old, new)
  <2>1. \A x \in Specs :
          new[x] = IF old[x] = At("pending", p) THEN At("held", p) ELSE old[x]
    BY <1>1, <1>3, HoldMoves
  <2>2. HoldStep(old, new, p)
    BY <1>1, <2>1 DEF HoldStep, MoveStep, AllIn
  <2> QED BY <2>2, Zenon DEF RequestStep
<1>4. ASSUME NEW p \in Peers, Loses(t, o, p)
      PROVE  RequestStep(old, new)
  <2>1. \A x \in Specs :
          new[x] = IF old[x] = At("held", p) THEN At("pending", p) ELSE old[x]
    BY <1>1, <1>4, LoseMoves
  <2>2. LoseStep(old, new, p)
    BY <1>1, <2>1 DEF LoseStep, MoveStep, AllIn
  <2> QED BY <2>2, Zenon DEF RequestStep
<1>5. ASSUME NEW p \in Peers, NEW stages \in SUBSET {"pending", "held"},
             \A x \in Specs : new[x] = IF old[x] \in {At(stage, p) : stage \in stages}
                                       THEN At("open", p) ELSE old[x]
      PROVE  RequestStep(old, new)
  <2>1. OpenStep(old, new, p, stages)
    BY <1>1, <1>5 DEF OpenStep, MoveStep, AllIn
  <2> QED BY <1>5, <2>1, Zenon DEF RequestStep
<1>6. ASSUME NEW p \in Peers, Opens(t, o, p, t.pending_by_peer[p], {})
      PROVE  RequestStep(old, new)
  <2> DEFINE stages == {"pending"}
  <2>1. stages \in SUBSET {"pending", "held"} /\ "pending" \in stages /\ "held" \notin stages
    OBVIOUS
  <2> HIDE DEF stages
  <2>2. \A x \in Specs : new[x] = IF old[x] \in {At(stage, p) : stage \in stages}
                                  THEN At("open", p) ELSE old[x]
    BY <1>1, <1>6, <2>1, OpenMoves
  <2> QED BY <1>5, <2>1, <2>2
<1>7. ASSUME NEW p \in Peers, Opens(t, o, p, {}, t.awaiting_holepunch[p])
      PROVE  RequestStep(old, new)
  <2> DEFINE stages == {"held"}
  <2>1. stages \in SUBSET {"pending", "held"} /\ "pending" \notin stages /\ "held" \in stages
    OBVIOUS
  <2> HIDE DEF stages
  <2>2. \A x \in Specs : new[x] = IF old[x] \in {At(stage, p) : stage \in stages}
                                  THEN At("open", p) ELSE old[x]
    BY <1>1, <1>7, <2>1, OpenMoves
  <2> QED BY <1>5, <2>1, <2>2
<1>8. ASSUME NEW p \in Peers,
             Opens(t, o, p, t.pending_by_peer[p], t.awaiting_holepunch[p])
      PROVE  RequestStep(old, new)
  <2> DEFINE stages == {"pending", "held"}
  <2>1. stages \in SUBSET {"pending", "held"} /\ "pending" \in stages /\ "held" \in stages
    OBVIOUS
  <2> HIDE DEF stages
  <2>2. \A x \in Specs : new[x] = IF old[x] \in {At(stage, p) : stage \in stages}
                                  THEN At("open", p) ELSE old[x]
    BY <1>1, <1>8, <2>1, OpenMoves
  <2> QED BY <1>5, <2>1, <2>2
<1>9. ASSUME NEW s \in Services, NEW p \in Peers, NEW stage \in {"pending", "held", "open"},
              Finds(t, o, s, p, stage)
       PROVE  RequestStep(old, new)
  <2>1. \A x \in Specs :
          new[x] = IF old[x] = At("searching", NoPeer) /\ ServiceOf[x] = s
                   THEN At(stage, p) ELSE old[x]
    BY <1>1, <1>9, FindMoves
  <2>2. FoundStep(old, new, s, p, stage)
    BY <1>1, <2>1 DEF FoundStep, MoveStep, AllIn
  <2> QED BY <2>2, Zenon DEF RequestStep
<1>10. ASSUME NEW p \in Peers,
              NEW asg \in [t.pending_by_peer[p] -> (Peers \ {p}) \cup {NoPeer}],
              GivesUp(t, o, p, asg)
       PROVE  RequestStep(old, new)
  <2> DEFINE leaving == AllIn(old, {At("pending", p)})
             to == [x \in leaving |-> IF asg[x] = NoPeer THEN At("searching", NoPeer)
                                      ELSE At("pending", asg[x])]
             Elsewhere == {At("searching", NoPeer)}
                            \cup {At("pending", q) : q \in Peers \ {p}}
  <2>1. /\ \A x \in Specs : old[x] = At("pending", p) <=> x \in t.pending_by_peer[p]
        /\ \A x \in Specs :
             new[x] = IF x \notin t.pending_by_peer[p] THEN old[x]
                      ELSE IF asg[x] = NoPeer THEN At("searching", NoPeer)
                      ELSE At("pending", asg[x])
    BY <1>1, <1>10, GiveUpMoves
  <2>2. to \in [leaving -> Elsewhere]
    BY <2>1 DEF AllIn
  <2>3. new = [x \in Specs |-> IF x \in DOMAIN to THEN to[x] ELSE old[x]]
    BY <1>1, <2>1 DEF AllIn
  <2> HIDE DEF to
  <2>4. GiveUpStep(old, new, p)
    BY <2>2, <2>3, Zenon DEF GiveUpStep
  <2> QED BY <2>4, Zenon DEF RequestStep
<1> QED BY <1>2, <1>3, <1>4, <1>6, <1>7, <1>8, <1>9, <1>10, Zenon
        DEF Effect, old, new
=============================================================================
