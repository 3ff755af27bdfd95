-------------------------- MODULE TunnelSpecProofs --------------------------
(***************************************************************************)
(* Proofs about TunnelSpec, for every set of peers, services and requests  *)
(* and every retry budget.  TunnelMachineProofs says what each event does, *)
(* in a small vocabulary of effects on the requests, and where the         *)
(* requests are afterwards.  The invariants, the action properties and the *)
(* refinement all follow from that.                                        *)
(***************************************************************************)
EXTENDS TunnelSpec, TunnelMachineProofs

-----------------------------------------------------------------------------
(* The specification *)

\* The inductive invariant.
IInv ==
  /\ MachineOK(tunnel)
  /\ Conserved(tunnel, spawned)
  /\ Owned(tunnel)

\* The invariant holds at the start.
LEMMA InitEstablishesIInv ==
  Init => IInv
<1> SUFFICES ASSUME Init PROVE IInv
  OBVIOUS
<1>1. MachineOK(tunnel)
  <2>1. SessionsOK(tunnel.holepunch_sessions)
    BY DEF Init, InitialTunnels, SessionsOK, IsSession, NoSession
  <2> QED BY <2>1 DEF Init, InitialTunnels, MachineOK
<1>2. Owned(tunnel)
  BY TunnelAssumption DEF Init, InitialTunnels, Owned
<1>3. Conserved(tunnel, spawned)
  BY InitialPlaces DEF Init
<1> QED BY <1>1, <1>2, <1>3 DEF IInv

\* The first provider of an answer is a peer.
LEMMA FirstProvider ==
  ASSUME NEW providers \in Answers, providers # <<>>
  PROVE  Head(providers).peer \in Peers
<1>1. PICK n \in 0..MaxProviders : providers \in [1..n -> [peer : Peers, connected : BOOLEAN]]
  BY DEF Answers
<1>2. n # 0
  BY <1>1
<1>3. 1 \in 1..n
  BY <1>2, TunnelBounds
<1>4. providers[1] \in [peer : Peers, connected : BOOLEAN]
  BY <1>1, <1>3
<1>5. Head(providers) = providers[1]
  BY <1>1, TunnelBounds
<1> QED BY <1>4, <1>5

\* Every step is a transition that does what Effect allows, or time passes.
LEMMA NextIsGood ==
  ASSUME IInv, Next
  PROVE  \/ \E o : Transition(o) /\ GoodStep(tunnel, o)
         \/ commands' = {} /\ UNCHANGED <<tunnel, spawned>>
<1> USE DEF IInv
<1>1. CASE NodeReady
  <2> DEFINE o == PhaseChangedReady(tunnel)
  <2>1. o.state = tunnel /\ NoneOpened(o)
    BY DEF PhaseChangedReady, Out, NoneOpened, initiate_lookups, PublishServices,
           DhtLookupPeer, DhtGetProviders, SpawnTunnel
  <2>2. Transition(o)
    BY <1>1 DEF NodeReady
  <2> HIDE DEF o
  <2>3. GoodStep(tunnel, o)
    BY <2>1, IdleStep
  <2> QED BY <2>2, <2>3, Zenon
<1>2. CASE ReservationAccepted
  <2> DEFINE o == RelayReservationAccepted(tunnel)
  <2>1. o.state = tunnel /\ NoneOpened(o)
    BY DEF RelayReservationAccepted, Out, NoneOpened, PublishServices, SpawnTunnel
  <2>2. Transition(o)
    BY <1>2 DEF ReservationAccepted
  <2> HIDE DEF o
  <2>3. GoodStep(tunnel, o)
    BY <2>1, IdleStep
  <2> QED BY <2>2, <2>3, Zenon
<1>3. ASSUME NEW p \in Peers, NEW connected \in BOOLEAN, PeerLookedUp(p, connected)
      PROVE  \E o : Transition(o) /\ GoodStep(tunnel, o)
  BY <1>3, LookupStep, Zenon DEF PeerLookedUp
<1>4. ASSUME NEW s \in Services, NEW providers \in Answers, ServiceResolved(s, providers)
      PROVE  \E o : Transition(o) /\ GoodStep(tunnel, o)
  <2>1. providers # <<>> => Head(providers).peer \in Peers
    BY FirstProvider
  <2> QED BY <1>4, <2>1, ResolvedStep, Zenon DEF ServiceResolved
<1>5. ASSUME NEW s \in Services, ServiceLookupFailed(s)
      PROVE  \E o : Transition(o) /\ GoodStep(tunnel, o)
  <2> DEFINE o == DhtServiceFailed(tunnel, s)
  <2>1. o.state = tunnel /\ NoneOpened(o)
    BY DEF DhtServiceFailed, Out, NoneOpened, DhtGetProviders, SpawnTunnel
  <2>2. Transition(o)
    BY <1>5 DEF ServiceLookupFailed
  <2> HIDE DEF o
  <2>3. GoodStep(tunnel, o)
    BY <2>1, IdleStep
  <2> QED BY <2>2, <2>3, Zenon
<1>6. ASSUME NEW p \in Peers, NEW aborted \in BOOLEAN, DialFailed(p, aborted)
      PROVE  \E o : Transition(o) /\ GoodStep(tunnel, o)
  <2>1. PICK asg \in RerouteChoices(tunnel, p) :
          Transition(TunnelDialFailed(tunnel, p, aborted, asg, now))
    BY <1>6, Zenon DEF DialFailed
  <2>2. asg \in [tunnel.pending_by_peer[p] -> (Peers \ {p}) \cup {NoPeer}]
    BY Zenon DEF RerouteChoices
  <2> QED BY <2>1, <2>2, DialFailedStep, Zenon
<1>7. ASSUME NEW p \in Peers, NEW listen_addrs \in SUBSET Addrs, Identified(p, listen_addrs)
      PROVE  \E o : Transition(o) /\ GoodStep(tunnel, o)
  BY <1>7, IdentifiedStep, Zenon DEF Identified
<1>8. ASSUME NEW p \in Peers, NEW relayed \in BOOLEAN, Connected(p, relayed)
      PROVE  \E o : Transition(o) /\ GoodStep(tunnel, o)
  BY <1>8, ConnectedStep, Zenon DEF Connected
<1>9. ASSUME NEW p \in Peers, NEW id \in 1..MaxAttemptId, AttemptStarted(p, id)
      PROVE  \E o : Transition(o) /\ GoodStep(tunnel, o)
  BY <1>9, StartedStep, Zenon DEF AttemptStarted
<1>10. ASSUME NEW p \in Peers, NEW id \in 1..MaxAttemptId, AttemptFailed(p, id)
       PROVE  \E o : Transition(o) /\ GoodStep(tunnel, o)
  BY <1>10, FailedStep, Zenon DEF AttemptFailed
<1>11. ASSUME NEW p \in Peers, LastConnectionLost(p)
       PROVE  \E o : Transition(o) /\ GoodStep(tunnel, o)
  BY <1>11, LostStep, Zenon DEF LastConnectionLost
<1>12. CASE Tick
  BY <1>12 DEF Tick
<1> QED BY <1>1, <1>2, <1>3, <1>4, <1>5, <1>6, <1>7, <1>8, <1>9, <1>10, <1>11, <1>12, Zenon
        DEF Next

\* Every step keeps the invariant.
LEMMA NextPreservesIInv ==
  IInv /\ [Next]_vars => IInv'
<1> SUFFICES ASSUME IInv, [Next]_vars PROVE IInv'
  OBVIOUS
<1>1. ASSUME NEW o, Transition(o), GoodStep(tunnel, o)
      PROVE  IInv'
  <2>1. tunnel' = o.state /\ spawned' = Opened(spawned, o.commands)
    BY <1>1 DEF Transition, Opened
  <2>2. Conserved(o.state, Opened(spawned, o.commands))
    BY <1>1, EffectConserves DEF IInv, GoodStep
  <2> QED BY <1>1, <2>1, <2>2 DEF IInv, GoodStep
<1>2. CASE UNCHANGED <<tunnel, spawned>>
  BY <1>2 DEF IInv
<1>3. CASE Next
  BY <1>1, <1>2, <1>3, NextIsGood, Zenon
<1> QED BY <1>2, <1>3 DEF vars

\* The invariant holds for good.
LEMMA TunnelInvariant ==
  Spec => []IInv
<1> QED BY InitEstablishesIInv, NextPreservesIInv, PTL DEF Spec

-----------------------------------------------------------------------------
(* The theorems *)

\* Whatever events reach the machine, in any order, repeated or stale, no tunnel
\* request is lost and none is opened twice: TunnelState::transition moves
\* requests between pending_by_peer, pending_by_service and awaiting_holepunch
\* and hands each to SpawnTunnel at most once.
THEOREM RequestsAreConserved ==
  Spec => []IntentConservation
<1>1. ASSUME IInv PROVE IntentConservation
  <2> SUFFICES ASSUME NEW x \in Specs
      PROVE  /\ \/ Len(spawned[x]) = 0 /\ \E h \in Holders(x) : Holders(x) = {h}
                \/ Len(spawned[x]) = 1 /\ Holders(x) = {}
             /\ \A s \in Services : x \in tunnel.pending_by_service[s] => s = ServiceOf[x]
    BY DEF IntentConservation
  <2> DEFINE l == PlaceIn(tunnel, spawned, x)
             inPeer == {p \in Peers : x \in tunnel.pending_by_peer[p]}
             inService == {s \in Services : x \in tunnel.pending_by_service[s]}
             inHeld == {p \in Peers : x \in tunnel.awaiting_holepunch[p]}
  <2>1. l \in Places /\ Located(tunnel, spawned, x, l)
    BY <1>1 DEF IInv, Conserved
  <2>2. Holders(x) = ({"pending_by_peer"} \X inPeer) \cup ({"pending_by_service"} \X inService)
                       \cup ({"awaiting_holepunch"} \X inHeld)
    BY DEF Holders
  <2> HIDE DEF l
  <2>3. \A s \in Services : x \in tunnel.pending_by_service[s] => s = ServiceOf[x]
    BY <2>1 DEF Located
  <2>4. CASE l.stage = "open"
    <3>1. inPeer = {} /\ inService = {} /\ inHeld = {}
      BY <2>1, <2>4 DEF Located
    <3>2. Holders(x) = {}
      BY <2>2, <3>1
    <3>3. Len(spawned[x]) = 1
      BY <2>1, <2>4 DEF Located
    <3> QED BY <2>3, <3>2, <3>3
  <2>5. CASE l.stage = "pending"
    <3>1. inPeer = {l.peer} /\ inService = {} /\ inHeld = {}
      BY <2>1, <2>5 DEF Located, Places, At
    <3>2. Holders(x) = {<<"pending_by_peer", l.peer>>}
      BY <2>2, <3>1
    <3>3. Len(spawned[x]) = 0
      BY <2>1, <2>5 DEF Located
    <3> QED BY <2>3, <3>2, <3>3
  <2>6. CASE l.stage = "held"
    <3>1. inPeer = {} /\ inService = {} /\ inHeld = {l.peer}
      BY <2>1, <2>6 DEF Located, Places, At
    <3>2. Holders(x) = {<<"awaiting_holepunch", l.peer>>}
      BY <2>2, <3>1
    <3>3. Len(spawned[x]) = 0
      BY <2>1, <2>6 DEF Located
    <3> QED BY <2>3, <3>2, <3>3
  <2>7. CASE l.stage = "searching"
    <3>1. inPeer = {} /\ inService = {ServiceOf[x]} /\ inHeld = {}
      BY <2>1, <2>7, TunnelAssumption DEF Located
    <3>2. Holders(x) = {<<"pending_by_service", ServiceOf[x]>>}
      BY <2>2, <3>1
    <3>3. Len(spawned[x]) = 0
      BY <2>1, <2>7 DEF Located
    <3> QED BY <2>3, <3>2, <3>3
  <2>8. l.stage \in {"open", "pending", "held", "searching"}
    BY <2>1 DEF Places, At
  <2> QED BY <2>4, <2>5, <2>6, <2>7, <2>8
<1> QED BY <1>1, TunnelInvariant, PTL

\* Retries are counted, and a redial is due, only for a peer somebody waits for,
\* and never beyond the budget: every arm that empties awaiting_holepunch of a
\* peer also calls clear_retry_state.
THEOREM RetriesAreOwned ==
  Spec => []RetryStateIsOwned
<1>1. IInv => RetryStateIsOwned
  BY DEF IInv, Owned, RetryStateIsOwned
<1> QED BY <1>1, TunnelInvariant, PTL

\* The commands open a tunnel over a relayed connection only when the retries of
\* the peer are used up, on every arm that emits SpawnTunnel.
THEOREM DirectPathComesFirst ==
  Spec => DirectPathPreferred
<1>1. ASSUME IInv, [Next]_vars
      PROVE  [\A p \in Peers, x \in Specs :
                SpawnTunnel(p, x) \in commands' /\ p \in tunnel'.relayed_peers
                  => /\ tunnel.holepunch_retry_attempts[p] = MAX_RELAY_RECONNECT_RETRIES
                     /\ x \in tunnel.awaiting_holepunch[p]]_vars
  <2>1. ASSUME NEW o, Transition(o), GoodStep(tunnel, o)
        PROVE  \A p \in Peers, x \in Specs :
                 SpawnTunnel(p, x) \in commands' /\ p \in tunnel'.relayed_peers
                   => /\ tunnel.holepunch_retry_attempts[p] = MAX_RELAY_RECONNECT_RETRIES
                      /\ x \in tunnel.awaiting_holepunch[p]
    BY <2>1, Zenon DEF Transition, GoodStep, Direct
  <2>2. CASE commands' = {}
    BY <2>2
  <2>3. CASE Next
    BY <1>1, <2>1, <2>2, <2>3, NextIsGood, Zenon
  <2> QED BY <1>1, <2>3
<1> QED BY <1>1, TunnelInvariant, PTL DEF Spec, DirectPathPreferred

\* Only the start of another attempt may leave a running one without addresses:
\* update_address_oracle keeps the snapshots when an identify brings nothing
\* usable, and no other arm touches them.
THEOREM SnapshotsAreKept ==
  Spec => SnapshotsNeverEmptied
<1> DEFINE Kept ==
      \A p \in Peers :
        LET old == tunnel.holepunch_sessions[p]
            new == tunnel'.holepunch_sessions[p]
        IN  /\ old.phase # "None" /\ new.phase # "None"
            /\ \A id \in 1..MaxAttemptId : ~AttemptStarted(p, id)
            => /\ old.relay_redial_addrs # <<>> => new.relay_redial_addrs # <<>>
               /\ old.direct_snapshot # <<>> => new.direct_snapshot # <<>>
<1>1. ASSUME \A p \in Peers :
               \/ KeepsSnapshots(tunnel, tunnel', p)
               \/ \E id \in 1..MaxAttemptId : AttemptStarted(p, id)
      PROVE  Kept
  BY <1>1, Zenon DEF KeepsSnapshots
<1> HIDE DEF Kept
<1>2. ASSUME IInv, Next
      PROVE  Kept
  <2> USE <1>2 DEF IInv
  <2>1. CASE NodeReady
    <3>1. tunnel' = tunnel
      BY <2>1 DEF NodeReady, Transition, PhaseChangedReady, Out
    <3> QED BY <1>1, <3>1 DEF KeepsSnapshots
  <2>2. CASE ReservationAccepted
    <3>1. tunnel' = tunnel
      BY <2>2 DEF ReservationAccepted, Transition, RelayReservationAccepted, Out
    <3> QED BY <1>1, <3>1 DEF KeepsSnapshots
  <2>3. ASSUME NEW p \in Peers, NEW connected \in BOOLEAN, PeerLookedUp(p, connected)
        PROVE  Kept
    <3>1. tunnel' = DhtPeerLookupComplete(tunnel, p, connected).state
      BY <2>3, Zenon DEF PeerLookedUp, Transition
    <3>2. \A q \in Peers : KeepsSnapshots(tunnel, tunnel', q)
      BY <3>1, LookupStep, Zenon
    <3> QED BY <1>1, <3>2
  <2>4. ASSUME NEW s \in Services, NEW providers \in Answers, ServiceResolved(s, providers)
        PROVE  Kept
    <3>1. tunnel' = DhtServiceResolved(tunnel, s, providers).state
      BY <2>4, Zenon DEF ServiceResolved, Transition
    <3>2. providers # <<>> => Head(providers).peer \in Peers
      BY FirstProvider
    <3>3. \A q \in Peers : KeepsSnapshots(tunnel, tunnel', q)
      BY <3>1, <3>2, ResolvedStep, Zenon
    <3> QED BY <1>1, <3>3
  <2>5. ASSUME NEW s \in Services, ServiceLookupFailed(s)
        PROVE  Kept
    <3>1. tunnel' = tunnel
      BY <2>5 DEF ServiceLookupFailed, Transition, DhtServiceFailed, Out
    <3> QED BY <1>1, <3>1 DEF KeepsSnapshots
  <2>6. ASSUME NEW p \in Peers, NEW aborted \in BOOLEAN, DialFailed(p, aborted)
        PROVE  Kept
    <3>1. PICK asg \in RerouteChoices(tunnel, p) :
            tunnel' = TunnelDialFailed(tunnel, p, aborted, asg, now).state
      BY <2>6, Zenon DEF DialFailed, Transition
    <3>2. asg \in [tunnel.pending_by_peer[p] -> (Peers \ {p}) \cup {NoPeer}]
      BY Zenon DEF RerouteChoices
    <3>3. \A q \in Peers : KeepsSnapshots(tunnel, tunnel', q)
      BY <3>1, <3>2, DialFailedStep, Zenon
    <3> QED BY <1>1, <3>3
  <2>7. ASSUME NEW p \in Peers, NEW listen_addrs \in SUBSET Addrs, Identified(p, listen_addrs)
        PROVE  Kept
    <3>1. tunnel' = PeerIdentified(tunnel, p, listen_addrs, now).state
      BY <2>7, Zenon DEF Identified, Transition
    <3>2. \A q \in Peers : KeepsSnapshots(tunnel, tunnel', q)
      BY <3>1, IdentifiedStep, Zenon
    <3> QED BY <1>1, <3>2
  <2>8. ASSUME NEW p \in Peers, NEW relayed \in BOOLEAN, Connected(p, relayed)
        PROVE  Kept
    <3>1. tunnel' = TunnelPeerConnected(tunnel, p, relayed).state
      BY <2>8, Zenon DEF Connected, Transition
    <3>2. \A q \in Peers : KeepsSnapshots(tunnel, tunnel', q)
      BY <3>1, ConnectedStep, Zenon
    <3> QED BY <1>1, <3>2
  <2>9. ASSUME NEW p \in Peers, NEW id \in 1..MaxAttemptId, AttemptStarted(p, id)
        PROVE  Kept
    <3>1. tunnel' = HolePunchAttemptStarted(tunnel, p, id).state
      BY <2>9, Zenon DEF AttemptStarted, Transition
    <3>2. \A q \in Peers \ {p} : KeepsSnapshots(tunnel, tunnel', q)
      BY <3>1, StartedStep, Zenon
    <3> QED BY <1>1, <2>9, <3>2
  <2>10. ASSUME NEW p \in Peers, NEW id \in 1..MaxAttemptId, AttemptFailed(p, id)
         PROVE  Kept
    <3>1. tunnel' = HolePunchAttemptFailed(tunnel, p, id).state
      BY <2>10, Zenon DEF AttemptFailed, Transition
    <3>2. \A q \in Peers : KeepsSnapshots(tunnel, tunnel', q)
      BY <3>1, FailedStep, Zenon
    <3> QED BY <1>1, <3>2
  <2>11. ASSUME NEW p \in Peers, LastConnectionLost(p)
         PROVE  Kept
    <3>1. tunnel' = ConnectionLostAll(tunnel, p, now).state
      BY <2>11, Zenon DEF LastConnectionLost, Transition
    <3>2. \A q \in Peers : KeepsSnapshots(tunnel, tunnel', q)
      BY <3>1, LostStep, Zenon
    <3> QED BY <1>1, <3>2
  <2>12. CASE Tick
    <3>1. tunnel' = tunnel
      BY <2>12 DEF Tick
    <3> QED BY <1>1, <3>1 DEF KeepsSnapshots
  <2> QED BY <2>1, <2>2, <2>3, <2>4, <2>5, <2>6, <2>7, <2>8, <2>9, <2>10, <2>11, <2>12, Zenon
          DEF Next
<1>3. IInv /\ [Next]_vars => [Kept]_vars
  BY <1>2
<1> QED BY <1>3, TunnelInvariant, PTL DEF Spec, SnapshotsNeverEmptied, Kept

-----------------------------------------------------------------------------
(* The refinement *)

\* A step of the places is a step of TunnelRequests, or none.
LEMMA PlacesRefine ==
  ASSUME RequestStep([x \in Specs |-> PlaceOf(x)], [x \in Specs |-> PlaceOf(x)]')
  PROVE  [Requests!Next]_[x \in Specs |-> PlaceOf(x)]
<1> DEFINE place == [x \in Specs |-> PlaceOf(x)]
<1>1. RequestStep(place, place')
  OBVIOUS
<1> HIDE DEF place
<1>2. ASSUME NEW s \in Services, NEW p \in Peers, NEW stage \in {"pending", "held", "open"},
             FoundStep(place, place', s, p, stage)
      PROVE  Requests!ProviderFound(s, p)
  BY <1>2, Zenon DEF FoundStep, MoveStep, AllIn, place, At, Requests!ProviderFound,
     Requests!Move, Requests!AllAt, Requests!At, Requests!Searching, Requests!Stages
<1>3. ASSUME NEW p \in Peers, HoldStep(place, place', p)
      PROVE  Requests!Hold(p)
  BY <1>3, Zenon DEF HoldStep, MoveStep, AllIn, place, At, Requests!Hold, Requests!Move,
     Requests!AllAt, Requests!At
<1>4. ASSUME NEW p \in Peers, NEW stages \in SUBSET {"pending", "held"},
             OpenStep(place, place', p, stages)
      PROVE  Requests!Open(p)
  BY <1>4, Zenon DEF OpenStep, MoveStep, AllIn, place, At, Requests!Open, Requests!Move,
     Requests!AllAt, Requests!At
<1>5. ASSUME NEW p \in Peers, LoseStep(place, place', p)
      PROVE  Requests!Lose(p)
  BY <1>5, Zenon DEF LoseStep, MoveStep, AllIn, place, At, Requests!Lose, Requests!Move,
     Requests!AllAt, Requests!At
<1>6. ASSUME NEW p \in Peers, GiveUpStep(place, place', p)
      PROVE  Requests!GiveUp(p)
  BY <1>6, Zenon DEF GiveUpStep, AllIn, place, At, Requests!GiveUp, Requests!AllAt,
     Requests!At, Requests!Searching
<1>7. place' = place \/ Requests!Next
  BY <1>1, <1>2, <1>3, <1>4, <1>5, <1>6, Zenon DEF RequestStep, Requests!Next
<1> QED BY <1>7 DEF place

\* One transition, seen in the terms of TunnelRequests.
LEMMA StepRefines ==
  ASSUME IInv, NEW o, Transition(o), GoodStep(tunnel, o)
  PROVE  [Requests!Next]_[x \in Specs |-> PlaceOf(x)]
<1>1. tunnel' = o.state /\ spawned' = Opened(spawned, o.commands)
  BY DEF Transition, Opened
<1>2. [x \in Specs |-> PlaceOf(x)] = [x \in Specs |-> PlaceIn(tunnel, spawned, x)]
  BY DEF PlaceIn, PlaceOf
<1>3. [x \in Specs |-> PlaceOf(x)]' =
        [x \in Specs |-> PlaceIn(o.state, Opened(spawned, o.commands), x)]
  BY <1>1 DEF PlaceIn, PlaceOf
<1>4. RequestStep([x \in Specs |-> PlaceIn(tunnel, spawned, x)],
                  [x \in Specs |-> PlaceIn(o.state, Opened(spawned, o.commands), x)])
  BY EffectIsRequestStep DEF IInv, GoodStep
<1> QED BY <1>2, <1>3, <1>4, PlacesRefine, Zenon

\* The tunnel machine implements TunnelRequests, for every set of peers, services
\* and requests: under any events, requests move between searching, pending, held
\* and open only together and only as promised there.
THEOREM TunnelsImplementRequests ==
  Spec => ImplementsTunnelRequests
<1>1. Init => Requests!Init
  <2> SUFFICES ASSUME Init PROVE Requests!Init
    OBVIOUS
  <2>1. \A x \in Specs : PlaceOf(x) = PlaceIn(tunnel, spawned, x)
    BY DEF PlaceIn, PlaceOf
  <2>2. \A x \in Specs :
          PlaceOf(x) = IF TargetOf[x] = NoPeer THEN At("searching", NoPeer)
                       ELSE At("pending", TargetOf[x])
    BY <2>1, InitialPlaces DEF Init
  <2> QED BY <2>2, Zenon DEF At, Requests!Init, Requests!At, Requests!Searching
<1>2. IInv /\ [Next]_vars => [Requests!Next]_[x \in Specs |-> PlaceOf(x)]
  <2> SUFFICES ASSUME IInv, [Next]_vars
               PROVE  [Requests!Next]_[x \in Specs |-> PlaceOf(x)]
    OBVIOUS
  <2>1. CASE UNCHANGED <<tunnel, spawned>>
    <3>1. [x \in Specs |-> PlaceOf(x)]' = [x \in Specs |-> PlaceOf(x)]
      BY <2>1 DEF PlaceOf
    <3> QED BY <3>1
  <2>2. CASE Next
    BY <2>1, <2>2, NextIsGood, StepRefines, Zenon
  <2> QED BY <2>1, <2>2 DEF vars
<1> QED BY <1>1, <1>2, TunnelInvariant, PTL DEF Spec, ImplementsTunnelRequests, Requests!Spec

-----------------------------------------------------------------------------
(* Types and addresses *)

\* The inductive invariant of the lists and of the addresses.
AInv ==
  /\ ListsOK(tunnel, now)
  /\ spawned = [x \in Specs |-> spawned[x]]
  /\ now \in Nat

\* Every step keeps the lists well formed.
LEMMA NextPreservesAInv ==
  IInv /\ AInv /\ [Next]_vars => AInv'
<1> SUFFICES ASSUME IInv, AInv, [Next]_vars PROVE AInv'
  OBVIOUS
<1> USE DEF IInv, AInv
<1>1. ASSUME NEW o, Transition(o), ListsOK(o.state, now)
      PROVE  AInv'
  BY <1>1 DEF Transition
<1>2. CASE NodeReady
  BY <1>1, <1>2 DEF NodeReady, PhaseChangedReady, Out
<1>3. CASE ReservationAccepted
  BY <1>1, <1>3 DEF ReservationAccepted, RelayReservationAccepted, Out
<1>4. ASSUME NEW p \in Peers, NEW connected \in BOOLEAN, PeerLookedUp(p, connected)
      PROVE  AInv'
  BY <1>1, <1>4, LookupKeepsLists, Zenon DEF PeerLookedUp
<1>5. ASSUME NEW s \in Services, NEW providers \in Answers, ServiceResolved(s, providers)
      PROVE  AInv'
  <2> DEFINE R == [peer : Peers, connected : BOOLEAN]
  <2>1. PICK n \in 0..MaxProviders : providers \in [1..n -> R]
    BY DEF Answers
  <2>2. n \in Nat
    BY TunnelBounds
  <2> HIDE DEF R
  <2>3. providers \in Seq(R)
    BY <2>1, <2>2
  <2> USE DEF R
  <2> QED BY <1>1, <1>5, <2>3, ResolvedKeepsLists, Zenon DEF ServiceResolved
<1>6. ASSUME NEW s \in Services, ServiceLookupFailed(s)
      PROVE  AInv'
  BY <1>1, <1>6 DEF ServiceLookupFailed, DhtServiceFailed, Out
<1>7. ASSUME NEW p \in Peers, NEW aborted \in BOOLEAN, DialFailed(p, aborted)
      PROVE  AInv'
  <2>1. PICK asg \in RerouteChoices(tunnel, p) :
          Transition(TunnelDialFailed(tunnel, p, aborted, asg, now))
    BY <1>7, Zenon DEF DialFailed
  <2> QED BY <1>1, <2>1, DialFailedKeepsLists, Zenon
<1>8. ASSUME NEW p \in Peers, NEW listen_addrs \in SUBSET Addrs, Identified(p, listen_addrs)
      PROVE  AInv'
  BY <1>1, <1>8, IdentifiedKeepsLists, Zenon DEF Identified
<1>9. ASSUME NEW p \in Peers, NEW relayed \in BOOLEAN, Connected(p, relayed)
      PROVE  AInv'
  BY <1>1, <1>9, ConnectedKeepsLists, Zenon DEF Connected
<1>10. ASSUME NEW p \in Peers, NEW id \in 1..MaxAttemptId, AttemptStarted(p, id)
       PROVE  AInv'
  <2>1. id \in Nat
    BY TunnelBounds
  <2> QED BY <1>1, <1>10, <2>1, StartedKeepsLists, Zenon DEF AttemptStarted
<1>11. ASSUME NEW p \in Peers, NEW id \in 1..MaxAttemptId, AttemptFailed(p, id)
       PROVE  AInv'
  BY <1>1, <1>11, FailedKeepsLists, Zenon DEF AttemptFailed
<1>12. ASSUME NEW p \in Peers, LastConnectionLost(p)
       PROVE  AInv'
  BY <1>1, <1>12, LostKeepsLists, Zenon DEF LastConnectionLost
<1>13. CASE Tick
  <2>1. now' \in Nat /\ now <= now' /\ UNCHANGED <<tunnel, spawned>>
    BY <1>13 DEF Tick
  <2>2. ListsOK(tunnel, now')
    BY <2>1, ListsAge
  <2> QED BY <2>1, <2>2
<1>14. CASE UNCHANGED vars
  BY <1>14 DEF vars
<1> QED BY <1>2, <1>3, <1>4, <1>5, <1>6, <1>7, <1>8, <1>9, <1>10, <1>11, <1>12, <1>13, <1>14, Zenon
        DEF Next

\* The lists are well formed for good.
LEMMA AddressInvariant ==
  Spec => []AInv
<1>1. Init => AInv
  BY InitialLists DEF Init, AInv
<1> QED BY <1>1, NextPreservesAInv, TunnelInvariant, PTL DEF Spec

\* A list of one peer is a list of peers.
LEMMA OnePeer ==
  \A p \in Peers : <<p>> \in Seq(Peers)
  OBVIOUS

\* Every field of TunnelState holds what its type and its name say, under any
\* events: an address list never holds an address of the other class, neither the
\* oracle nor the snapshots of an attempt, and a provider list holds peers only.
THEOREM TypesAreKept ==
  Spec => []TypeOK
<1>1. ASSUME IInv, AInv PROVE TypeOK
  <2> USE <1>1 DEF IInv, AInv
  <2>1. tunnel.address_last_seen \in [Peers -> [Addrs -> Nat]]
    BY DEF ListsOK, PeerAddressesOK
  <2>2. tunnel.address_oracle \in [Peers -> [relay : Seq(RelayAddrs), direct : Seq(DirectAddrs)]]
    BY DEF ListsOK, PeerAddressesOK
  <2>3. tunnel.holepunch_sessions \in [Peers -> Sessions]
    <3>1. ASSUME NEW p \in Peers
          PROVE  tunnel.holepunch_sessions[p] \in Sessions
      <4> DEFINE s == tunnel.holepunch_sessions[p]
      <4>1. IsSession(s)
        BY DEF MachineOK, SessionsOK
      <4>2. /\ s.attempt_id \in Nat
            /\ s.relay_redial_addrs \in Seq(RelayAddrs)
            /\ s.direct_snapshot \in Seq(DirectAddrs)
        BY DEF ListsOK, PeerAddressesOK, ClassOK
      <4> HIDE DEF s
      <4>3. s \in Sessions
        BY <4>1, <4>2 DEF IsSession, Sessions
      <4> QED BY <4>3 DEF s
    <3> QED BY <3>1 DEF MachineOK, SessionsOK
  <2>4. spawned \in [Specs -> Seq(Peers)]
    <3>1. ASSUME NEW x \in Specs
          PROVE  spawned[x] \in Seq(Peers)
      <4> DEFINE l == PlaceIn(tunnel, spawned, x)
      <4>1. l \in Places /\ spawned[x] = IF l.stage = "open" THEN <<l.peer>> ELSE <<>>
        BY DEF Conserved, Located
      <4> HIDE DEF l
      <4>2. l.stage = "open" => l.peer \in Peers
        BY <4>1 DEF Places, At
      <4>3. CASE l.stage = "open"
        <5>1. spawned[x] = <<l.peer>> /\ l.peer \in Peers
          BY <4>1, <4>2, <4>3
        <5> QED BY <5>1, OnePeer, Zenon
      <4>4. CASE l.stage # "open"
        <5>1. spawned[x] = <<>>
          BY <4>1, <4>4
        <5> QED BY <5>1
      <4> QED BY <4>3, <4>4
    <3> QED BY <3>1
  <2>5. tunnel.service_provider_candidates \in [Services -> Seq(Peers)]
    BY DEF ListsOK
  <2> QED BY <2>1, <2>2, <2>3, <2>4, <2>5 DEF TypeOK, MachineOK
<1> QED BY <1>1, TunnelInvariant, AddressInvariant, PTL

\* The limit of prioritized_redial_addrs never cuts off a relayed address of the
\* running attempt, however addresses were announced and expired: the direct ones
\* in front of it never number more than MAX_DIRECT_CANDIDATES.
THEOREM RelayStaysReachable ==
  Spec => []RelayAddressesSurvive
<1>1. AInv => RelayAddressesSurvive
  BY RelayedAddressesAreDialled DEF AInv, ListsOK, RelayAddressesSurvive, HasSession
<1> QED BY <1>1, AddressInvariant, PTL
=============================================================================
