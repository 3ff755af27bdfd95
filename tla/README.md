# Punchgate in TLA+

Punchgate is a peer-to-peer NAT-traversing tunnel daemon (`src/src`, Rust on
libp2p). A node joins a Kademlia overlay through bootstrap peers, publishes the
services it exposes, and opens the tunnels its user asked for: it finds the
target peer, connects over a relay, tries to upgrade to a direct connection
(DCUtR hole punching), reconnects and tries again a bounded number of times,
and otherwise tunnels over the relay.

The decisions are taken by two pure Mealy machines (`PeerState`, `TunnelState`)
and a connection tracker, glued together by one asynchronous event loop. The
modules here model those, the loop that couples them, and as much of the swarm
as they can see.

## Inventory

| Part | Source | State | Operations | Hard part | In |
|---|---|---|---|---|---|
| Tunnel machine | `state/tunnel.rs` | requests per peer, per service and waiting for a direct path; provider lists; relayed peers; retry counts; hole-punch sessions; address sightings | one transition per event | requests move between maps in any order of events; retries and fallback | `TunnelMachine`, `AddressOracle`, `TunnelSpec`, `TunnelRequests` |
| Connection tracker | `node/connection_state.rs` | relayed and direct connections, attempts, deadlines, tracked dials | opened, closed, dialling, dial error, start, due | stale counts, late failures | `ConnectionTracker`, `ConnectionSpec` |
| Event loop | `node/mod.rs` | all of the above, timers, registry | one iteration per swarm event or timer | the two machines see the same events at different moments | `NodeLoop` (tunnel targets), `BootstrapLoop` (bootstrap peers) |
| Executor | `node/execute.rs` | open queries | commands to the swarm | dials that are skipped, aborted or refused | `NodeLoop`, `BootstrapLoop` |
| Translator | `node/translate.rs` | none | swarm events to domain events | order of providers, stale queries | `NodeLoop`, `BootstrapLoop` |
| App bridge | `state/app.rs` | none | raises PhaseChanged | order of bridge and event | `NodeLoop` (as BecomeReady) |
| Peer machine | `state/peer.rs` | phase, NAT status, reservation, known peers, external addresses | one transition per event | regress to Joining, reservation at one of several relays | `PeerMachine` |
| Bootstrap reconnect | `node/backoff.rs`, `node/mod.rs` | delays, timers | schedule, reset | a bootstrap peer without connection, dial or timer | `BootstrapLoop` |
| External addresses | `node/mod.rs`, `external_addr.rs` | confirmed and observed address per IP | confirm, expire, observe | two sources replace each other's address | `ExternalAddresses`, `AddressDiscovery` |
| NAT probe | `nat_probe.rs` | answers so far | ask, receive, time out, classify | an answer read in the place of another | `NatProbe` |
| Port mapping | `port_mapping.rs` | two probes | probe, fail, time out, finish | the losing probe is dropped half-way | `PortMapping` |
| Tunnel data plane | `tunnel.rs` | tunnel tasks, sessions, handlers, registry | bind, accept, handshake, bridge, shutdown | a failing stream ends the listener; shutdown at any point | `TunnelPlane` |
| CLI, identity, specs | `main.rs`, `identity.rs`, `specs.rs`, ... | none over time | parsing, files | | left out |

The parts interact as follows. The swarm yields an event; the loop first feeds
the tracker, derives synthetic events from its answer (attempt started,
connection lost), translates the swarm event, and feeds all events one by one
to the application state, which runs `PeerState`, then `TunnelState` (with
`PhaseChanged` first if the phase moved). After every event the returned
commands are executed against the swarm and hole-punch attempts are armed for
all wanted relayed peers. Two timers are served by arms of the same `select!`.
There is one thread of control: the concurrency is between the node, the swarm
behaviours that dial and close on their own, the peers, the DHT and the timers.

## Modules

* `Overlay` - peers.
* `AddressOracle` - sightings of a peer's addresses, freshness (45 s), the
  candidate lists (at most 8 direct, 4 relayed) and the ranked redial list (at
  most 12), as pure operators. Addresses are numbers in the order in which
  their texts are sorted, in three classes. Sorting is by rank, how many come
  no later, and removing duplicates by first occurrence: definitions without a fold,
  which can be argued about. `LimitAssumption` says that both classes fit a redial
  (tunnel.rs:54-56: 8 + 4 = 12).
* `TunnelMachine` - `TunnelState` as a record `t` and one operator per event,
  returning state and commands. A `HashMap` without empty entries is a total
  function. The order of requests within one `Vec` matters only when a dial
  failure hands fallback providers out one by one; there it is a choice.
* `TunnelSpec` - the machine alone, fed with any event at any time.
* `TunnelRequests` - the abstract specification of the machine: a request is
  searching for a provider, pending at a peer, held until a direct path is found,
  or open for good, and moves only with the requests at the same place. The
  refinement mapping (`PlaceOf` in `TunnelSpec`) reads the place off the three
  maps and the `SpawnTunnel` commands returned so far; that of `NodeLoop` reads it
  off the maps and what the executor opened.
* `ConnectionTracker` - `ConnectionStateMachine` as a record `cs` and one
  operator per method. A deadline is the id of its attempt.
* `ConnectionSpec` - the tracker driven by a swarm that dials, opens and closes
  in any order and may report a stale number of connections.
* `NodeLoop` - `TunnelMachine` and `ConnectionTracker` coupled by the event
  loop and the executor, over an external pool of dials and connections. An
  action is one iteration of the loop. A target in `BootstrapPeers` is dialled at
  start and by its reconnect timer; the translator raises no `TunnelDialFailed`
  for it. The constant `Faults`
  says what the environment may do in a run: fail dials, refuse them at once,
  dial through another behaviour, connect to the node, produce direct
  connections, break connections. `spent` is a history variable: the last attempt
  of each peer that the code left behind, active in the tracker with nothing in
  the node that would end it (see Disagreements).
* `PeerMachine` - `PeerState` as a record and one operator per event, returning
  the new state and the alternatives for its commands (the code takes the first
  entry of a hash map: any entry may be it). An address is known by its public
  IP, or as loopback.
* `BootstrapLoop` - `PeerMachine` in the event loop: bootstrap connections and
  dials, reconnect timers with growing delays, bootstrap queries (the node's
  and Kademlia's own), the discovery timeout, relay listeners, shutdown. The
  swarm is counts per peer. `outdated` is a history variable: the queries that
  were running when the node last fell back to Joining. A relay listener lives on
  one of the connections to its relay (`HeldByConnection`); `orphaned` are those
  whose connection is gone and whose close is not reported yet. A listener may close
  with an error, which raises `RelayReservationFailed`, or with `Ok(())`, which
  raises nothing (translate.rs:62). `unreported` is a history variable: the relays
  at which a reservation ended in that silent way, with another connection open.
* `TunnelPlane` - from `SpawnTunnel` to the bridge: the tunnel task binds, accepts
  one client after the other, opens a stream for each (awaited in the loop) and
  hands both to a session task; the remote node answers each stream in a task of
  its own. A stream carries one request and one reply, each with the size
  `read_message` limits. A client is used once and names its session, stream and
  handler. Shutdown leaves the loop, aborts the registered tasks one by one, waits
  five seconds at most for each, and ends the process with what still runs. An aborted
  task ends when its poll does: with the fault `long_poll` that may be after the wait
  for it (`timed_out`), and until then it may still bind or accept.
* `ExternalAddresses` - the loop's maps of confirmed and observed addresses as
  pure operators on a record that includes the swarm's set of external addresses.
* `NatProbe` - the STUN exchange, actions on variables of its own; the network
  loses, delays and duplicates answers.
* `PortMapping` - the task with its two probes; `gateway` is what the gateway
  really forwards, also for a probe that was dropped.
* `AddressDiscovery` - the three composed: probe first, then the loop, in which
  every swarm event also takes the result of a finished mapping task (before
  identifies are handled, after confirmations are).
* `ConnectionSpecProofs`, `TunnelSpecProofs`, `NodeLoopProofs`, `TunnelPlaneProofs`,
  `AddressDiscoveryProofs`, `BootstrapLoopProofs` - the theorems about the
  module each is named after, see Proofs. `ConnectionTrackerProofs` and
  `TunnelMachineProofs` hold the lemmas about the operators of the tracker and the
  tunnel machine that the specifications of both (alone, and in the loop) share.
* `MC...` - instances for TLC.

What is abstracted: texts of errors (only "the dial was aborted" is told
apart), log output, service names and bind addresses (a request is one value),
the clock (bounded in `TunnelSpec`; in `NodeLoop` no address expires and a
deadline may fire at any time after it was set), ids of DHT queries (counts of
open queries per key). `Swarm` behaviour is external: `disconnect_peer_id`
starts to close every connection of a peer and aborts its dials, closes and
aborts are reported later and in any order, `PeerCondition::NotDialing`
refuses a dial while another one, even an aborted one not yet reported, is
pending, `Dialing` is announced for dials of behaviours only.

Definitions called `Bug...` are plausible mistakes in the definition that
follows them. No specification uses them; they show that the properties can
fail.

## Runs

| Run | Asks | Bounds |
|---|---|---|
| `intents` | no request lost or opened twice, retry state owned by waiting requests, relay only after the retries, the refinement | two peers, two requests of one service (by peer, by name), one retry, answers of up to two providers |
| `addresses` | redial list keeps the relay, snapshots never emptied, classes of addresses | five addresses of two classes, limits 2 + 1 = 3 as tight as the code's 8 + 4 = 12, three clock values with a lifetime of one |
| `tracker` | deadlines, dials, connections and attempt ids of the tracker | two peers, five connections, two attempts each |
| `races` | sessions match attempts, registry and relayed peers match connections, tunnels open on the right path, waiting requests are punched for or wait on an attempt that was left behind | one peer, three slots, three attempts, all faults |
| `reroute` | pending requests have a query, a lookup, a dial or a reconnect timer; the loop implements `TunnelRequests` | two peers, one of them a bootstrap peer, three slots, failing dials, breaking connections |
| `live` | everybody is served in the end | two peers with a request each, the code's three reconnects |
| `reconnect` | bootstrap peers are connected, dialled or timed; timers and delays end with a connection; known peers are the connected ones; a reservation the node counts on exists or ended unreported; only a fresh query bootstraps a node again | two bootstrap peers, two connections and two dials each, one listener per stage, two queries, delays 1 to 3, so that doubling meets the cap |
| `join` | the node joins, again after every loss, and gets a reservation while it is private; an identify replaces the old port of a public IP | one bootstrap peer, two ports of one IP, two queries (the node's and one of Kademlia's own beside it), failing dials, breaking connections, denied and lost reservations, mDNS, expiry |
| `plane` | bytes go to the named service, the shutdown reaches every task, no client hangs | two tunnels (one for exposed services, one for the others), two clients, services whose names are short, at the limit and above it, every fault |
| `discovery` | the NAT verdict is right, no stale address, one of the addresses known last and every reservation advertised, public means mapped | two STUN servers as in the code, three ports of one IP, one circuit, one private address, one bootstrap peer and one other |
| `second_request`, `inbound_wedge` | disagreements, see below | smallest instance that shows each |

`intents` also checks the refinement: `ImplementsTunnelRequests` is
`TunnelRequests!Spec` under the mapping, a step-by-step statement about how
requests move, where `IntentConservation` is about single states. `reroute` checks
the same of the whole loop (`LoopImplementsTunnelRequests`), where a request counts
as open when the executor spawned its tunnel: an iteration may begin an attempt,
process an event, execute its commands and arm more attempts, and is still one step
of `TunnelRequests` or none.

Why these bounds: requests interact only when they share a peer or a service,
so two requests, one of each kind, over two peers give every sharing; one
retry tells "budget left" from "exhausted"; three connection slots allow an old
connection closing, a new one and a dial at the same time; two clients of one
tunnel queue behind each other and two tunnels are independent; one IP with three
ports has one for each source of addresses. Attempts, queries
and phase changes are capped in the guards (`MaxAttempts`, `MaxQueries`,
`MaxPhaseChanges`, `MaxClock`, `MaxAttemptId`, `MaxProviders`, and in
`BootstrapLoop` `MaxConns`, `MaxDials`, `MaxListeners`, `MaxIdentify` and the
number of query ids; in `TunnelPlane` `MayAskFor` and the clients); a run may stop
at a cap, hence `CHECK_DEADLOCK FALSE` in the runs that have one. `live` sets
`MaxAttempts` above what three reconnects use, so no behaviour ends at it.

Fairness (`Fairness` in `NodeLoop`): the loop polls for ever and an event that
stays available is handled: the node becomes ready, queries end (Kademlia times
them out), dials end (the transport times them out), asked-for closes and
aborts are reported, deadlines and timers fire. Nothing is assumed of DCUtR, of incoming
connections and of other behaviours' dials.

Fairness in `BootstrapLoop`: timers fire, dials and queries end, for the same
reasons. Joining also depends on the environment, so the run `join` assumes that
a bootstrap peer that is dialled again and again answers at some time, that its
connections at some time last long enough for an identify, a bootstrap query
and a reservation that are begun again and again, that an address of the node
is observed, and that relays renew what they granted. Without the second of
these a node whose connections always break before the query ends stays in
Joining, since every reconnect replaces the active query. `join` leaves out failing and
refused queries (a failed bootstrap is not repeated before the next bootstrap
connection) and refused dials, which `reconnect` has, and has one connection per
relay, since `RelayIsReserved` is about the flag, which an unreported end leaves set. Of
identifies, fairness is about those with an address. Nothing is assumed of the order
in which closed listeners are reported. `reconnect` uses the symmetry of bootstrap
peers and of query ids; `join`, a liveness run, uses none.

Fairness in `TunnelPlane`: every task is polled when it can go on, libp2p ends
an `open_stream` as long as the loop runs, a TCP connect ends, and `shutdown_all`
waits a bounded time, and the poll of an aborted task ends. Nothing is assumed of local programs, of running bridges
and of the user who stops the node, so `ClientsAreServed` holds also when the
loop stops while a stream is being opened: then the abort closes the client.

Two behaviours that `join` accepts are worth knowing: a node that lost its last
peer becomes ready again as soon as the query it started then ends, with or
without a connection; and a reservation that is denied raises no event, so only
the next identify asks for another.

### Disagreements shown

* `second_request` - after a fallback the tracker keeps the finished attempt,
  so a later request for the same relayed peer gets neither session nor
  deadline and waits for ever. README.md:107 promises the fallback.
* `inbound_wedge` - the peer reconnects while a retry waits for the disconnect:
  the awaited "no connection left" never comes.

In each of them the request is stuck until the peer's connection is lost or
another direct one opens. For a bootstrap peer the second one needs no doing of
the peer: the node's reconnect timer dials beside the redial of the retry. `live`
therefore has targets that are no bootstrap peers.

Three more orders of events strand a request and have no run of their own: the
second failure of a retry dial is suppressed "while hole-punch retry dial is
already scheduled" (tunnel.rs:638) when none is; a redial is skipped because of a
dial the disconnect has just aborted (execute.rs:94); a relayed connection that
opens after a direct one (tunnel.rs:682) makes later requests wait beside the
direct path.

One more disagreement has no run of its own. AutoNAT confirms the address that a
bootstrap peer saw, then another port: the loop withdraws the first (mod.rs:462), and
as its map still holds it, a repeated observation does not advertise it again
(mod.rs:601). The comment at mod.rs:573 calls observations of bootstrap peers
authoritative; they are not. `LatestAddressIsAdvertised`, which `discovery` checks,
covers this case and says what is true in it: while the address observed last is
missing, the one confirmed last is advertised.

Some properties are weaker than a reader may expect, and say what the code does.

* `WaitersArePunchedFor`: a request over a relayed connection may wait on an attempt
  that was left behind, in three ways that the property names: the relay fallback
  (`second_request`); a deadline that passed while nobody waited at the peer, which
  takes two peers, so `races` does not reach it and the theorem covers it; and the
  loss of the last tracked connection while the swarm still counts one that is being
  closed (connection_state.rs:173). `races` fails when the first or the third is
  taken out of `spent`.
* `ReservedFlagHasReason`: when a reservation ends with one of several connections to
  its relay, its listener closes with `Ok(())`, no connection is the last one, and
  `relay_reserved` stays set with no reservation. That is the only way.
* `ShutdownReachesEveryTask`: a task whose poll outlasts the five seconds is still
  there when `shutdown_all` returns, and may listen until the process ends.
* `TunnelsOpenOnTheRightPath` says nothing of a connection that is being closed: a
  tunnel opened over one is lost with it.
* `ReservationsAreAdvertised`: two addresses that share the IP of a relay replace each
  other.
* `ClientsAreServed` is about clients that got through: the listener of a tunnel whose
  task ended is not opened again.

## Proofs

Each module `...Proofs` proves, for every value of the constants of its
component, what the runs check on small instances. Every proof has the same
shape: an inductive invariant `IInv`, which TLC checked on the instances of the
runs before it was proved; one lemma that `Init` establishes it; lemmas
(`...Facts`) that say what each operator of the model does; one lemma per action;
and theorems whose last step is temporal. All assumptions on constants are the
named `ASSUME`s of the modules, which TLC evaluates in every run.

`ConnectionSpecProofs` (peers, connections, number of attempts are arbitrary):

* `TypeCorrect` - `Spec => []TypeOK`, which no run needs to check any more;
* `DeadlinesStayCurrent`, `TrackedDialsStayCurrent`, `TrackerStaysInAgreement`
  - the three safety invariants;
* `AttemptIdsStayFresh` - the action property that attempt ids are never reused.

`IInv` is the types and the three invariants together, and nothing more. They
need each other: that a tracked dial belongs to the running attempt survives the
start of an attempt only because no dial is tracked without an attempt; that no
attempt runs beside a direct connection needs that start is refused unless the
tracker's (and so the swarm's) direct connections are empty.

`TunnelSpecProofs` (peers, services, requests, retry limit; events in any order):

* `RequestsAreConserved` - `IntentConservation`;
* `RetriesAreOwned` - `RetryStateIsOwned`;
* `DirectPathComesFirst`, `SnapshotsAreKept` - the action properties
  `DirectPathPreferred` and `SnapshotsNeverEmptied`;
* `TunnelsImplementRequests` - the refinement, `Spec => Requests!Spec`;
* `TypesAreKept` - `TypeOK`, the classes of all address lists included;
* `RelayStaysReachable` - `RelayAddressesSurvive`, for any limits with room for both
  classes.

`IInv` is `MachineOK` (types of the fields the proof is about), `Conserved` (every
request is at the place `PlaceIn` computes, and nowhere else) and `Owned`. The
argument has two layers. One lemma per event says which of a few effects it has
on the requests: they stay, all that are pending at a peer become held, those of a
peer that is lost become pending again, some are opened, those of a service find
a provider, those of a failed dial are given up to other providers. One lemma per
effect then says where every request is afterwards, and that this is a step of
`TunnelRequests` (`EffectIsRequestStep`). Invariant, action properties and refinement
all follow from the effects, without another look at the events. Both layers are in
`TunnelMachineProofs`, stated of a machine `t` and its outcome `o`, not of variables.

The two theorems about addresses need an invariant of their own, `AInv`. A redial list
is direct snapshot, direct oracle, direct sightings, then the same of the relay, cut
at 12; no bound on the single lists keeps the direct ones from filling it. `AInv` says
why they do not: the oracle of a peer is what was fresh at some earlier time, sorted
and cut, and the snapshot of a running attempt is the oracle, unless that is empty.
Sightings can only have expired since, the oldest first, so what is fresh now was in
the oracle (`CandidatesOnlyExpire`); the three direct lists together hold at most
`MAX_DIRECT_CANDIDATES` addresses and, without duplicates, leave room for the relay.
`RankFacts`, `CandidateFacts` and `DedupFacts` say what sorting, cutting and removing
duplicates return. The one thing they need induction for, that ranks and first
occurrences number a finite set without gaps, is shown with a least counterexample
among the natural numbers (`LeastElement`, from `WFMin` of WellFoundedInduction), since
induction over an operator is out of the provers' reach.

`TunnelPlaneProofs` (tunnels, clients, services, sizes, faults): `TypeCorrect`,
`BridgesAreFaithful` (`BridgedToTheService`) and `ShutdownReaches`
(`ShutdownReachesEveryTask`). A bridge depends on the other side of its stream: in
`IInv`, `StreamsAreFaithful` follows a stream from the request to the bridge (who
says that the service is connected - handler, reply or session - is right), and
`TasksAreRegistered` a task from its spawning to its end: while it runs it is in the
registry or was aborted and timed out.

`AddressDiscoveryProofs` (addresses, IPs, peers, STUN servers): `TypeCorrect`,
`ProbeIsRight` (`VerdictIsRight`), `AddressesAreFresh` (`NoStaleAddress`),
`RelayAddressesAreAdvertised` (`ReservationsAreAdvertised`), `PublicIsTrue`
(`PublicMeansMapped`) and `LatestIsAdvertised` (`LatestAddressIsAdvertised`). `IInv` adds to the invariants which servers the results
of the probe came from, where the mapping task and its two probes stand, and that
both books are keyed by the IP of what they hold. The books are argued about apart
from the loop, one lemma per operator of `ExternalAddresses`.

`BootstrapLoopProofs` (peers, addresses, queries, faults, back-off):
`BootstrapIsDriven` (`BootstrapPeersAreDriven`), `ReconnectIsReset`
(`ReconnectStateIsReset`), `KnownAreConnected` (`KnownPeersAreConnected`),
`ReservationsHaveReasons` (`ReservedFlagHasReason`), the action property
`FreshQueryBootstraps` (`BootstrappedByFreshQuery`), `TypesAreKept` (`TypeOK`) and
`IdentifyForgetsStale` (`IdentifyReplacesStale`). `IInv` is the four invariants
with the types of the peer state, of the loop's counters and of the queries, and
that the active query was begun after the node last fell back to Joining. The types
of the addresses are a second invariant, `TInv`. What an identify makes known is a
fold over its listen addresses (peer.rs:214-224); `FoldExists` shows that the fold has
the values its step function gives it, `LearntAddresses` follows it along a list of
any length: after the first `n` addresses, each public IP among them stands for the last
one announced with it. Both go by least counterexample (`UpTo`). The invariant itself
looks at lists of up to two addresses, as TLC must enumerate them.

`NodeLoopProofs` (peers, services, requests, connections, bootstrap peers, faults and
all bounds; the peers are assumed to be finitely many, as any answer of the DHT is):

* `SessionsFollow` - `SessionsFollowAttempts`;
* `RegistryIsRight` - `RegistryMatchesConnections`;
* `RelayedAreConnected` - `RelayedPeersAreConnected`;
* `OpenedOnTheRightPath` - `TunnelsOpenOnTheRightPath`;
* `WaitersArePunching` - `WaitersArePunchedFor`;
* `ServicesAreDriven`, `PeersAreDriven` - `ServiceRequestsAreDriven` and
  `PeerRequestsAreDriven`;
* `LoopImplementsRequests` - the refinement, `Spec => Requests!Spec` of the loop.

The first seven rest on one inductive invariant. `Coupled` is how the two machines and the
swarm agree: the tracker knows the direct connections exactly and the relayed ones
that nobody closes, `relayed_peers` lies between the relayed and the tracked peers,
whoever is punching is connected and in the attempt the tracker runs, and retries
have an owner. `LooksUp` says that requests pending for a connected peer are being
looked up: without it a request whose connection is lost, or whose hole punch falls
back to the relay beside it, would have nothing that drives it. `ProcessPreservesIInv`
treats executing commands and arming once for all events; it asks that the outcome of
an event is `Fit` (opens on connected peers and only when allowed, keeps looking up,
searching and driving, on the swarm it is executed on) and `Coupled`. For the events
about one peer - connections that open or are gone, dials that fail - `EventAboutOne`
reduces both to that peer.

`WaitersArePunching` adds `AInv`, inductive on top of `IInv`. `IInv` says that whoever waits
over a relayed connection has an attempt in the tracker, which is what arming sees to;
`AInv` says of what kind: an attempt in the tracker has a punching session and its
deadline, or a session that waits for its redial, or is the one in `spent`; a deadline
belongs to the running attempt; and a peer with a direct connection has no attempt.

The refinement adds `CInv`: every request is at one place, where opened is what the
executor recorded. That record forgets all but the last opening of a request, so it is
the history the tunnel machine's proof speaks of only because no request is opened
twice (`ExecuteOpens`, from `EffectConserves`). Beginning and arming attempts move no
request (`ArmMovesNothing`), and the rest is `EffectIsRequestStep` of the tunnel machine.

The proof corrected a property. `PeerRequestsAreDriven` used to say that a request
pending for a peer always has a lookup, a dial or a reconnect timer. Of a bootstrap
peer that is false, on instances just larger than those of the runs (four
connections): a direct connection makes the loop close the relayed one; a second
relayed connection comes up and a request is held for it; both break while the
first is still being closed, and the redial fails. The error handler sets no timer,
since the swarm still counts the peer as connected (mod.rs:444), and the tunnel machine
is not told of failed dials of bootstrap peers (translate.rs:87). The timer is set
when the close is reported; until then that close is all that drives the request, and
the property now says so. It is also restricted to swarms that refuse no dial at once,
since the errors of `swarm.dial` are only logged (execute.rs:100).

Only model-checked, and why:

* all liveness (`JoinsTheOverlay`, `RelayIsReserved`, `FallsBackToRelay`,
  `RequestsAreOpened`, `ClientsAreServed`): fairness is out of the prover's reach;
* the refusal of dials (`no_addresses`) is left out of `PeerRequestsAreDriven`, see
  the hazard at execute.rs:100.

## Not modelled

* Command line, service installation, key files, newtypes and the parsing of
  specs and addresses (`main.rs`, `identity.rs`, `specs.rs`, `types.rs`): no state
  over time.
* The configuration of the libp2p behaviours (`behaviour.rs`, `protocol.rs`), and
  libp2p, Kademlia, AutoNAT, DCUtR and the relay themselves: external, modelled by
  what the loop sees of them.
* The product of `PeerMachine` and `TunnelMachine` in one loop: they share the
  phase only, which `NodeLoop` sees as `BecomeReady`; the product of `NodeLoop` and
  `BootstrapLoop` is too large for TLC.
* The bytes of a bridge, the encoding of STUN, UPnP and NAT-PMP messages, the
  lifetime of a port mapping (the code never renews one), and what only reaches
  the log (`nat_type_summary` and the ports it counts, dial counters, error texts).

## Plan

Every safety invariant, every action property and both refinements of the runs have a
theorem; liveness is model-checked. What could be added: one module for the product of
`NodeLoop` and `BootstrapLoop`, whose safety could be proved from the two invariants
although TLC cannot explore it; and, should the code come to tell the tunnel machine of
refused dials (execute.rs:100) or to release finished attempts (tunnel.rs:476),
`PeerRequestsAreDriven` and `FallsBackToRelay` without their restrictions.
