--------------------------- MODULE ConnectionSpec ---------------------------
(***************************************************************************)
(* ConnectionStateMachine driven by a swarm that dials, accepts, opens and *)
(* closes connections in any order, with attempts started and timing out   *)
(* at any moment.                                                          *)
(***************************************************************************)
EXTENDS ConnectionTracker, FiniteSets

CONSTANT MaxAttempts     \* bound: attempts per peer

ASSUME ConnectionBounds == MaxAttempts \in Nat

VARIABLES
  cs,      \* the ConnectionStateMachine value
  pool     \* external: what the swarm knows of every ConnectionId

vars == <<cs, pool>>

\* The stages of a connection: a dial, an open connection, its end.
Stages == {"unused", "dialing", "relayed", "direct", "gone"}

Open(p) == {c \in ConnIds : pool[c].peer = p /\ pool[c].stage \in {"relayed", "direct"}}

DirectOf(p) == {c \in Open(p) : pool[c].stage = "direct"}

Init ==
  /\ cs = NoConnections
  /\ pool = [c \in ConnIds |-> [peer |-> NoPeer, stage |-> "unused"]]

MoveTo(p, c, stage) == pool' = [pool EXCEPT ![c] = [peer |-> p, stage |-> stage]]

\* A dial of a swarm behaviour is announced by SwarmEvent::Dialing; one the
\* node asked for is not.
Dial(p, c, announced) ==
  /\ pool[c].stage = "unused"
  /\ MoveTo(p, c, "dialing")
  /\ cs' = IF announced THEN on_dialing(cs, p, c) ELSE cs

DialFails(p, c) ==
  /\ pool[c] = [peer |-> p, stage |-> "dialing"]
  /\ MoveTo(p, c, "gone")
  /\ cs' = on_outgoing_connection_error(cs, c)

\* A dial comes through, or the peer connects.
MayEstablish(p, c) == pool[c].stage = "unused" \/ pool[c] = [peer |-> p, stage |-> "dialing"]

\* SwarmEvent::ConnectionEstablished with a relayed endpoint.
EstablishRelayed(p, c) ==
  /\ MayEstablish(p, c)
  /\ MoveTo(p, c, "relayed")
  /\ cs' = on_relayed_established(cs, p, c)

\* SwarmEvent::ConnectionEstablished with a direct endpoint.
EstablishDirect(p, c) ==
  /\ MayEstablish(p, c)
  /\ MoveTo(p, c, "direct")
  /\ cs' = on_direct_established(cs, p, c)

\* SwarmEvent::ConnectionClosed.  num_established may be a stale 0.
Close(p, c, stale) ==
  /\ c \in Open(p)
  /\ MoveTo(p, c, "gone")
  /\ cs' = on_connection_closed(cs, p, c,
             IF stale THEN 0 ELSE Cardinality(Open(p) \ {c}))

StartAttempt(p) ==
  /\ MayStartAttempt(cs, p)
  /\ cs.hole_punch_attempt_seq[p] < MaxAttempts
  /\ cs' = start_hole_punch_attempt(cs, p)
  /\ UNCHANGED pool

TimeoutsDue(due) ==
  /\ due # {}
  /\ \A p \in due : cs.hole_punch_deadlines[p] # 0
  /\ cs' = take_due_hole_punch_timeouts(cs, due)
  /\ UNCHANGED pool

Next ==
  \/ \E p \in Peers, c \in ConnIds :
       \/ \E announced \in BOOLEAN : Dial(p, c, announced)
       \/ DialFails(p, c)
       \/ EstablishRelayed(p, c)
       \/ EstablishDirect(p, c)
       \/ \E stale \in BOOLEAN : Close(p, c, stale)
  \/ \E p \in Peers : StartAttempt(p)
  \/ \E due \in SUBSET Peers : TimeoutsDue(due)

Spec == Init /\ [][Next]_vars

-----------------------------------------------------------------------------
(* Properties *)

\* Every field holds what its Rust type says.
TypeOK ==
  /\ cs \in TrackerStates
  /\ pool \in [ConnIds -> [peer : Peers \cup {NoPeer}, stage : Stages]]

\* A deadline always belongs to the running attempt, and an attempt never
\* outlives the first direct connection: a timeout cannot hit a peer whose
\* upgrade succeeded, or an attempt that replaced the one it was armed for.
DeadlinesAreCurrent ==
  \A p \in Peers :
    /\ cs.hole_punch_deadlines[p] \in {0, cs.hole_punch_attempts[p]}
    /\ cs.hole_punch_attempts[p] # 0 => cs.direct_connections[p] = {}
    /\ cs.hole_punch_attempts[p] <= cs.hole_punch_attempt_seq[p]

\* A tracked dial is in flight and belongs to the running attempt of its peer,
\* so a late failure is never counted to another attempt (the code's
\* StaleTracked answer cannot occur) and no entry outlives its dial.
TrackedDialsAreCurrent ==
  \A c \in ConnIds :
    LET dial == cs.pending_hole_punch_dials[c]
    IN  dial # NoDial =>
          /\ dial.peer \in Peers
          /\ dial.attempt # 0
          /\ pool[c] = [peer |-> dial.peer, stage |-> "dialing"]
          /\ cs.hole_punch_attempts[dial.peer] = dial.attempt

\* The tracker agrees with the swarm: its direct connections are exactly the
\* open ones, and what it tracks as relayed is open and relayed, whatever
\* num_established says when a connection closes.
TrackerAgreesWithSwarm ==
  \A p \in Peers :
    /\ cs.direct_connections[p] = DirectOf(p)
    /\ cs.relayed_connections[p] \subseteq Open(p) \ DirectOf(p)

\* What a step may do to attempt ids.
FreshIds ==
  \A p \in Peers :
    /\ cs'.hole_punch_attempt_seq[p] >= cs.hole_punch_attempt_seq[p]
    /\ cs'.hole_punch_attempts[p] \notin {0, cs.hole_punch_attempts[p]}
         => cs'.hole_punch_attempts[p] > cs.hole_punch_attempt_seq[p]

\* A new attempt has an id its peer never had before, and the last id is never
\* forgotten (hole_punch_attempt_seq survives a disconnect): an event of an
\* earlier attempt cannot match a later one.
AttemptIdsAreFresh == [][FreshIds]_vars
=============================================================================
