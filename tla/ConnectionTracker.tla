------------------------- MODULE ConnectionTracker -------------------------
(***************************************************************************)
(* ConnectionStateMachine (src/src/node/connection_state.rs): which        *)
(* connections of a peer are relayed and which direct, and the bookkeeping *)
(* of its hole-punch attempt.  One operator per method, on the record cs.  *)
(* Maps whose entries are never empty are total functions (absent: {}, 0,  *)
(* NoDial).  A deadline is the id of the attempt it belongs to; when it    *)
(* falls due is the caller's choice.  Dial counters and error texts only   *)
(* reach the log and are left out.                                         *)
(***************************************************************************)
EXTENDS Overlay, Naturals

CONSTANT ConnIds     \* ConnectionId: unique per connection or dial

NoDial == [peer |-> NoPeer, attempt |-> 0]

NoConnections ==
  [relayed_connections |-> [p \in Peers |-> {}],
   direct_connections |-> [p \in Peers |-> {}],
   hole_punch_deadlines |-> [p \in Peers |-> 0],
   hole_punch_attempts |-> [p \in Peers |-> 0],
   hole_punch_attempt_seq |-> [p \in Peers |-> 0],
   pending_hole_punch_dials |-> [c \in ConnIds |-> NoDial]]

\* What the fields may hold.
Dials == [peer : Peers \cup {NoPeer}, attempt : Nat]

TrackerStates ==
  [relayed_connections : [Peers -> SUBSET ConnIds],
   direct_connections : [Peers -> SUBSET ConnIds],
   hole_punch_deadlines : [Peers -> Nat],
   hole_punch_attempts : [Peers -> Nat],
   hole_punch_attempt_seq : [Peers -> Nat],
   pending_hole_punch_dials : [ConnIds -> Dials]]

has_relayed_connection(cs, p) == cs.relayed_connections[p] # {}

has_direct_connection(cs, p) == cs.direct_connections[p] # {}

peer_is_relay_only(cs, p) == has_relayed_connection(cs, p) /\ ~has_direct_connection(cs, p)

\* The number of tracked connections is 0.
Untracked(cs, p) == ~has_relayed_connection(cs, p) /\ ~has_direct_connection(cs, p)

\* A mutation of complete_hole_punch_attempt: the deadline stays armed.
BugKeepDeadline(cs, p) ==
  [cs EXCEPT
     !.hole_punch_attempts[p] = 0,
     !.pending_hole_punch_dials =
        [c \in ConnIds |-> IF @[c].peer = p THEN NoDial ELSE @[c]]]

complete_hole_punch_attempt(cs, p) ==
  [cs EXCEPT
     !.hole_punch_attempts[p] = 0,
     !.hole_punch_deadlines[p] = 0,
     !.pending_hole_punch_dials =
        [c \in ConnIds |-> IF @[c].peer = p THEN NoDial ELSE @[c]]]

\* on_connection_established for a relayed and for a direct connection.  The
\* relayed connections to close are those that stop being tracked.
on_relayed_established(cs, p, c) ==
  [cs EXCEPT !.pending_hole_punch_dials[c] = NoDial,
             !.relayed_connections[p] = @ \cup {c}]

on_direct_established(cs, p, c) ==
  complete_hole_punch_attempt(
    [cs EXCEPT !.pending_hole_punch_dials[c] = NoDial,
               !.direct_connections[p] = @ \cup {c},
               !.relayed_connections[p] = {}], p)

MayStartAttempt(cs, p) == peer_is_relay_only(cs, p) /\ cs.hole_punch_attempts[p] = 0

\* A mutation of start_hole_punch_attempt: ids are not counted on.
BugReuseAttemptId(cs, p) ==
  [cs EXCEPT !.hole_punch_attempt_seq[p] = 1,
             !.hole_punch_attempts[p] = 1,
             !.hole_punch_deadlines[p] = 1]

\* A mutation of start_hole_punch_attempt: no deadline is set.
BugNoDeadline(cs, p) ==
  [cs EXCEPT !.hole_punch_attempt_seq[p] = @ + 1,
             !.hole_punch_attempts[p] = cs.hole_punch_attempt_seq[p] + 1]

\* Guarded by MayStartAttempt; the new id is hole_punch_attempts[p].
start_hole_punch_attempt(cs, p) ==
  LET id == cs.hole_punch_attempt_seq[p] + 1
  IN  [cs EXCEPT !.hole_punch_attempt_seq[p] = id,
                 !.hole_punch_attempts[p] = id,
                 !.hole_punch_deadlines[p] = id]

\* The connection is forgotten before the peer is judged disconnected.
ForgetConnection(cs, p, c) ==
  [cs EXCEPT !.pending_hole_punch_dials[c] = NoDial,
             !.relayed_connections[p] = @ \ {c},
             !.direct_connections[p] = @ \ {c}]

peer_fully_disconnected(cs, p, c, num_established) ==
  num_established = 0 /\ Untracked(ForgetConnection(cs, p, c), p)

\* A mutation of on_connection_closed: num_established is believed although
\* connections are still tracked.
BugTrustCount(cs, p, c, num_established) ==
  IF num_established = 0
  THEN [complete_hole_punch_attempt(ForgetConnection(cs, p, c), p) EXCEPT
          !.relayed_connections[p] = {}, !.direct_connections[p] = {}]
  ELSE ForgetConnection(cs, p, c)

on_connection_closed(cs, p, c, num_established) ==
  IF peer_fully_disconnected(cs, p, c, num_established)
  THEN complete_hole_punch_attempt(ForgetConnection(cs, p, c), p)
  ELSE ForgetConnection(cs, p, c)

\* A mutation of clear_direct_registry: only the last connection counts.
BugClearLate(cs, p, c, num_established) ==
  peer_fully_disconnected(cs, p, c, num_established)

\* The caller removes p from the registry of direct peers.
clear_direct_registry(cs, p, c, num_established) ==
  \/ has_direct_connection(cs, p) /\ cs.direct_connections[p] \subseteq {c}
  \/ peer_fully_disconnected(cs, p, c, num_established)

\* A dial during a relay-only attempt is counted to that attempt.
on_dialing(cs, p, c) ==
  IF peer_is_relay_only(cs, p) /\ cs.hole_punch_attempts[p] # 0
  THEN [cs EXCEPT !.pending_hole_punch_dials[c] =
          [peer |-> p, attempt |-> cs.hole_punch_attempts[p]]]
  ELSE cs

\* A mutation of on_outgoing_connection_error: the dial is not forgotten.
BugKeepFailedDial(cs, c) == cs

on_outgoing_connection_error(cs, c) ==
  [cs EXCEPT !.pending_hole_punch_dials[c] = NoDial]

\* The peers in due are past their deadline.
take_due_hole_punch_timeouts(cs, due) ==
  [cs EXCEPT !.hole_punch_deadlines = [p \in Peers |-> IF p \in due THEN 0 ELSE @[p]]]
=============================================================================
