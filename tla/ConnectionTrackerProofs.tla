---------------------- MODULE ConnectionTrackerProofs ----------------------
(***************************************************************************)
(* What the methods of the connection tracker do, field by field, for any  *)
(* peers and connections.  ConnectionSpecProofs and NodeLoopProofs build   *)
(* on these lemmas and never look into the methods again.                  *)
(***************************************************************************)
EXTENDS ConnectionTracker, TLAPS

\* Completing an attempt clears it, its deadline and its dials, and touches no
\* connection and no counter.
LEMMA CompleteFacts ==
  ASSUME NEW k \in TrackerStates, NEW p \in Peers
  PROVE  LET r == complete_hole_punch_attempt(k, p)
         IN  /\ r \in TrackerStates
             /\ r.relayed_connections = k.relayed_connections
             /\ r.direct_connections = k.direct_connections
             /\ r.hole_punch_attempt_seq = k.hole_punch_attempt_seq
             /\ r.hole_punch_attempts = [k.hole_punch_attempts EXCEPT ![p] = 0]
             /\ r.hole_punch_deadlines = [k.hole_punch_deadlines EXCEPT ![p] = 0]
             /\ r.pending_hole_punch_dials =
                  [c \in ConnIds |-> IF k.pending_hole_punch_dials[c].peer = p
                                     THEN NoDial ELSE k.pending_hole_punch_dials[c]]
  BY DEF complete_hole_punch_attempt, TrackerStates, Dials, NoDial

\* Forgetting a connection changes the two sets of its peer and its dial.
LEMMA ForgetFacts ==
  ASSUME NEW k \in TrackerStates, NEW p \in Peers, NEW c \in ConnIds
  PROVE  LET r == ForgetConnection(k, p, c)
         IN  /\ r \in TrackerStates
             /\ r.relayed_connections =
                  [k.relayed_connections EXCEPT ![p] = k.relayed_connections[p] \ {c}]
             /\ r.direct_connections =
                  [k.direct_connections EXCEPT ![p] = k.direct_connections[p] \ {c}]
             /\ r.hole_punch_attempt_seq = k.hole_punch_attempt_seq
             /\ r.hole_punch_attempts = k.hole_punch_attempts
             /\ r.hole_punch_deadlines = k.hole_punch_deadlines
             /\ r.pending_hole_punch_dials =
                  [k.pending_hole_punch_dials EXCEPT ![c] = NoDial]
  BY DEF ForgetConnection, TrackerStates, Dials, NoDial

\* A relayed connection is added to its peer and changes nothing else.
LEMMA RelayedFacts ==
  ASSUME NEW k \in TrackerStates, NEW p \in Peers, NEW c \in ConnIds
  PROVE  LET r == on_relayed_established(k, p, c)
         IN  /\ r \in TrackerStates
             /\ r.relayed_connections =
                  [k.relayed_connections EXCEPT ![p] = k.relayed_connections[p] \cup {c}]
             /\ r.direct_connections = k.direct_connections
             /\ r.hole_punch_attempt_seq = k.hole_punch_attempt_seq
             /\ r.hole_punch_attempts = k.hole_punch_attempts
             /\ r.hole_punch_deadlines = k.hole_punch_deadlines
             /\ r.pending_hole_punch_dials =
                  [k.pending_hole_punch_dials EXCEPT ![c] = NoDial]
  BY DEF on_relayed_established, TrackerStates, Dials, NoDial

\* What a direct connection c of p turns k into.
Upgraded(k, r, p, c) ==
  /\ r \in TrackerStates
  /\ r.relayed_connections = [k.relayed_connections EXCEPT ![p] = {}]
  /\ r.direct_connections =
       [k.direct_connections EXCEPT ![p] = k.direct_connections[p] \cup {c}]
  /\ r.hole_punch_attempt_seq = k.hole_punch_attempt_seq
  /\ r.hole_punch_attempts = [k.hole_punch_attempts EXCEPT ![p] = 0]
  /\ r.hole_punch_deadlines = [k.hole_punch_deadlines EXCEPT ![p] = 0]
  /\ \A d \in ConnIds :
       r.pending_hole_punch_dials[d] =
         IF d = c \/ k.pending_hole_punch_dials[d].peer = p
         THEN NoDial ELSE k.pending_hole_punch_dials[d]

\* A direct connection completes the attempt and replaces the relayed ones.
LEMMA DirectFacts ==
  ASSUME NEW k \in TrackerStates, NEW p \in Peers, NEW c \in ConnIds
  PROVE  Upgraded(k, on_direct_established(k, p, c), p, c)
<1> DEFINE tracked == [k EXCEPT !.pending_hole_punch_dials[c] = NoDial,
                                !.direct_connections[p] = @ \cup {c},
                                !.relayed_connections[p] = {}]
           done == complete_hole_punch_attempt(tracked, p)
<1>1. /\ tracked \in TrackerStates
      /\ tracked.relayed_connections = [k.relayed_connections EXCEPT ![p] = {}]
      /\ tracked.direct_connections =
           [k.direct_connections EXCEPT ![p] = k.direct_connections[p] \cup {c}]
      /\ tracked.hole_punch_attempt_seq = k.hole_punch_attempt_seq
      /\ tracked.hole_punch_attempts = k.hole_punch_attempts
      /\ tracked.hole_punch_deadlines = k.hole_punch_deadlines
      /\ tracked.pending_hole_punch_dials =
           [k.pending_hole_punch_dials EXCEPT ![c] = NoDial]
  BY DEF TrackerStates, Dials, NoDial
<1>2. on_direct_established(k, p, c) = done
  BY DEF on_direct_established
<1> HIDE DEF tracked
<1>3. /\ done \in TrackerStates
      /\ done.relayed_connections = tracked.relayed_connections
      /\ done.direct_connections = tracked.direct_connections
      /\ done.hole_punch_attempt_seq = tracked.hole_punch_attempt_seq
      /\ done.hole_punch_attempts = [tracked.hole_punch_attempts EXCEPT ![p] = 0]
      /\ done.hole_punch_deadlines = [tracked.hole_punch_deadlines EXCEPT ![p] = 0]
      /\ done.pending_hole_punch_dials =
           [d \in ConnIds |-> IF tracked.pending_hole_punch_dials[d].peer = p
                              THEN NoDial ELSE tracked.pending_hole_punch_dials[d]]
  <2>1. tracked \in TrackerStates
    BY <1>1
  <2> QED BY <2>1, CompleteFacts, Zenon
<1>4. \A d \in ConnIds :
        done.pending_hole_punch_dials[d] =
          IF d = c \/ k.pending_hole_punch_dials[d].peer = p
          THEN NoDial ELSE k.pending_hole_punch_dials[d]
  <2> HIDE DEF done
  <2> QED BY <1>1, <1>3 DEF TrackerStates, Dials, NoDial
<1> HIDE DEF done
<1> QED
  BY <1>1, <1>2, <1>3, <1>4, Zenon DEF Upgraded

\* What starting attempt id of p turns k into.
Started(k, r, p, id) ==
  /\ r \in TrackerStates
  /\ r.relayed_connections = k.relayed_connections
  /\ r.direct_connections = k.direct_connections
  /\ r.pending_hole_punch_dials = k.pending_hole_punch_dials
  /\ r.hole_punch_attempt_seq = [k.hole_punch_attempt_seq EXCEPT ![p] = id]
  /\ r.hole_punch_attempts = [k.hole_punch_attempts EXCEPT ![p] = id]
  /\ r.hole_punch_deadlines = [k.hole_punch_deadlines EXCEPT ![p] = id]

\* A new attempt and its deadline carry the next id.
LEMMA StartFacts ==
  ASSUME NEW k \in TrackerStates, NEW p \in Peers
  PROVE  Started(k, start_hole_punch_attempt(k, p), p, k.hole_punch_attempt_seq[p] + 1)
<1> DEFINE id == k.hole_punch_attempt_seq[p] + 1
           s == [k EXCEPT !.hole_punch_attempt_seq[p] = id,
                          !.hole_punch_attempts[p] = id,
                          !.hole_punch_deadlines[p] = id]
<1>1. start_hole_punch_attempt(k, p) = s
  BY Zenon DEF start_hole_punch_attempt
<1>2. id \in Nat
  BY DEF TrackerStates
<1> HIDE DEF id
<1>3. Started(k, s, p, id)
  BY <1>2 DEF TrackerStates, Started
<1> HIDE DEF s
<1> QED BY <1>1, <1>3, Zenon DEF id
=============================================================================
