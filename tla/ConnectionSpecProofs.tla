------------------------ MODULE ConnectionSpecProofs ------------------------
(***************************************************************************)
(* Proofs that the connection tracker keeps its bookkeeping, for any       *)
(* number of peers, connections and attempts.                              *)
(*                                                                         *)
(* IInv is inductive as the conjunction of the four invariants: a tracked  *)
(* dial is current only because completing an attempt drops its dials, and *)
(* a new attempt only starts when none runs, which needs the deadlines and *)
(* the agreement with the swarm.                                           *)
(***************************************************************************)
EXTENDS ConnectionSpec, ConnectionTrackerProofs

IInv ==
  /\ TypeOK
  /\ DeadlinesAreCurrent
  /\ TrackedDialsAreCurrent
  /\ TrackerAgreesWithSwarm

\* The invariant holds at the start.
LEMMA InitEstablishesIInv == Init => IInv
  BY PeerAssumption
  DEF Init, IInv, TypeOK, DeadlinesAreCurrent, TrackedDialsAreCurrent, TrackerStates,
      TrackerAgreesWithSwarm, NoConnections, NoDial, Dials, Stages, Open, DirectOf

-----------------------------------------------------------------------------
(* Every step preserves IInv *)

\* Starting a dial keeps the invariant.
LEMMA DialPreservesIInv ==
  ASSUME IInv, NEW p \in Peers, NEW c \in ConnIds, NEW announced \in BOOLEAN,
         Dial(p, c, announced)
  PROVE  IInv'
<1> USE DEF IInv, TypeOK, TrackerStates, Dials, Stages, Dial, MoveTo
<1>1. TypeOK'
  BY DEF on_dialing
<1>2. DeadlinesAreCurrent'
  BY DEF DeadlinesAreCurrent, on_dialing
<1>3. TrackedDialsAreCurrent'
  BY DEF TrackedDialsAreCurrent, on_dialing
<1>4. TrackerAgreesWithSwarm'
  BY DEF TrackerAgreesWithSwarm, Open, DirectOf, on_dialing
<1> QED BY <1>1, <1>2, <1>3, <1>4

\* A failed dial keeps the invariant.
LEMMA DialFailsPreservesIInv ==
  ASSUME IInv, NEW p \in Peers, NEW c \in ConnIds, DialFails(p, c)
  PROVE  IInv'
<1> USE DEF IInv, TypeOK, TrackerStates, Dials, Stages, NoDial, DialFails, MoveTo,
            on_outgoing_connection_error
<1>1. TypeOK'
  OBVIOUS
<1>2. DeadlinesAreCurrent'
  BY DEF DeadlinesAreCurrent
<1>3. TrackedDialsAreCurrent'
  BY DEF TrackedDialsAreCurrent
<1>4. TrackerAgreesWithSwarm'
  BY DEF TrackerAgreesWithSwarm, Open, DirectOf
<1> QED BY <1>1, <1>2, <1>3, <1>4

\* A new relayed connection keeps the invariant.
LEMMA EstablishRelayedPreservesIInv ==
  ASSUME IInv, NEW p \in Peers, NEW c \in ConnIds, EstablishRelayed(p, c)
  PROVE  IInv'
<1> DEFINE r == on_relayed_established(cs, p, c)
<1>1. /\ cs \in TrackerStates
      /\ pool \in [ConnIds -> [peer : Peers \cup {NoPeer}, stage : Stages]]
      /\ DeadlinesAreCurrent
      /\ TrackedDialsAreCurrent
      /\ TrackerAgreesWithSwarm
  BY DEF IInv, TypeOK
<1>2. /\ cs' = r
      /\ pool[c].stage \in {"unused", "dialing"}
      /\ pool' = [pool EXCEPT ![c] = [peer |-> p, stage |-> "relayed"]]
  BY DEF EstablishRelayed, MayEstablish, MoveTo
<1>3. /\ r \in TrackerStates
      /\ r.relayed_connections =
           [cs.relayed_connections EXCEPT ![p] = cs.relayed_connections[p] \cup {c}]
      /\ r.direct_connections = cs.direct_connections
      /\ r.hole_punch_attempt_seq = cs.hole_punch_attempt_seq
      /\ r.hole_punch_attempts = cs.hole_punch_attempts
      /\ r.hole_punch_deadlines = cs.hole_punch_deadlines
      /\ r.pending_hole_punch_dials = [cs.pending_hole_punch_dials EXCEPT ![c] = NoDial]
  BY <1>1, RelayedFacts, Zenon
<1> HIDE DEF r
<1>4. TypeOK'
  BY <1>1, <1>2, <1>3 DEF TypeOK, Stages
<1>5. DeadlinesAreCurrent'
  BY <1>1, <1>2, <1>3 DEF DeadlinesAreCurrent, TrackerStates
<1>6. TrackedDialsAreCurrent'
  BY <1>1, <1>2, <1>3 DEF TrackedDialsAreCurrent, TrackerStates, Dials
<1>7. TrackerAgreesWithSwarm'
  BY <1>1, <1>2, <1>3 DEF TrackerAgreesWithSwarm, Open, DirectOf, TrackerStates
<1> QED BY <1>4, <1>5, <1>6, <1>7 DEF IInv

\* A new direct connection keeps the invariant.
LEMMA EstablishDirectPreservesIInv ==
  ASSUME IInv, NEW p \in Peers, NEW c \in ConnIds, EstablishDirect(p, c)
  PROVE  IInv'
<1> DEFINE r == on_direct_established(cs, p, c)
<1>1. /\ cs \in TrackerStates
      /\ pool \in [ConnIds -> [peer : Peers \cup {NoPeer}, stage : Stages]]
      /\ DeadlinesAreCurrent
      /\ TrackedDialsAreCurrent
      /\ TrackerAgreesWithSwarm
  BY DEF IInv, TypeOK
<1>2. /\ cs' = r
      /\ pool[c].stage \in {"unused", "dialing"}
      /\ pool' = [pool EXCEPT ![c] = [peer |-> p, stage |-> "direct"]]
  BY DEF EstablishDirect, MayEstablish, MoveTo
<1>3. Upgraded(cs, r, p, c)
  BY <1>1, DirectFacts
<1> HIDE DEF r
<1>4. TypeOK'
  BY <1>1, <1>2, <1>3 DEF TypeOK, Stages, Upgraded
<1>5. DeadlinesAreCurrent'
  BY <1>1, <1>2, <1>3 DEF DeadlinesAreCurrent, TrackerStates, Upgraded
<1>6. TrackedDialsAreCurrent'
  BY <1>1, <1>2, <1>3 DEF TrackedDialsAreCurrent, TrackerStates, Dials, Upgraded
<1>7. TrackerAgreesWithSwarm'
  BY <1>1, <1>2, <1>3 DEF TrackerAgreesWithSwarm, Open, DirectOf, TrackerStates,
                             Upgraded
<1> QED BY <1>4, <1>5, <1>6, <1>7 DEF IInv

\* The close of a connection keeps the invariant.
LEMMA ClosePreservesIInv ==
  ASSUME IInv, NEW p \in Peers, NEW c \in ConnIds, NEW stale \in BOOLEAN,
         Close(p, c, stale)
  PROVE  IInv'
<1> DEFINE f == ForgetConnection(cs, p, c)
           r == complete_hole_punch_attempt(f, p)
<1>1. /\ cs \in TrackerStates
      /\ pool \in [ConnIds -> [peer : Peers \cup {NoPeer}, stage : Stages]]
      /\ DeadlinesAreCurrent
      /\ TrackedDialsAreCurrent
      /\ TrackerAgreesWithSwarm
  BY DEF IInv, TypeOK
<1>2. /\ cs' = f \/ cs' = r
      /\ pool[c].peer = p
      /\ pool[c].stage \in {"relayed", "direct"}
      /\ pool' = [pool EXCEPT ![c] = [peer |-> p, stage |-> "gone"]]
  BY DEF Close, on_connection_closed, Open, MoveTo
<1>3. /\ f \in TrackerStates
      /\ f.relayed_connections =
           [cs.relayed_connections EXCEPT ![p] = cs.relayed_connections[p] \ {c}]
      /\ f.direct_connections =
           [cs.direct_connections EXCEPT ![p] = cs.direct_connections[p] \ {c}]
      /\ f.hole_punch_attempt_seq = cs.hole_punch_attempt_seq
      /\ f.hole_punch_attempts = cs.hole_punch_attempts
      /\ f.hole_punch_deadlines = cs.hole_punch_deadlines
      /\ f.pending_hole_punch_dials = [cs.pending_hole_punch_dials EXCEPT ![c] = NoDial]
  <2>1. cs \in TrackerStates
    BY <1>1
  <2> QED BY <2>1, ForgetFacts, Zenon
<1> HIDE DEF f
<1>4. /\ r \in TrackerStates
      /\ r.relayed_connections = f.relayed_connections
      /\ r.direct_connections = f.direct_connections
      /\ r.hole_punch_attempt_seq = f.hole_punch_attempt_seq
      /\ r.hole_punch_attempts = [f.hole_punch_attempts EXCEPT ![p] = 0]
      /\ r.hole_punch_deadlines = [f.hole_punch_deadlines EXCEPT ![p] = 0]
      /\ r.pending_hole_punch_dials =
           [d \in ConnIds |-> IF f.pending_hole_punch_dials[d].peer = p
                              THEN NoDial ELSE f.pending_hole_punch_dials[d]]
  <2>1. f \in TrackerStates
    BY <1>3
  <2> QED BY <2>1, CompleteFacts, Zenon
<1> HIDE DEF r
<1>5. TypeOK'
  BY <1>1, <1>2, <1>3, <1>4 DEF TypeOK, Stages
<1>6. DeadlinesAreCurrent'
  BY <1>1, <1>2, <1>3, <1>4 DEF DeadlinesAreCurrent, TrackerStates
<1>7. TrackedDialsAreCurrent'
  <2>1. CASE cs' = f
    BY <1>1, <1>2, <1>3, <2>1 DEF TrackedDialsAreCurrent, TrackerStates, Dials
  <2>2. CASE cs' = r
    <3>1. \A d \in ConnIds :
            r.pending_hole_punch_dials[d] # NoDial =>
              /\ d # c
              /\ cs.pending_hole_punch_dials[d].peer # p
              /\ r.pending_hole_punch_dials[d] = cs.pending_hole_punch_dials[d]
      <4>1. \A d \in ConnIds :
              f.pending_hole_punch_dials[d] =
                IF d = c THEN NoDial ELSE cs.pending_hole_punch_dials[d]
        BY <1>1, <1>3 DEF TrackerStates
      <4>2. \A d \in ConnIds :
              r.pending_hole_punch_dials[d] =
                IF f.pending_hole_punch_dials[d].peer = p
                THEN NoDial ELSE f.pending_hole_punch_dials[d]
        BY <1>4
      <4> QED BY <4>1, <4>2
    <3>2. \A q \in Peers : q # p => r.hole_punch_attempts[q] = cs.hole_punch_attempts[q]
      BY <1>1, <1>3, <1>4 DEF TrackerStates
    <3>3. \A d \in ConnIds :
            cs.pending_hole_punch_dials[d] # NoDial =>
              cs.pending_hole_punch_dials[d].peer \in Peers
      BY <1>1 DEF TrackedDialsAreCurrent
    <3> QED
      BY <1>1, <1>2, <2>2, <3>1, <3>2, <3>3 DEF TrackedDialsAreCurrent
  <2> QED BY <1>2, <2>1, <2>2
<1>8. TrackerAgreesWithSwarm'
  <2>1. \A q \in Peers :
          /\ cs'.direct_connections[q] = cs.direct_connections[q] \ {c}
          /\ cs'.relayed_connections[q] = cs.relayed_connections[q] \ {c}
    <3>1. \A q \in Peers :
            /\ cs'.direct_connections[q] =
                 IF q = p THEN cs.direct_connections[p] \ {c} ELSE cs.direct_connections[q]
            /\ cs'.relayed_connections[q] =
                 IF q = p THEN cs.relayed_connections[p] \ {c} ELSE cs.relayed_connections[q]
      <4>1. CASE cs' = f
        BY <1>1, <1>3, <4>1 DEF TrackerStates
      <4>2. CASE cs' = r
        <5>1. /\ cs'.direct_connections = f.direct_connections
              /\ cs'.relayed_connections = f.relayed_connections
          BY <1>4, <4>2
        <5> QED BY <1>1, <1>3, <5>1 DEF TrackerStates
      <4> QED BY <1>2, <4>1, <4>2
    <3>2. \A q \in Peers :
            q # p => c \notin cs.direct_connections[q] /\ c \notin cs.relayed_connections[q]
      BY <1>1, <1>2 DEF TrackerAgreesWithSwarm, Open, DirectOf
    <3> QED BY <3>1, <3>2
  <2>2. \A q \in Peers : Open(q)' = Open(q) \ {c} /\ DirectOf(q)' = DirectOf(q) \ {c}
    BY <1>1, <1>2 DEF Open, DirectOf
  <2> QED BY <1>1, <2>1, <2>2 DEF TrackerAgreesWithSwarm
<1> QED BY <1>5, <1>6, <1>7, <1>8 DEF IInv

\* The start of a hole-punch attempt keeps the invariant.
LEMMA StartAttemptPreservesIInv ==
  ASSUME IInv, NEW p \in Peers, StartAttempt(p)
  PROVE  IInv'
<1> DEFINE id == cs.hole_punch_attempt_seq[p] + 1
           r == start_hole_punch_attempt(cs, p)
<1>1. /\ cs \in TrackerStates
      /\ pool \in [ConnIds -> [peer : Peers \cup {NoPeer}, stage : Stages]]
      /\ DeadlinesAreCurrent
      /\ TrackedDialsAreCurrent
      /\ TrackerAgreesWithSwarm
  BY DEF IInv, TypeOK
<1>2. /\ cs' = r
      /\ pool' = pool
      /\ cs.hole_punch_attempts[p] = 0
      /\ cs.direct_connections[p] = {}
  BY DEF StartAttempt, MayStartAttempt, peer_is_relay_only, has_direct_connection
<1>3. id \in Nat
  BY <1>1 DEF TrackerStates
<1>4. Started(cs, r, p, id)
  BY <1>1, StartFacts
<1> HIDE DEF r
<1>5. TypeOK'
  BY <1>1, <1>2, <1>4 DEF TypeOK, Started
<1>6. DeadlinesAreCurrent'
  BY <1>1, <1>2, <1>3, <1>4 DEF DeadlinesAreCurrent, TrackerStates, Started
<1>7. TrackedDialsAreCurrent'
  BY <1>1, <1>2, <1>4 DEF TrackedDialsAreCurrent, TrackerStates, Dials, Started
<1>8. TrackerAgreesWithSwarm'
  BY <1>1, <1>2, <1>4 DEF TrackerAgreesWithSwarm, Open, DirectOf, Started
<1> QED BY <1>5, <1>6, <1>7, <1>8 DEF IInv

\* The sweep of the attempts that are due keeps the invariant.
LEMMA TimeoutsDuePreservesIInv ==
  ASSUME IInv, NEW due \in SUBSET Peers, TimeoutsDue(due)
  PROVE  IInv'
<1> USE DEF IInv, TypeOK, TrackerStates, TimeoutsDue, take_due_hole_punch_timeouts
<1>1. TypeOK'
  OBVIOUS
<1>2. DeadlinesAreCurrent'
  BY DEF DeadlinesAreCurrent
<1>3. TrackedDialsAreCurrent'
  BY DEF TrackedDialsAreCurrent
<1>4. TrackerAgreesWithSwarm'
  BY DEF TrackerAgreesWithSwarm, Open, DirectOf
<1> QED BY <1>1, <1>2, <1>3, <1>4

\* Every step keeps the invariant.
LEMMA NextPreservesIInv == IInv /\ [Next]_vars => IInv'
<1> SUFFICES ASSUME IInv, [Next]_vars PROVE IInv'
  OBVIOUS
<1>1. CASE Next
  BY <1>1, DialPreservesIInv, DialFailsPreservesIInv, EstablishRelayedPreservesIInv,
     EstablishDirectPreservesIInv, ClosePreservesIInv, StartAttemptPreservesIInv,
     TimeoutsDuePreservesIInv
  DEF Next
<1>2. CASE UNCHANGED vars
  BY <1>2 DEF vars, IInv, TypeOK, DeadlinesAreCurrent, TrackedDialsAreCurrent,
              TrackerAgreesWithSwarm, Open, DirectOf
<1> QED BY <1>1, <1>2

-----------------------------------------------------------------------------
(* The theorems *)

\* The fields of the tracker and of the pool keep their types.
THEOREM TypeCorrect == Spec => []TypeOK
<1>1. IInv => TypeOK
  BY DEF IInv
<1> QED
  BY <1>1, InitEstablishesIInv, NextPreservesIInv, PTL DEF Spec

\* A deadline belongs to the running attempt, and no attempt runs beside a
\* direct connection (complete_hole_punch_attempt and its callers).
THEOREM DeadlinesStayCurrent == Spec => []DeadlinesAreCurrent
<1>1. IInv => DeadlinesAreCurrent
  BY DEF IInv
<1> QED
  BY <1>1, InitEstablishesIInv, NextPreservesIInv, PTL DEF Spec

\* A tracked dial is in flight and belongs to the running attempt: the
\* StaleTracked answer of on_outgoing_connection_error cannot occur.
THEOREM TrackedDialsStayCurrent == Spec => []TrackedDialsAreCurrent
<1>1. IInv => TrackedDialsAreCurrent
  BY DEF IInv
<1> QED
  BY <1>1, InitEstablishesIInv, NextPreservesIInv, PTL DEF Spec

\* The tracker agrees with the swarm, whatever num_established says in
\* on_connection_closed.
THEOREM TrackerStaysInAgreement == Spec => []TrackerAgreesWithSwarm
<1>1. IInv => TrackerAgreesWithSwarm
  BY DEF IInv
<1> QED
  BY <1>1, InitEstablishesIInv, NextPreservesIInv, PTL DEF Spec

\* A step either keeps the ids and at most ends attempts, or starts an attempt
\* with the next id.
LEMMA StepsKeepIdsFresh ==
  ASSUME IInv, Next
  PROVE  FreshIds
<1> DEFINE Kept == /\ cs'.hole_punch_attempt_seq = cs.hole_punch_attempt_seq
                   /\ \A q \in Peers :
                        cs'.hole_punch_attempts[q] \in {0, cs.hole_punch_attempts[q]}
<1>1. cs \in TrackerStates
  BY DEF IInv, TypeOK
<1>2. Kept => FreshIds
  BY <1>1 DEF FreshIds, TrackerStates
<1>3. ASSUME NEW p \in Peers, NEW c \in ConnIds, NEW announced \in BOOLEAN,
             Dial(p, c, announced)
      PROVE  Kept
  BY <1>1, <1>3 DEF Dial, on_dialing, TrackerStates
<1>4. ASSUME NEW p \in Peers, NEW c \in ConnIds, DialFails(p, c)
      PROVE  Kept
  BY <1>1, <1>4 DEF DialFails, on_outgoing_connection_error, TrackerStates
<1>5. ASSUME NEW p \in Peers, NEW c \in ConnIds, EstablishRelayed(p, c)
      PROVE  Kept
  BY <1>1, <1>5, RelayedFacts DEF EstablishRelayed
<1>6. ASSUME NEW p \in Peers, NEW c \in ConnIds, EstablishDirect(p, c)
      PROVE  Kept
  <2>1. Upgraded(cs, cs', p, c)
    BY <1>1, <1>6, DirectFacts DEF EstablishDirect
  <2> QED BY <1>1, <2>1 DEF Upgraded, TrackerStates
<1>7. ASSUME NEW p \in Peers, NEW c \in ConnIds, NEW stale \in BOOLEAN,
             Close(p, c, stale)
      PROVE  Kept
  <2> DEFINE f == ForgetConnection(cs, p, c)
             r == complete_hole_punch_attempt(f, p)
  <2>1. cs' = f \/ cs' = r
    BY <1>7 DEF Close, on_connection_closed
  <2>2. /\ f \in TrackerStates
        /\ f.hole_punch_attempt_seq = cs.hole_punch_attempt_seq
        /\ f.hole_punch_attempts = cs.hole_punch_attempts
    BY <1>1, ForgetFacts, Zenon
  <2> HIDE DEF f
  <2>3. /\ r.hole_punch_attempt_seq = f.hole_punch_attempt_seq
        /\ r.hole_punch_attempts = [f.hole_punch_attempts EXCEPT ![p] = 0]
    <3>1. f \in TrackerStates
      BY <2>2
    <3> QED BY <3>1, CompleteFacts, Zenon
  <2> HIDE DEF r
  <2> QED BY <1>1, <2>1, <2>2, <2>3 DEF TrackerStates
<1>8. ASSUME NEW p \in Peers, StartAttempt(p)
      PROVE  FreshIds
  <2>1. Started(cs, cs', p, cs.hole_punch_attempt_seq[p] + 1)
    BY <1>1, <1>8, StartFacts DEF StartAttempt
  <2> QED BY <1>1, <2>1 DEF Started, FreshIds, TrackerStates
<1>9. ASSUME NEW due \in SUBSET Peers, TimeoutsDue(due)
      PROVE  Kept
  BY <1>1, <1>9 DEF TimeoutsDue, take_due_hole_punch_timeouts, TrackerStates
<1> HIDE DEF Kept
<1> QED
  BY <1>2, <1>3, <1>4, <1>5, <1>6, <1>7, <1>8, <1>9 DEF Next

\* Attempt ids are never reused, across completion and disconnection
\* (next_hole_punch_attempt_id).
THEOREM AttemptIdsStayFresh == Spec => AttemptIdsAreFresh
<1>1. IInv /\ [Next]_vars => [FreshIds]_vars
  BY StepsKeepIdsFresh
<1> QED
  BY <1>1, InitEstablishesIInv, NextPreservesIInv, PTL DEF Spec, AttemptIdsAreFresh
=============================================================================
