--------------------------- MODULE AddressOracle ---------------------------
(***************************************************************************)
(* The address bookkeeping behind a hole-punch retry                       *)
(* (src/src/state/tunnel.rs: record_address_candidates, fresh_candidates,  *)
(* prioritized_redial_addrs and the dedup helpers), as pure operators.     *)
(*                                                                         *)
(* A multiaddress is a natural number: its place in the lexicographic      *)
(* order of the printed addresses, which is all the code uses besides the  *)
(* three classes below.                                                    *)
(***************************************************************************)
EXTENDS Integers, Sequences, FiniteSets, SequencesExt, FiniteSetsExt

CONSTANTS
  RelayAddrs,             \* addresses with a /p2p-circuit part
  DirectAddrs,            \* public UDP + QUIC addresses without a circuit
  OtherAddrs,             \* private, TCP, ...: never a candidate
  ADDRESS_CANDIDATE_TTL,  \* how long a sighting stays fresh
  MAX_DIRECT_CANDIDATES,
  MAX_RELAY_CANDIDATES,
  MAX_REDIAL_ADDRESSES

Addrs == RelayAddrs \cup DirectAddrs \cup OtherAddrs

ASSUME AddressAssumption ==
  /\ Addrs \subseteq Nat
  /\ RelayAddrs \cap DirectAddrs = {}
  /\ OtherAddrs \cap (RelayAddrs \cup DirectAddrs) = {}
  /\ ADDRESS_CANDIDATE_TTL \in Nat
  /\ MAX_DIRECT_CANDIDATES \in Nat \ {0}
  /\ MAX_RELAY_CANDIDATES \in Nat \ {0}
  /\ MAX_REDIAL_ADDRESSES \in Nat \ {0}

\* A peer announces finitely many addresses, and the limit of a redial leaves
\* room for both classes (8 direct, 4 relayed, 12 in all).
ASSUME LimitAssumption ==
  /\ IsFiniteSet(Addrs)
  /\ MAX_DIRECT_CANDIDATES + MAX_RELAY_CANDIDATES <= MAX_REDIAL_ADDRESSES

\* An address that is not in address_last_seen.  Clocks start at 1.
Never == 0

\* address_last_seen of a peer nothing is known of.
NothingSeen == [a \in Addrs |-> Never]

\* PeerAddressOracle::default().
NoCandidates == [relay |-> <<>>, direct |-> <<>>]

has_p2p_circuit(a) == a \in RelayAddrs

is_supported_direct_candidate(a) == a \in DirectAddrs

IsFresh(seen, a, now) ==
  seen[a] # Never /\ now - seen[a] <= ADDRESS_CANDIDATE_TTL

\* Note the supported addresses of listen_addrs as seen now and forget the
\* sightings that are too old.
record_address_candidates(seen, listen_addrs, now) ==
  [a \in Addrs |->
    IF a \in listen_addrs /\ (has_p2p_circuit(a) \/ is_supported_direct_candidate(a))
    THEN now
    ELSE IF IsFresh(seen, a, now) THEN seen[a] ELSE Never]

\* The place of a among the addresses in fresh, the latest sighting first and
\* ties in lexicographic order.
Rank(seen, fresh, a) ==
  Cardinality({b \in fresh : seen[b] > seen[a] \/ (seen[b] = seen[a] /\ b <= a)})

\* The first n of the addresses in fresh, in that order.
Ranked(seen, fresh, n) ==
  [k \in 1..n |-> CHOOSE a \in fresh : Rank(seen, fresh, a) = k]

\* A mutation of fresh_candidates: the limit is not applied.
BugNoCandidateLimit(seen, now, class, limit) ==
  LET fresh == {a \in class : IsFresh(seen, a, now)}
  IN  Ranked(seen, fresh, Cardinality(fresh))

\* A mutation of fresh_candidates: addresses of any class are taken.
BugAnyClass(seen, now, class, limit) ==
  LET fresh == {a \in Addrs : IsFresh(seen, a, now)}
  IN  Ranked(seen, fresh, Min({limit, Cardinality(fresh)}))

\* The fresh addresses of one class (a set where the code passes a predicate),
\* sorted and at most limit of them.
fresh_candidates(seen, now, class, limit) ==
  LET fresh == {a \in class : IsFresh(seen, a, now)}
  IN  Ranked(seen, fresh, Min({limit, Cardinality(fresh)}))

\* Keep the first occurrence of every element (dedup_addrs, dedup_peers).
Dedup(s) ==
  LET firsts == {i \in DOMAIN s : \A j \in 1..(i-1) : s[j] # s[i]}
  IN  [k \in 1..Cardinality(firsts) |->
         s[CHOOSE i \in firsts : Cardinality(firsts \cap (1..i)) = k]]

\* Every address a retry dial may use, before the limit: the direct ones of
\* the attempt's snapshot, of the oracle and of the fresh sightings, then the
\* relayed ones of the same three sources.
redial_candidates(oracle, seen, session, now) ==
  Dedup(   session.direct_snapshot \o oracle.direct
        \o fresh_candidates(seen, now, DirectAddrs, MAX_DIRECT_CANDIDATES)
        \o session.relay_redial_addrs \o oracle.relay
        \o fresh_candidates(seen, now, RelayAddrs, MAX_RELAY_CANDIDATES))

prioritized_redial_addrs(oracle, seen, session, now) ==
  LET addrs == redial_candidates(oracle, seen, session, now)
  IN  SubSeq(addrs, 1, Min({MAX_REDIAL_ADDRESSES, Len(addrs)}))
=============================================================================
