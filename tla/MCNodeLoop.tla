----------------------------- MODULE MCNodeLoop -----------------------------
(* Small instances of NodeLoop for TLC. *)
EXTENDS NodeLoop, TLC

CONSTANTS p1, p2, sA, x1, x2

\* Two requests for one service: x1 names peer p1, x2 takes any provider.
MCServiceOf == [x \in Specs |-> sA]
MCTargetOf == [x \in Specs |-> IF x = x1 THEN p1 ELSE NoPeer]

\* Each request names a peer of its own.
MCOwnTargetOf == [x \in Specs |-> IF x = x1 THEN p1 ELSE p2]

Symmetries == Permutations(ConnIds)
=============================================================================
