---------------------------- MODULE MCTunnelSpec ----------------------------
(* Small instances of TunnelSpec for TLC. *)
EXTENDS TunnelSpec, TLC

CONSTANTS p1, p2, sA, x1, x2

\* Two requests for one service: x1 names peer p1, x2 takes any provider.
MCServiceOf == [x \in Specs |-> sA]
MCTargetOf == [x \in Specs |-> IF x = x1 THEN p1 ELSE NoPeer]
=============================================================================
