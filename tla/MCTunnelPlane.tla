--------------------------- MODULE MCTunnelPlane ---------------------------
(* A small instance of TunnelPlane for TLC. *)
EXTENDS TunnelPlane

CONSTANTS t1, t2, known, long, huge

\* One tunnel asks for what the remote node exposes, the other for what it does
\* not.
MCMayAskFor == [t \in Tunnels |-> IF t = t1 THEN Exposed ELSE Services \ Exposed]

\* Names around the limit: the request of one is just readable but its rejection
\* is not, that of another is not even readable.
MCRequestSize ==
  [s \in Services |-> CASE s = long -> MAX_MESSAGE_SIZE
                       [] s = huge -> MAX_MESSAGE_SIZE + 1
                       [] OTHER -> 1]
=============================================================================
