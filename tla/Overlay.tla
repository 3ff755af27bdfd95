------------------------------ MODULE Overlay ------------------------------
(* The remote peers every component of the node talks about. *)
CONSTANTS
  Peers,
  NoPeer     \* stands for Option::None where a peer is expected

ASSUME PeerAssumption == NoPeer \notin Peers
=============================================================================
