-------------------------- MODULE MCBootstrapLoop --------------------------
(* Small instances of BootstrapLoop for TLC. *)
EXTENDS BootstrapLoop

CONSTANTS a1, a2, a3, ip1

\* Two ports of one public address, and a private address.
MCIpOf == [a \in Multiaddrs |-> IF a = a3 THEN NoIp ELSE ip1]

\* Nothing depends on which bootstrap peer or which query id it is.
MCSymmetry == Permutations(BootstrapPeers) \cup Permutations(QueryIds)
=============================================================================
