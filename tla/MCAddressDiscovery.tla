------------------------ MODULE MCAddressDiscovery ------------------------
(* A small instance of AddressDiscovery for TLC. *)
EXTENDS AddressDiscovery

CONSTANTS n1, n2, n3, r1, lan, nat_ip, relay_ip

\* Three ports of the node's public IP, an address over a relay and one in the
\* local network.
MCIpOf == [a \in Addrs |-> CASE a = r1 -> relay_ip
                             [] a = lan -> NoIp
                             [] OTHER -> nat_ip]
=============================================================================
