---------------------------- MODULE PortMapping ----------------------------
(***************************************************************************)
(* Asking the gateway for a port (src/src/port_mapping.rs): a task of its  *)
(* own in which UPnP and NAT-PMP/PCP run side by side until one succeeds,  *)
(* both have failed or the time is up.  The probe that is not needed any   *)
(* more is dropped wherever it stands.  The gateway is external.           *)
(***************************************************************************)

CONSTANTS
  UpnpAddr,      \* external address and internal port
  PmpAddr,       \* external address and a port of the gateway's choice
  NoMapping

VARIABLES
  port_mapping_spawned,
  mapping_task,     \* none, probing, finished, taken
  mapping,          \* the result of the task: an address, or NoMapping
  upnp,             \* where try_upnp stands
  nat_pmp,          \* where try_nat_pmp_pcp stands
  gateway_public,   \* external: the gateway's address is publicly routable
  gateway           \* external: the addresses the gateway forwards

mapper == <<port_mapping_spawned, mapping_task, mapping, upnp, nat_pmp, gateway_public,
            gateway>>

MapperInit ==
  /\ port_mapping_spawned = FALSE
  /\ mapping_task = "none"
  /\ mapping = NoMapping
  /\ upnp = "idle"
  /\ nat_pmp = "idle"
  /\ gateway_public \in BOOLEAN
  /\ gateway = {}

\* The first listen address with a UDP port, on a node with bootstrap peers.
\* Without a gateway or a local address the task returns at once.
SpawnMapper ==
  /\ port_mapping_spawned' = TRUE
  /\ \/ mapping_task' = "probing" /\ upnp' = "asking" /\ nat_pmp' = "asking"
     \/ mapping_task' = "finished" /\ UNCHANGED <<upnp, nat_pmp>>
  /\ UNCHANGED <<mapping, gateway_public, gateway>>

\* is_publicly_routable of the address the gateway has.
Routable == gateway_public

\* The end of the task: the other probe is dropped.
Finish(result) ==
  /\ mapping_task' = "finished"
  /\ mapping' = result
  /\ upnp' = "idle"
  /\ nat_pmp' = "idle"

\* One probe has failed; the task ends when the other one had before.
UpnpFails ==
  IF nat_pmp = "failed" THEN Finish(NoMapping)
  ELSE upnp' = "failed" /\ UNCHANGED <<mapping_task, mapping, nat_pmp>>

NatPmpFails ==
  IF upnp = "failed" THEN Finish(NoMapping)
  ELSE nat_pmp' = "failed" /\ UNCHANGED <<mapping_task, mapping, upnp>>

\* try_upnp: search, external IP and its check, add_port, in this order.  The
\* gateway may add the port although the answer is lost.
UpnpStep ==
  /\ mapping_task = "probing"
  /\ \/ upnp = "asking" /\ UpnpFails /\ UNCHANGED gateway
     \/ /\ upnp = "asking"
        /\ IF Routable THEN upnp' = "adding" /\ UNCHANGED <<mapping_task, mapping, nat_pmp>>
           ELSE UpnpFails
        /\ UNCHANGED gateway
     \/ /\ upnp = "adding"
        /\ gateway' = gateway \cup {UpnpAddr}
        /\ UNCHANGED <<mapping_task, mapping, upnp, nat_pmp>>
     \/ upnp = "adding" /\ UpnpAddr \in gateway /\ Finish(UpnpAddr) /\ UNCHANGED gateway
     \/ upnp = "adding" /\ UpnpFails /\ UNCHANGED gateway
  /\ UNCHANGED <<port_mapping_spawned, gateway_public>>

\* A mutation of NatPmpResult: the address is not checked.
BugUncheckedAddress == Finish(PmpAddr)

NatPmpResult == IF Routable THEN Finish(PmpAddr) ELSE NatPmpFails

\* try_nat_pmp_pcp: the port is mapped first, then the address is learnt (with
\* the mapping, or by one more query that may fail) and checked.
NatPmpStep ==
  /\ mapping_task = "probing"
  /\ \/ /\ nat_pmp = "asking"
        /\ gateway' = gateway \cup {PmpAddr}
        /\ UNCHANGED <<mapping_task, mapping, upnp, nat_pmp>>
     \/ nat_pmp = "asking" /\ PmpAddr \in gateway /\ NatPmpResult /\ UNCHANGED gateway
     \/ nat_pmp = "asking" /\ NatPmpFails /\ UNCHANGED gateway
  /\ UNCHANGED <<port_mapping_spawned, gateway_public>>

\* PORT_MAPPING_TIMEOUT.
MappingTimeout ==
  /\ mapping_task = "probing"
  /\ Finish(NoMapping)
  /\ UNCHANGED <<port_mapping_spawned, gateway_public, gateway>>

MapperNext == UpnpStep \/ NatPmpStep \/ MappingTimeout

\* The loop takes the result of a finished task, in the next swarm event.
TakeMapping ==
  /\ mapping_task' = IF mapping_task = "finished" THEN "taken" ELSE mapping_task
  /\ UNCHANGED <<port_mapping_spawned, mapping, upnp, nat_pmp, gateway_public, gateway>>

Taken == mapping_task = "finished" /\ mapping # NoMapping
=============================================================================
