------------------------------ MODULE NatProbe ------------------------------
(***************************************************************************)
(* The classification of the NAT at start (src/src/nat_probe.rs): one UDP  *)
(* socket asks the STUN servers one after the other for the port they see, *)
(* and compares the answers.  Answers may be lost, late or duplicated: one *)
(* that arrives while another server is being asked is read in its place.  *)
(***************************************************************************)
EXTENDS Naturals, Sequences

CONSTANTS
  StunServers,   \* the length of DEFAULT_STUN_SERVERS; a server is its place there
  NatPorts       \* the external ports the NAT may give to the socket

ASSUME ProbeAssumption == StunServers \in Nat /\ NatPorts \subseteq Nat

VARIABLES
  mapped,        \* external: the port the NAT uses towards each server
  asked,         \* how many servers were asked
  waiting,       \* the answer to the last request is waited for
  answers,       \* external: the servers whose answers are on their way
  results,       \* the ports received so far
  nat_mapping    \* the verdict, "none" before there is one

probe == <<mapped, asked, waiting, answers, results, nat_mapping>>

Verdicts == {"EndpointIndependent", "AddressDependent", "Unknown"}

ProbeInit ==
  /\ mapped \in [1..StunServers -> NatPorts]
  /\ asked = 0
  /\ waiting = FALSE
  /\ answers = {}
  /\ results = <<>>
  /\ nat_mapping = "none"

Probing == nat_mapping = "none"

classify_mapping(ports) ==
  IF \A i \in DOMAIN ports : ports[i] = ports[1]
  THEN "EndpointIndependent" ELSE "AddressDependent"

\* The socket cannot be bound: probe_stun_servers fails.
ProbeBindFails ==
  /\ Probing
  /\ asked = 0 /\ ~waiting
  /\ nat_mapping' = "Unknown"
  /\ UNCHANGED <<mapped, asked, waiting, answers, results>>

\* The next server is asked, unless its name or the sending fails; its answer
\* may or may not come.
SendBinding ==
  /\ Probing
  /\ ~waiting
  /\ asked < StunServers
  /\ asked' = asked + 1
  /\ waiting' \in BOOLEAN
  /\ answers' = IF waiting' THEN answers \cup {asked + 1} ELSE answers
  /\ UNCHANGED <<mapped, results, nat_mapping>>

\* A mutation of FromExpectedServer: any answer counts.
BugAnySource(s) == TRUE

\* An answer from another server is an error of this request.
FromExpectedServer(s) == s = asked

\* recv_from returns; the answer may have been duplicated on the way.
ReceiveAnswer(s) ==
  /\ Probing
  /\ waiting
  /\ s \in answers
  /\ waiting' = FALSE
  /\ answers' \in {answers, answers \ {s}}
  /\ results' = IF FromExpectedServer(s) THEN Append(results, mapped[s]) ELSE results
  /\ UNCHANGED <<mapped, asked, nat_mapping>>

\* STUN_TIMEOUT, or an answer that cannot be decoded.
NoAnswer ==
  /\ Probing
  /\ waiting
  /\ waiting' = FALSE
  /\ UNCHANGED <<mapped, asked, answers, results, nat_mapping>>

\* All servers were asked.  The socket is closed, late answers are lost.
Conclude ==
  /\ Probing
  /\ ~waiting
  /\ asked = StunServers
  /\ nat_mapping' = IF Len(results) >= 2 THEN classify_mapping(results) ELSE "Unknown"
  /\ answers' = {}
  /\ UNCHANGED <<mapped, asked, waiting, results>>

ProbeNext ==
  \/ ProbeBindFails
  \/ SendBinding
  \/ \E s \in answers : ReceiveAnswer(s)
  \/ NoAnswer
  \/ Conclude
=============================================================================
