----------------------- MODULE AddressDiscoveryProofs -----------------------
(***************************************************************************)
(* Proofs about the discovery of the node's own addresses, for any set of  *)
(* addresses, IPs and peers and any number of STUN servers.                *)
(*                                                                         *)
(* The books are argued about apart from the loop: each operator of        *)
(* ExternalAddresses keeps Books, Fresh, Latest and Advertised (below), and *)
(* every iteration of the loop is one of them before or after WithMapping. *)
(* The NAT probe needs to know which server each result came from, the     *)
(* port mapping where the task and its two probes stand.                   *)
(***************************************************************************)
EXTENDS AddressDiscovery, TLAPS

\* The books, with both maps keyed by the IP of what they hold.
Books ==
  {e \in [external : SUBSET Addrs,
          confirmed_external_by_ip : [Ips -> Addrs \cup {NoAddr}],
          bootstrap_observed_external_by_ip : [Ips -> Addrs \cup {NoAddr}]] :
     \A ip \in Ips :
       /\ e.confirmed_external_by_ip[ip] \in At(ip) \cup {NoAddr}
       /\ e.bootstrap_observed_external_by_ip[ip] \in (At(ip) \ Circuits) \cup {NoAddr}}

\* NoStaleAddress of the books e.
Fresh(e) ==
  \A a \in e.external :
    bootstrap_peer_ids # {} /\ has_public_ip(a) =>
      a \in {e.confirmed_external_by_ip[IpOf[a]],
             e.bootstrap_observed_external_by_ip[IpOf[a]], mapping}

\* ReservationsAreAdvertised of the books e and the reservations held.
Advertised(e, held) == \A a \in held : At(IpOf[a]) = {a} => a \in e.external

\* LatestAddressIsAdvertised of the books e.
Latest(e) ==
  \A ip \in Ips :
    At(ip) \cap Circuits = {} =>
      \/ e.confirmed_external_by_ip[ip] = NoAddr
         /\ e.bootstrap_observed_external_by_ip[ip] = NoAddr
      \/ e.confirmed_external_by_ip[ip] \in e.external
      \/ e.bootstrap_observed_external_by_ip[ip] \in e.external

BooksOK(e, held) == e \in Books /\ Fresh(e) /\ Latest(e) /\ Advertised(e, held)

\* Results come from servers asked one after the other, each from another one,
\* and the server that is waited for has given none yet.
ResultsHaveSources ==
  \E src \in [1..Len(results) -> 1..asked] :
    /\ \A i \in 1..Len(results) : results[i] = mapped[src[i]]
    /\ \A i, j \in 1..Len(results) : i < j => src[i] < src[j]
    /\ waiting => \A i \in 1..Len(results) : src[i] < asked

ProbeOK ==
  /\ mapped \in [1..StunServers -> NatPorts]
  /\ asked \in 0..StunServers
  /\ waiting \in BOOLEAN
  /\ answers \subseteq 1..asked
  /\ results \in Seq(NatPorts)
  /\ Len(results) <= asked
  /\ waiting => Len(results) < asked
  /\ nat_mapping \in Verdicts \cup {"none"}
  /\ ResultsHaveSources

\* The task has a mapping only when it is over and the gateway forwards it, and
\* it runs only once.
MapperOK ==
  /\ port_mapping_spawned \in BOOLEAN
  /\ mapping_task \in {"none", "probing", "finished", "taken"}
  /\ mapping \in {UpnpAddr, PmpAddr, NoMapping}
  /\ gateway_public \in BOOLEAN
  /\ ~port_mapping_spawned => mapping_task = "none"
  /\ mapping_task \in {"none", "probing"} => mapping = NoMapping
  /\ upnp = "adding" => gateway_public
  /\ mapping # NoMapping => gateway_public /\ mapping \in gateway
  /\ public_by_mapping => mapping # NoMapping

IInv ==
  /\ ProbeOK
  /\ VerdictIsRight
  /\ MapperOK
  /\ BooksOK(books, reservations)
  /\ reservations \subseteq Circuits

-----------------------------------------------------------------------------
(* The operators on the books *)

\* A confirmed address joins the books, the one confirmed before for its IP
\* leaves them, and nothing else changes.
LEMMA ConfirmedFacts ==
  ASSUME NEW e \in Books, NEW a \in Addrs
  PROVE  LET r == on_confirmed(e, a)
         IN  /\ r \in Books
             /\ r.bootstrap_observed_external_by_ip = e.bootstrap_observed_external_by_ip
             /\ has_public_ip(a) =>
                  /\ IpOf[a] \in Ips
                  /\ r.external =
                       (e.external \cup {a}) \ ({e.confirmed_external_by_ip[IpOf[a]]} \ {a})
                  /\ r.confirmed_external_by_ip =
                       [e.confirmed_external_by_ip EXCEPT ![IpOf[a]] = a]
             /\ ~has_public_ip(a) =>
                  /\ r.external = e.external \cup {a}
                  /\ r.confirmed_external_by_ip = e.confirmed_external_by_ip
  BY DEF on_confirmed, Books, has_public_ip, Ips, At

\* An expired address leaves the books, as a confirmed one too.
LEMMA ExpiredFacts ==
  ASSUME NEW e \in Books, NEW a \in Addrs
  PROVE  LET r == on_expired(e, a)
         IN  /\ r \in Books
             /\ r.bootstrap_observed_external_by_ip = e.bootstrap_observed_external_by_ip
             /\ r.external = e.external \ {a}
             /\ r.confirmed_external_by_ip =
                  [ip \in Ips |-> IF e.confirmed_external_by_ip[ip] = a THEN NoAddr
                                  ELSE e.confirmed_external_by_ip[ip]]
  BY DEF on_expired, Books

\* An observation of a bootstrap peer replaces the earlier one for its IP.
LEMMA ObservationFacts ==
  ASSUME NEW e \in Books, NEW a \in Addrs, is_valid_external_candidate(a),
         e.bootstrap_observed_external_by_ip[IpOf[a]] # a
  PROVE  LET r == on_bootstrap_observation(e, a)
         IN  /\ r \in Books
             /\ IpOf[a] \in Ips
             /\ r.confirmed_external_by_ip = e.confirmed_external_by_ip
             /\ r.external =
                  (e.external \ {e.bootstrap_observed_external_by_ip[IpOf[a]]}) \cup {a}
             /\ r.bootstrap_observed_external_by_ip =
                  [e.bootstrap_observed_external_by_ip EXCEPT ![IpOf[a]] = a]
  BY DEF on_bootstrap_observation, Books, is_valid_external_candidate, has_public_ip, Ips, At

\* Confirming a keeps the books in order and advertises a.
LEMMA ConfirmedKeepsBooks ==
  ASSUME NEW e, NEW held \in SUBSET Circuits, BooksOK(e, held), NEW a \in Addrs
  PROVE  LET r == on_confirmed(e, a)
         IN  BooksOK(r, held) /\ a \in r.external
<1> DEFINE r == on_confirmed(e, a)
<1>1. e \in Books /\ Fresh(e) /\ Latest(e) /\ Advertised(e, held)
  BY DEF BooksOK
<1>2. /\ r \in Books
      /\ r.bootstrap_observed_external_by_ip = e.bootstrap_observed_external_by_ip
      /\ has_public_ip(a) =>
           /\ IpOf[a] \in Ips
           /\ r.external =
                (e.external \cup {a}) \ ({e.confirmed_external_by_ip[IpOf[a]]} \ {a})
           /\ r.confirmed_external_by_ip =
                [e.confirmed_external_by_ip EXCEPT ![IpOf[a]] = a]
      /\ ~has_public_ip(a) =>
           /\ r.external = e.external \cup {a}
           /\ r.confirmed_external_by_ip = e.confirmed_external_by_ip
  BY <1>1, ConfirmedFacts, Zenon
<1> HIDE DEF r
<1>3. Fresh(r)
  BY <1>1, <1>2 DEF Fresh, Books, Ips, has_public_ip
<1>4. Advertised(r, held)
  BY <1>1, <1>2, AddressAssumption DEF Advertised, Books, At
<1>5. a \in r.external
  BY <1>2
<1>6. Latest(r)
  <2> SUFFICES ASSUME NEW ip \in Ips, At(ip) \cap Circuits = {}
               PROVE  \/ r.confirmed_external_by_ip[ip] = NoAddr
                         /\ r.bootstrap_observed_external_by_ip[ip] = NoAddr
                      \/ r.confirmed_external_by_ip[ip] \in r.external
                      \/ r.bootstrap_observed_external_by_ip[ip] \in r.external
    BY DEF Latest
  <2>1. CASE has_public_ip(a) /\ ip = IpOf[a]
    BY <1>1, <1>2, <1>5, <2>1 DEF Books
  <2>2. CASE ~(has_public_ip(a) /\ ip = IpOf[a])
    BY <1>1, <1>2, <2>2, AddressAssumption DEF Latest, Books, At, Ips, has_public_ip
  <2> QED BY <2>1, <2>2
<1> QED BY <1>2, <1>3, <1>4, <1>5, <1>6 DEF BooksOK, r

\* The end of reservation a takes only a out of the books, and nothing at an IP
\* without circuit addresses.
LEMMA ExpiredKeepsBooks ==
  ASSUME NEW e, NEW held \in SUBSET Circuits, BooksOK(e, held), NEW a \in Circuits
  PROVE  LET r == on_expired(e, a)
         IN  BooksOK(r, held \ {a})
<1> DEFINE r == on_expired(e, a)
<1>1. e \in Books /\ Fresh(e) /\ Latest(e) /\ Advertised(e, held) /\ a \in Addrs
  BY AddressAssumption DEF BooksOK
<1>2. /\ r \in Books
      /\ r.bootstrap_observed_external_by_ip = e.bootstrap_observed_external_by_ip
      /\ r.external = e.external \ {a}
      /\ r.confirmed_external_by_ip =
           [ip \in Ips |-> IF e.confirmed_external_by_ip[ip] = a THEN NoAddr
                           ELSE e.confirmed_external_by_ip[ip]]
  BY <1>1, ExpiredFacts, Zenon
<1> HIDE DEF r
<1>3. Fresh(r)
  BY <1>1, <1>2 DEF Fresh, Books, Ips, has_public_ip
<1>4. Advertised(r, held \ {a})
  BY <1>1, <1>2 DEF Advertised
<1>5. Latest(r)
  BY <1>1, <1>2, AddressAssumption DEF Latest, Books, At
<1> QED BY <1>2, <1>3, <1>4, <1>5 DEF BooksOK, r

\* An observation keeps the books in order.
LEMMA ObservationKeepsBooks ==
  ASSUME NEW e, NEW held \in SUBSET Circuits, BooksOK(e, held),
         NEW a \in Addrs, is_valid_external_candidate(a)
  PROVE  LET r == on_bootstrap_observation(e, a)
         IN  BooksOK(r, held)
<1> DEFINE r == on_bootstrap_observation(e, a)
<1>1. e \in Books /\ Fresh(e) /\ Latest(e) /\ Advertised(e, held)
  BY DEF BooksOK
<1>2. CASE e.bootstrap_observed_external_by_ip[IpOf[a]] = a
  BY <1>2 DEF on_bootstrap_observation
<1>3. CASE e.bootstrap_observed_external_by_ip[IpOf[a]] # a
  <2>1. /\ r \in Books
        /\ IpOf[a] \in Ips
        /\ r.confirmed_external_by_ip = e.confirmed_external_by_ip
        /\ r.external =
             (e.external \ {e.bootstrap_observed_external_by_ip[IpOf[a]]}) \cup {a}
        /\ r.bootstrap_observed_external_by_ip =
             [e.bootstrap_observed_external_by_ip EXCEPT ![IpOf[a]] = a]
    BY <1>1, <1>3, ObservationFacts, Zenon
  <2> HIDE DEF r
  <2>2. Fresh(r)
    BY <1>1, <2>1 DEF Fresh, Books, Ips, has_public_ip
  <2>3. Advertised(r, held)
    BY <1>1, <2>1, AddressAssumption DEF Advertised, Books
  <2>4. Latest(r)
    <3> SUFFICES ASSUME NEW ip \in Ips, At(ip) \cap Circuits = {}
                 PROVE  \/ r.confirmed_external_by_ip[ip] = NoAddr
                           /\ r.bootstrap_observed_external_by_ip[ip] = NoAddr
                        \/ r.confirmed_external_by_ip[ip] \in r.external
                        \/ r.bootstrap_observed_external_by_ip[ip] \in r.external
      BY DEF Latest
    <3>1. CASE ip = IpOf[a]
      BY <1>1, <2>1, <3>1 DEF Books
    <3>2. CASE ip # IpOf[a]
      BY <1>1, <2>1, <3>2, AddressAssumption DEF Latest, Books, At, Ips
    <3> QED BY <3>1, <3>2
  <2> QED BY <2>1, <2>2, <2>3, <2>4 DEF BooksOK, r
<1> QED BY <1>2, <1>3

\* Only the first node of an overlay, which has no bootstrap peers, takes any
\* observed address; then nothing is promised of stale ones.
LEMMA IdentifiedKeepsBooks ==
  ASSUME NEW e, NEW held \in SUBSET Circuits, BooksOK(e, held),
         NEW p, NEW relayed, NEW a \in Addrs
  PROVE  LET r == on_identified(e, bootstrap_peer_ids, p, relayed, a)
         IN  BooksOK(r, held)
<1>1. CASE bootstrap_peer_ids = {}
  <2> DEFINE r == confirm_as_bootstrap_server(e, a)
  <2>1. on_identified(e, bootstrap_peer_ids, p, relayed, a) = r
    BY <1>1 DEF on_identified
  <2>2. /\ r \in Books
        /\ r.external = e.external \cup {a}
        /\ r.confirmed_external_by_ip = e.confirmed_external_by_ip
        /\ r.bootstrap_observed_external_by_ip = e.bootstrap_observed_external_by_ip
    BY DEF confirm_as_bootstrap_server, Books, BooksOK
  <2> HIDE DEF r
  <2>3. BooksOK(r, held)
    BY <1>1, <2>2 DEF BooksOK, Fresh, Latest, Advertised
  <2> QED BY <2>1, <2>3
<1>2. CASE bootstrap_peer_ids # {}
  <2>1. CASE p \in bootstrap_peer_ids /\ ~relayed /\ is_valid_external_candidate(a)
    <3>1. on_identified(e, bootstrap_peer_ids, p, relayed, a) = on_bootstrap_observation(e, a)
      BY <1>2, <2>1 DEF on_identified
    <3> QED BY <2>1, <3>1, ObservationKeepsBooks
  <2>2. CASE ~(p \in bootstrap_peer_ids /\ ~relayed /\ is_valid_external_candidate(a))
    <3>1. on_identified(e, bootstrap_peer_ids, p, relayed, a) = e
      BY <1>2, <2>2 DEF on_identified
    <3> QED BY <3>1
  <2> QED BY <2>1, <2>2
<1> QED BY <1>1, <1>2

\* Taking in the port mapping only adds the address the gateway forwards.
LEMMA MappingKeepsBooks ==
  ASSUME NEW e, NEW held \in SUBSET Circuits, BooksOK(e, held),
         mapping \in {UpnpAddr, PmpAddr, NoMapping}
  PROVE  LET r == WithMapping(e)
         IN  /\ BooksOK(r, held)
             /\ e.external \subseteq r.external
             /\ r.confirmed_external_by_ip = e.confirmed_external_by_ip
             /\ r.bootstrap_observed_external_by_ip = e.bootstrap_observed_external_by_ip
<1>1. CASE ~Taken
  BY <1>1 DEF WithMapping
<1>2. CASE Taken
  <2> DEFINE r == [e EXCEPT !.external = @ \cup {mapping}]
  <2>1. WithMapping(e) = r
    BY <1>2 DEF WithMapping
  <2>2. mapping \in Addrs
    BY <1>2, DiscoveryAssumption DEF Taken
  <2>3. /\ r \in Books
        /\ r.external = e.external \cup {mapping}
        /\ r.confirmed_external_by_ip = e.confirmed_external_by_ip
        /\ r.bootstrap_observed_external_by_ip = e.bootstrap_observed_external_by_ip
    BY <2>2 DEF Books, BooksOK
  <2> HIDE DEF r
  <2>4. BooksOK(r, held)
    BY <2>3 DEF BooksOK, Fresh, Latest, Advertised
  <2> QED BY <2>1, <2>3, <2>4
<1> QED BY <1>1, <1>2

-----------------------------------------------------------------------------
(* The NAT probe *)

\* A verdict read off two or more results is right, as the results come from
\* different servers.
LEMMA ClassificationIsRight ==
  ASSUME ProbeOK, Len(results) >= 2
  PROVE  LET Some(same) == \E s, t \in DOMAIN mapped : s # t /\ (mapped[s] = mapped[t]) = same
             verdict == classify_mapping(results)
         IN  /\ verdict = "EndpointIndependent" => Some(TRUE)
             /\ verdict = "AddressDependent" => Some(FALSE)
<1>1. PICK src \in [1..Len(results) -> 1..asked] :
        /\ \A i \in 1..Len(results) : results[i] = mapped[src[i]]
        /\ \A i, j \in 1..Len(results) : i < j => src[i] < src[j]
  BY DEF ProbeOK, ResultsHaveSources
<1>2. Len(results) \in Nat /\ DOMAIN results = 1..Len(results)
  BY DEF ProbeOK
<1>3. \A i \in 1..Len(results) : src[i] \in DOMAIN mapped
  <2>1. 1..asked \subseteq 1..StunServers /\ DOMAIN mapped = 1..StunServers
    BY ProbeAssumption DEF ProbeOK
  <2> QED BY <1>1, <2>1
<1>4. \A i \in 2..Len(results) : src[1] \in Nat /\ src[i] \in Nat /\ src[1] < src[i]
  <2> SUFFICES ASSUME NEW i \in 2..Len(results)
               PROVE  src[1] \in Nat /\ src[i] \in Nat /\ src[1] < src[i]
    OBVIOUS
  <2>1. 1 \in 1..Len(results) /\ i \in 1..Len(results) /\ 1 < i
    BY <1>2
  <2>2. asked \in Nat
    BY ProbeAssumption DEF ProbeOK
  <2> QED BY <1>1, <2>1, <2>2
<1>5. ASSUME classify_mapping(results) = "EndpointIndependent"
      PROVE  \E s, t \in DOMAIN mapped : s # t /\ (mapped[s] = mapped[t]) = TRUE
  <2>1. 1 \in 1..Len(results) /\ 2 \in 1..Len(results) /\ 2 \in 2..Len(results)
    BY <1>2
  <2>2. results[2] = results[1]
    BY <1>2, <1>5, <2>1 DEF classify_mapping
  <2>3. src[1] # src[2]
    BY <1>4, <2>1
  <2>4. mapped[src[1]] = mapped[src[2]]
    BY <1>1, <2>1, <2>2
  <2> QED BY <1>3, <2>1, <2>3, <2>4
<1>6. ASSUME classify_mapping(results) = "AddressDependent"
      PROVE  \E s, t \in DOMAIN mapped : s # t /\ (mapped[s] = mapped[t]) = FALSE
  <2>1. PICK i \in 1..Len(results) : results[i] # results[1]
    BY <1>2, <1>6 DEF classify_mapping
  <2>2. 1 \in 1..Len(results) /\ i \in 2..Len(results)
    BY <1>2, <2>1
  <2>3. src[1] # src[i]
    BY <1>4, <2>2
  <2>4. mapped[src[1]] # mapped[src[i]]
    BY <1>1, <2>1, <2>2
  <2> QED BY <1>3, <2>1, <2>2, <2>3, <2>4
<1> QED BY <1>5, <1>6

\* A late, duplicated or foreign answer adds no second result of a server.
LEMMA ReceivePreservesProbe ==
  ASSUME ProbeOK, NEW s \in answers, ReceiveAnswer(s)
  PROVE  ProbeOK'
<1>1. PICK src \in [1..Len(results) -> 1..asked] :
        /\ \A i \in 1..Len(results) : results[i] = mapped[src[i]]
        /\ \A i, j \in 1..Len(results) : i < j => src[i] < src[j]
        /\ \A i \in 1..Len(results) : src[i] < asked
  BY DEF ProbeOK, ResultsHaveSources, ReceiveAnswer
<1>2. /\ asked \in Nat /\ Len(results) \in Nat /\ asked' = asked /\ mapped' = mapped
      /\ Len(results) + 1 <= asked
      /\ waiting' = FALSE
  BY ProbeAssumption DEF ProbeOK, ReceiveAnswer
<1>3. CASE s # asked
  <2>1. results' = results
    BY <1>3 DEF ReceiveAnswer, FromExpectedServer
  <2>2. ResultsHaveSources'
    BY <1>1, <1>2, <2>1 DEF ResultsHaveSources
  <2> QED BY <1>2, <2>1, <2>2 DEF ProbeOK, ReceiveAnswer
<1>4. CASE s = asked
  <2>1. results' = Append(results, mapped[asked])
    BY <1>4 DEF ReceiveAnswer, FromExpectedServer
  <2>2. mapped[asked] \in NatPorts
    BY <1>2 DEF ProbeOK
  <2>3. /\ results' \in Seq(NatPorts)
        /\ Len(results') = Len(results) + 1
        /\ \A i \in 1..Len(results) : results'[i] = results[i]
        /\ results'[Len(results) + 1] = mapped[asked]
    BY <2>1, <2>2 DEF ProbeOK
  <2> DEFINE n == Len(results) + 1
             src2 == [i \in 1..n |-> IF i = n THEN asked ELSE src[i]]
  <2>4. src2 \in [1..n -> 1..asked]
    BY <1>1, <1>2
  <2>5. \A i \in 1..n : results'[i] = mapped[src2[i]]
    <3> SUFFICES ASSUME NEW i \in 1..n PROVE results'[i] = mapped[src2[i]]
      OBVIOUS
    <3>1. CASE i = n
      BY <2>3, <3>1
    <3>2. CASE i # n
      <4>1. i \in 1..Len(results)
        BY <1>2, <3>2
      <4> QED BY <1>1, <2>3, <3>2, <4>1
    <3> QED BY <3>1, <3>2
  <2>6. \A i, j \in 1..n : i < j => src2[i] < src2[j]
    <3> SUFFICES ASSUME NEW i \in 1..n, NEW j \in 1..n, i < j PROVE src2[i] < src2[j]
      OBVIOUS
    <3>1. i # n /\ i \in 1..Len(results)
      BY <1>2
    <3>2. CASE j = n
      BY <1>1, <3>1, <3>2
    <3>3. CASE j # n
      <4>1. j \in 1..Len(results)
        BY <1>2, <3>3
      <4> QED BY <1>1, <3>1, <3>3, <4>1
    <3> QED BY <3>2, <3>3
  <2>7. ResultsHaveSources'
    <3>1. Len(results') = n
      BY <2>3
    <3> HIDE DEF n, src2
    <3> QED BY <1>2, <2>4, <2>5, <2>6, <3>1 DEF ResultsHaveSources
  <2> QED BY <1>2, <2>3, <2>7 DEF ProbeOK, ReceiveAnswer
<1> QED BY <1>3, <1>4

\* Asking the next server keeps the sources of the results.
LEMMA SendPreservesProbe ==
  ASSUME ProbeOK, SendBinding
  PROVE  ProbeOK'
<1>1. PICK src \in [1..Len(results) -> 1..asked] :
        /\ \A i \in 1..Len(results) : results[i] = mapped[src[i]]
        /\ \A i, j \in 1..Len(results) : i < j => src[i] < src[j]
  BY DEF ProbeOK, ResultsHaveSources
<1>2. /\ asked \in Nat /\ Len(results) \in Nat /\ asked' = asked + 1
      /\ mapped' = mapped /\ results' = results
  BY ProbeAssumption DEF ProbeOK, SendBinding
<1>3. /\ src \in [1..Len(results) -> 1..(asked + 1)]
      /\ \A i \in 1..Len(results) : src[i] < asked + 1
  BY <1>1, <1>2
<1>4. ResultsHaveSources'
  BY <1>1, <1>2, <1>3 DEF ResultsHaveSources
<1>5. waiting' \in BOOLEAN /\ answers' \subseteq 1..asked'
  BY <1>2 DEF SendBinding, ProbeOK
<1>6. asked' \in 0..StunServers /\ Len(results') < asked'
  BY <1>2, ProbeAssumption DEF SendBinding, ProbeOK
<1> QED BY <1>2, <1>4, <1>5, <1>6 DEF ProbeOK, SendBinding

\* The probe keeps track of its servers and reaches the right verdict.
LEMMA ProbePreserves ==
  ASSUME ProbeOK, VerdictIsRight, ProbeNext
  PROVE  ProbeOK' /\ VerdictIsRight'
<1>1. CASE ProbeBindFails
  BY <1>1 DEF ProbeBindFails, ProbeOK, ResultsHaveSources, VerdictIsRight, Verdicts
<1>2. CASE SendBinding
  BY <1>2, SendPreservesProbe DEF SendBinding, VerdictIsRight
<1>3. ASSUME NEW s \in answers, ReceiveAnswer(s) PROVE ProbeOK' /\ VerdictIsRight'
  BY <1>3, ReceivePreservesProbe DEF ReceiveAnswer, VerdictIsRight
<1>4. CASE NoAnswer
  <2>1. ProbeOK'
    BY <1>4, ProbeAssumption DEF NoAnswer, ProbeOK, ResultsHaveSources
  <2> QED BY <1>4, <2>1 DEF NoAnswer, VerdictIsRight
<1>5. CASE Conclude
  <2>1. ProbeOK'
    BY <1>5 DEF Conclude, ProbeOK, ResultsHaveSources, classify_mapping, Verdicts
  <2>2. VerdictIsRight'
    BY <1>5, ClassificationIsRight DEF Conclude, VerdictIsRight
  <2> QED BY <2>1, <2>2
<1> QED BY <1>1, <1>2, <1>3, <1>4, <1>5 DEF ProbeNext

-----------------------------------------------------------------------------
(* The port mapping *)

\* A step of the task: it may find a mapping, once, and only one that the
\* gateway forwards from a public address.
LEMMA MapperPreserves ==
  ASSUME MapperOK, MapperNext, public_by_mapping' = public_by_mapping
  PROVE  MapperOK' /\ (mapping = NoMapping \/ mapping' = mapping)
<1> USE DiscoveryAssumption DEF MapperOK, Finish
<1>1. CASE UpnpStep
  BY <1>1 DEF UpnpStep, UpnpFails, Routable
<1>2. CASE NatPmpStep
  BY <1>2 DEF NatPmpStep, NatPmpResult, NatPmpFails, Routable
<1>3. CASE MappingTimeout
  BY <1>3 DEF MappingTimeout
<1> QED BY <1>1, <1>2, <1>3 DEF MapperNext

\* An iteration of the loop takes the result of the task; it raises
\* NatStatusChanged(Public) only when there is a mapping.
LEMMA SwarmEventPreservesMapper ==
  ASSUME MapperOK, SwarmEvent
  PROVE  MapperOK' /\ mapping' = mapping /\ bootstrap_peer_ids' = bootstrap_peer_ids
  BY DEF MapperOK, SwarmEvent, TakeMapping, Taken

-----------------------------------------------------------------------------
(* Every step preserves IInv *)

\* No address is known at the start and nothing runs.
LEMMA InitEstablishesIInv == Init => IInv
<1> SUFFICES ASSUME Init PROVE IInv
  OBVIOUS
<1> USE DEF Init, ProbeInit, MapperInit
<1>1. ProbeOK
  <2>1. results = <<>> /\ Len(results) = 0 /\ 1..Len(results) = {}
    OBVIOUS
  <2>2. ResultsHaveSources
    <3>1. [i \in {} |-> 1] \in [1..Len(results) -> 1..asked]
      BY <2>1
    <3> QED BY <2>1, <3>1 DEF ResultsHaveSources
  <2>3. asked \in 0..StunServers /\ answers \subseteq 1..asked /\ results \in Seq(NatPorts)
    BY ProbeAssumption
  <2>4. waiting \in BOOLEAN /\ ~waiting /\ Len(results) <= asked
    <3>1. Len(results) <= asked
      BY <2>1
    <3> QED BY <3>1, Zenon
  <2>5. nat_mapping \in Verdicts \cup {"none"} /\ mapped \in [1..StunServers -> NatPorts]
    OBVIOUS
  <2> QED BY <2>2, <2>3, <2>4, <2>5, Zenon DEF ProbeOK
<1>2. VerdictIsRight
  BY DEF VerdictIsRight
<1>3. MapperOK
  BY DEF MapperOK
<1>4. books \in Books
  BY DEF NoAddresses, Books
<1>5. BooksOK(books, reservations) /\ reservations \subseteq Circuits
  BY <1>4 DEF BooksOK, NoAddresses, Fresh, Latest, Advertised
<1> QED BY <1>1, <1>2, <1>3, <1>5 DEF IInv

\* An iteration of the loop that leaves the books in order keeps IInv.
LEMMA SwarmEventPreservesIInv ==
  ASSUME IInv, SwarmEvent, BooksOK(books', reservations'), reservations' \subseteq Circuits
  PROVE  IInv'
<1>1. ProbeOK' /\ VerdictIsRight'
  BY DEF IInv, SwarmEvent, probe, ProbeOK, ResultsHaveSources, VerdictIsRight
<1>2. MapperOK' /\ mapping' = mapping /\ bootstrap_peer_ids' = bootstrap_peer_ids
  BY SwarmEventPreservesMapper DEF IInv
<1>3. BooksOK(books, reservations)'
  BY <1>2 DEF BooksOK, Fresh, Latest, Advertised
<1> QED BY <1>1, <1>2, <1>3 DEF IInv

\* No step breaks IInv.
LEMMA NextPreservesIInv ==
  ASSUME IInv, [Next]_vars
  PROVE  IInv'
<1>1. /\ BooksOK(books, reservations)
      /\ reservations \in SUBSET Circuits
      /\ Circuits \subseteq Addrs
      /\ MapperOK
  BY AddressAssumption DEF IInv
<1>2. CASE ProbeStep
  <2>1. ProbeOK' /\ VerdictIsRight'
    BY <1>2, ProbePreserves DEF ProbeStep, IInv
  <2>2. MapperOK' /\ BooksOK(books, reservations)'
    BY <1>1, <1>2 DEF ProbeStep, mapper, MapperOK, BooksOK, Fresh, Latest, Advertised
  <2> QED BY <1>1, <1>2, <2>1, <2>2 DEF IInv, ProbeStep
<1>3. CASE SkipProbe
  <2>1. ProbeOK' /\ VerdictIsRight'
    BY <1>3 DEF SkipProbe, IInv, ProbeOK, ResultsHaveSources, VerdictIsRight, Verdicts
  <2>2. MapperOK' /\ BooksOK(books, reservations)'
    BY <1>1, <1>3 DEF SkipProbe, mapper, MapperOK, BooksOK, Fresh, Latest, Advertised
  <2> QED BY <1>1, <1>3, <2>1, <2>2 DEF IInv, SkipProbe
<1>4. ASSUME NEW a \in Addrs, AutoNatConfirms(a)
      PROVE  IInv'
  <2>1. BooksOK(on_confirmed(books, a), reservations)
    BY <1>1, ConfirmedKeepsBooks
  <2>2. BooksOK(books', reservations)
    BY <1>1, <1>4, <2>1, MappingKeepsBooks DEF AutoNatConfirms, MapperOK
  <2> QED BY <1>1, <1>4, <2>2, SwarmEventPreservesIInv DEF AutoNatConfirms
<1>5. ASSUME NEW a \in Circuits, ReservationAccepted(a)
      PROVE  IInv'
  <2>1. /\ BooksOK(on_confirmed(books, a), reservations)
        /\ a \in on_confirmed(books, a).external
       
    BY <1>1, ConfirmedKeepsBooks
  <2>2. BooksOK(on_confirmed(books, a), reservations \cup {a})
    BY <2>1 DEF BooksOK, Advertised
  <2>3. BooksOK(books', reservations')
    BY <1>1, <1>5, <2>1, <2>2, MappingKeepsBooks DEF ReservationAccepted, MapperOK
  <2> QED BY <1>1, <1>5, <2>3, SwarmEventPreservesIInv DEF ReservationAccepted
<1>6. ASSUME NEW a \in Circuits, ReservationEnds(a)
      PROVE  IInv'
  <2>1. /\ BooksOK(on_expired(books, a), reservations \ {a})
       
    BY <1>1, ExpiredKeepsBooks
  <2>2. BooksOK(books', reservations')
    BY <1>1, <1>6, <2>1, MappingKeepsBooks DEF ReservationEnds, MapperOK
  <2> QED BY <1>1, <1>6, <2>2, SwarmEventPreservesIInv DEF ReservationEnds
<1>7. ASSUME NEW p \in Peers, NEW kinds \in SUBSET Kinds, ConnectionChanges(p, kinds)
      PROVE  IInv'
  <2>1. BooksOK(books', reservations)
    BY <1>1, <1>7, MappingKeepsBooks DEF ConnectionChanges, MapperOK
  <2> QED BY <1>1, <1>7, <2>1, SwarmEventPreservesIInv DEF ConnectionChanges
<1>8. ASSUME NEW p \in Peers, NEW kind \in Kinds, NEW a \in Addrs, Identified(p, kind, a)
      PROVE  IInv'
  <2> DEFINE m == WithMapping(books)
  <2>1. /\ BooksOK(m, reservations)
        /\ books.external \subseteq m.external
        /\ m.confirmed_external_by_ip = books.confirmed_external_by_ip
        /\ m.bootstrap_observed_external_by_ip = books.bootstrap_observed_external_by_ip
    BY <1>1, MappingKeepsBooks DEF MapperOK
  <2>2. books' = on_identified(m, bootstrap_peer_ids, p, "relayed" \in conns[p], a)
    BY <1>8, Zenon DEF Identified
  <2> HIDE DEF m
  <2>3. BooksOK(books', reservations)
    BY <1>1, <2>1, <2>2, IdentifiedKeepsBooks, Zenon
  <2> QED BY <1>1, <1>8, <2>3, SwarmEventPreservesIInv DEF Identified
<1>9. CASE ListensOnUdp
  <2>1. MapperOK' /\ mapping' = mapping
    BY <1>1, <1>9 DEF ListensOnUdp, SpawnMapper, MapperOK
  <2>2. ProbeOK' /\ VerdictIsRight'
    BY <1>9 DEF ListensOnUdp, probe, IInv, ProbeOK, ResultsHaveSources, VerdictIsRight
  <2>3. BooksOK(books, reservations)'
    BY <1>1, <1>9, <2>1 DEF ListensOnUdp, BooksOK, Fresh, Latest, Advertised
  <2> QED BY <1>1, <1>9, <2>1, <2>2, <2>3 DEF IInv, ListensOnUdp
<1>10. CASE OtherEvent
  <2>1. BooksOK(books', reservations)
    BY <1>1, <1>10, MappingKeepsBooks DEF OtherEvent, MapperOK
  <2> QED BY <1>1, <1>10, <2>1, SwarmEventPreservesIInv DEF OtherEvent
<1>11. CASE MapperStep
  <2>1. MapperOK' /\ (mapping = NoMapping \/ mapping' = mapping)
    BY <1>1, <1>11, MapperPreserves DEF MapperStep
  <2>2. ProbeOK' /\ VerdictIsRight'
    BY <1>11 DEF MapperStep, probe, IInv, ProbeOK, ResultsHaveSources, VerdictIsRight
  <2>3. books.external \subseteq Addrs
    BY <1>1 DEF BooksOK, Books
  <2>4. BooksOK(books, reservations)'
    BY <1>1, <1>11, <2>1, <2>3, DiscoveryAssumption
    DEF MapperStep, BooksOK, Fresh, Latest, Advertised
  <2> QED BY <1>1, <1>11, <2>1, <2>2, <2>4 DEF IInv, MapperStep
<1>12. CASE UNCHANGED vars
  <2>1. ProbeOK' /\ VerdictIsRight'
    BY <1>12 DEF vars, probe, IInv, ProbeOK, ResultsHaveSources, VerdictIsRight
  <2>2. MapperOK' /\ BooksOK(books, reservations)'
    BY <1>1, <1>12 DEF vars, mapper, MapperOK, BooksOK, Fresh, Latest, Advertised
  <2> QED BY <1>1, <1>12, <2>1, <2>2 DEF vars, IInv
<1> QED
  BY <1>2, <1>3, <1>4, <1>5, <1>6, <1>7, <1>8, <1>9, <1>10, <1>11, <1>12, Zenon DEF Next

\* The inductive invariant.
LEMMA DiscoveryInvariant == Spec => []IInv
<1>1. IInv /\ [Next]_vars => IInv'
  BY NextPreservesIInv
<1> QED BY <1>1, InitEstablishesIInv, PTL DEF Spec

-----------------------------------------------------------------------------
(* Theorems *)

\* TypeOK holds for any instance: in particular the books stay keyed by the IP of
\* what they hold, and no server is counted twice.
THEOREM TypeCorrect == Spec => []TypeOK
<1>1. IInv => TypeOK
  BY DEF IInv, TypeOK, ProbeOK, MapperOK, BooksOK, Books
<1> QED BY <1>1, DiscoveryInvariant, PTL

\* However answers are lost, delayed or duplicated, the NAT is classified from
\* the ports that two different servers saw.
THEOREM ProbeIsRight == Spec => []VerdictIsRight
<1>1. IInv => VerdictIsRight
  BY DEF IInv
<1> QED BY <1>1, DiscoveryInvariant, PTL

\* For any set of addresses and any order of confirmations, expiries,
\* observations and port mappings, no stale address is advertised.
THEOREM AddressesAreFresh == Spec => []NoStaleAddress
<1>1. IInv => NoStaleAddress
  BY DEF IInv, BooksOK, Fresh, NoStaleAddress
<1> QED BY <1>1, DiscoveryInvariant, PTL

\* A live reservation is advertised, whatever the books withdraw for other IPs.
THEOREM RelayAddressesAreAdvertised == Spec => []ReservationsAreAdvertised
<1>1. IInv => ReservationsAreAdvertised
  BY DEF IInv, BooksOK, Advertised, ReservationsAreAdvertised
<1> QED BY <1>1, DiscoveryInvariant, PTL

\* Public for a port mapping means that the gateway forwards it.
THEOREM PublicIsTrue == Spec => []PublicMeansMapped
<1>1. IInv => PublicMeansMapped
  BY DEF IInv, MapperOK, PublicMeansMapped
<1> QED BY <1>1, DiscoveryInvariant, PTL

\* For any addresses and any order of confirmations, observations and port
\* mappings, the two sources never withdraw both of the addresses known last.
THEOREM LatestIsAdvertised == Spec => []LatestAddressIsAdvertised
<1>1. ASSUME IInv PROVE LatestAddressIsAdvertised
  <2>1. Latest(books) /\ books \in Books
    BY <1>1 DEF IInv, BooksOK
  <2>2. ASSUME NEW ip \in Ips
        PROVE  LET latest == {books.confirmed_external_by_ip[ip],
                              books.bootstrap_observed_external_by_ip[ip]} \ {NoAddr}
               IN  latest # {} /\ At(ip) \cap Circuits = {} => latest \cap books.external # {}
    BY <2>1, AddressAssumption DEF Latest, Books
  <2> QED BY <2>2, Zenon DEF LatestAddressIsAdvertised
<1> QED BY <1>1, DiscoveryInvariant, PTL
=============================================================================
