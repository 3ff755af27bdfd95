--------------------------- MODULE TunnelRequests ---------------------------
(***************************************************************************)
(* What the tunnel machine promises about the requests of the user, in     *)
(* terms of the requests only: each is at one place at a time, it reaches  *)
(* an open tunnel at most once and for good, and it changes place only in  *)
(* the ways below, always together with the requests it shares a place     *)
(* with.  How retries, addresses, attempts and DHT answers bring this      *)
(* about is left to TunnelSpec, which is shown to implement this module.   *)
(***************************************************************************)
CONSTANTS Peers, NoPeer, Services, Specs, ServiceOf, TargetOf

VARIABLE place   \* where each request is

Stages == {"pending",   \* a connection to the peer is being looked for
           "held",      \* the peer is reachable, a direct path is not
           "open"}      \* a tunnel to the peer was started

At(stage, p) == [stage |-> stage, peer |-> p]

\* No peer yet: a provider of the service is being looked for.
Searching == At("searching", NoPeer)

TypeOK ==
  place \in [Specs -> {Searching} \cup [stage : Stages, peer : Peers]]

Init ==
  place = [x \in Specs |->
             IF TargetOf[x] = NoPeer THEN Searching ELSE At("pending", TargetOf[x])]

\* The requests that are at one of the given places, for good or for now.
AllAt(places) == {x \in Specs : place[x] \in places}

Move(requests, to) ==
  place' = [x \in Specs |-> IF x \in requests THEN to ELSE place[x]]

\* A provider is found: whoever searched for the service now has that peer.
ProviderFound(s, p) ==
  \E stage \in Stages :
    Move({x \in AllAt({Searching}) : ServiceOf[x] = s}, At(stage, p))

\* p is reached over a relay: nothing is opened yet.
Hold(p) == Move(AllAt({At("pending", p)}), At("held", p))

\* The requests that wait for p are opened, on p.
Open(p) ==
  \E waiting \in SUBSET {"pending", "held"} :
    Move(AllAt({At(stage, p) : stage \in waiting}), At("open", p))

\* The connection is lost before a direct path was found: the requests keep
\* their peer, no other provider is asked.
Lose(p) == Move(AllAt({At("held", p)}), At("pending", p))

\* p cannot be dialled: its pending requests leave it, each for another peer or
\* back to the search.
GiveUp(p) ==
  \E to \in [AllAt({At("pending", p)}) ->
               {Searching} \cup {At("pending", q) : q \in Peers \ {p}}] :
    place' = [x \in Specs |-> IF x \in DOMAIN to THEN to[x] ELSE place[x]]

Next ==
  \/ \E s \in Services, p \in Peers : ProviderFound(s, p)
  \/ \E p \in Peers : Hold(p) \/ Open(p) \/ Lose(p) \/ GiveUp(p)

Spec == Init /\ [][Next]_place
=============================================================================
