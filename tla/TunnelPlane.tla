---------------------------- MODULE TunnelPlane ----------------------------
(***************************************************************************)
(* The data plane (src/src/tunnel.rs): what happens between SpawnTunnel    *)
(* and the bytes that flow.  Every tunnel is a task of its own that binds  *)
(* a local port, takes TCP clients one after the other, opens a stream to  *)
(* the remote node for each and hands client and stream to a session task. *)
(* The remote node answers every stream in a task of its own.  The two     *)
(* sides meet only in the stream: a request, a reply and then the bytes,   *)
(* which are left out, as are the contents of messages but for the name of *)
(* the service and the size that MAX_MESSAGE_SIZE limits.                  *)
(*                                                                         *)
(* A client is used once, so a stream, its session and its handler on the  *)
(* remote node have the name of the client.  The streams, the TCP sockets  *)
(* and the services are external.                                          *)
(***************************************************************************)
EXTENDS Naturals

CONSTANTS
  Tunnels,            \* the tunnels of the node, one per SpawnTunnel
  Clients,            \* TCP connections of local programs
  Services,           \* service names
  MayAskFor,          \* bound: the services each tunnel may be for
  Exposed,            \* the services the remote node exposes
  NoTunnel,
  NoService,
  RequestSize,        \* the size of a request, per service name
  RejectionOverhead,  \* what a rejection has more than the request
  MAX_MESSAGE_SIZE,
  Faults              \* what may go wrong in a run, see AllFaults

AllFaults ==
  {"bind_error",     \* the port is taken
   "accept_error",   \* accept fails, as without file descriptors
   "open_error",     \* no stream to the remote node
   "stream_lost",    \* the connection below a stream is lost
   "service_down",   \* nobody listens at the address of the service
   "long_poll"}      \* an aborted task stays in its poll for more than five seconds

ASSUME PlaneAssumption ==
  /\ MayAskFor \in [Tunnels -> SUBSET Services]
  /\ Exposed \subseteq Services /\ NoService \notin Services /\ NoTunnel \notin Tunnels
  /\ RequestSize \in [Services -> Nat]
  /\ RejectionOverhead \in Nat /\ MAX_MESSAGE_SIZE \in Nat
  /\ Faults \subseteq AllFaults

VARIABLES
  node,        \* the event loop: running, stopping (in shutdown_all), stopped, exited
  service,     \* the service each tunnel asks for
  task,        \* what each tunnel task is doing
  registry,    \* tunnel_registry: the tunnels whose task handle is kept
  timed_out,   \* the tunnels whose task was aborted and not seen to end in time
  client,      \* how far each client got
  via,         \* the tunnel a client connected to
  handler,     \* the remote node's handler of the client's stream
  request,     \* external: the request sent on the stream
  reply,       \* external: the reply on the stream, not yet read
  lost,        \* external: the streams whose connection is gone
  reached      \* external: the service the handler is connected to

streams == <<handler, request, reply, lost, reached>>
vars == <<node, service, task, registry, timed_out, client, via, streams>>

ListenStates == {"accepting", "opening"}
TaskStates == {"none", "binding", "ended"} \cup ListenStates
SessionStates == {"starting", "requested", "bridged"}
ClientStates == {"idle", "backlog", "opening", "closed"} \cup SessionStates
HandlerStates == {"none", "reading", "connecting", "connected", "bridged", "closed"}

Init ==
  /\ node = "running"
  /\ service \in {s \in [Tunnels -> Services] : \A t \in Tunnels : s[t] \in MayAskFor[t]}
  /\ task = [t \in Tunnels |-> "none"]
  /\ registry = {}
  /\ timed_out = {}
  /\ client = [c \in Clients |-> "idle"]
  /\ via = [c \in Clients |-> NoTunnel]
  /\ handler = [c \in Clients |-> "none"]
  /\ request = [c \in Clients |-> NoService]
  /\ reply = [c \in Clients |-> "none"]
  /\ lost = {}
  /\ reached = [c \in Clients |-> NoService]

Of(t, states) == {c \in Clients : via[c] = t /\ client[c] \in states}

Close(clients) == [c \in Clients |-> IF c \in clients THEN "closed" ELSE client[c]]

-----------------------------------------------------------------------------
(* The tunnel task: connect_tunnel *)

\* A mutation of register: the handle is dropped.
BugNotRegistered(t) == registry

register(t) == registry \cup {t}

\* Command::SpawnTunnel.
SpawnTunnel(t) ==
  /\ node = "running"
  /\ task[t] = "none"
  /\ task' = [task EXCEPT ![t] = "binding"]
  /\ registry' = register(t)
  /\ UNCHANGED <<node, service, timed_out, client, via, streams>>

\* A mutation of Dropped: the client in hand stays open.
BugLeakClient(t) == Of(t, {"backlog"})

\* The clients a task takes with it when it ends: those not handed over yet.
Dropped(t) == Of(t, {"backlog", "opening"})

\* connect_tunnel returns an error, or the task is aborted.  The handle stays
\* in the registry.
TaskEnds(t) ==
  /\ task' = [task EXCEPT ![t] = "ended"]
  /\ client' = Close(Dropped(t))

Bind(t) ==
  /\ task[t] = "binding"
  /\ \/ task' = [task EXCEPT ![t] = "accepting"] /\ UNCHANGED client
     \/ "bind_error" \in Faults /\ TaskEnds(t)
  /\ UNCHANGED <<node, service, registry, timed_out, via, streams>>

\* A local program connects; the kernel queues it while the task is busy.
ClientConnects(c, t) ==
  /\ client[c] = "idle"
  /\ task[t] \in ListenStates
  /\ client' = [client EXCEPT ![c] = "backlog"]
  /\ via' = [via EXCEPT ![c] = t]
  /\ UNCHANGED <<node, service, task, registry, timed_out, streams>>

Accept(t, c) ==
  /\ task[t] = "accepting"
  /\ \/ /\ c \in Of(t, {"backlog"})
        /\ task' = [task EXCEPT ![t] = "opening"]
        /\ client' = [client EXCEPT ![c] = "opening"]
     \/ "accept_error" \in Faults /\ TaskEnds(t)
  /\ UNCHANGED <<node, service, registry, timed_out, via, streams>>

\* A mutation of AfterOpen: the loop awaits the session instead of spawning it.
BugAwaitSession == "opening"

AfterOpen == "accepting"

\* open_stream, awaited in the accept loop: only the event loop can complete it.
\* An error ends the task and with it the tunnel.
OpenStream(t) ==
  /\ node = "running"
  /\ Of(t, {"opening"}) # {}
  /\ \/ /\ task' = [task EXCEPT ![t] = AfterOpen]
        /\ client' = [c \in Clients |->
                        IF c \in Of(t, {"opening"}) THEN "starting" ELSE client[c]]
     \/ "open_error" \in Faults /\ TaskEnds(t)
  /\ UNCHANGED <<node, service, registry, timed_out, via, streams>>

-----------------------------------------------------------------------------
(* The session: client_tunnel_session *)

\* read_message accepts what write_message wrote up to the limit only.
Readable(size) == size <= MAX_MESSAGE_SIZE

ReplySize(c) ==
  IF reply[c] = "accepted" THEN 0 ELSE RequestSize[service[via[c]]] + RejectionOverhead

\* Nothing more comes from the handler.
HandlerGone(c) == c \in lost \/ handler[c] = "closed"

SendRequest(c) ==
  /\ client[c] = "starting"
  /\ \/ /\ ~HandlerGone(c)
        /\ client' = [client EXCEPT ![c] = "requested"]
        /\ request' = [request EXCEPT ![c] = service[via[c]]]
     \/ HandlerGone(c) /\ client' = Close({c}) /\ UNCHANGED request
  /\ UNCHANGED <<node, service, task, registry, timed_out, via, handler, reply, lost, reached>>

\* The reply, the end of the stream, or a reply that is too large.
ReadReply(c) ==
  /\ client[c] = "requested"
  /\ \/ /\ reply[c] # "none"
        /\ client' = [client EXCEPT ![c] =
                        IF Readable(ReplySize(c)) /\ reply[c] = "accepted"
                        THEN "bridged" ELSE "closed"]
     \/ reply[c] = "none" /\ HandlerGone(c) /\ client' = Close({c})
     \/ c \in lost /\ client' = Close({c})
  /\ reply' = [reply EXCEPT ![c] = "none"]
  /\ UNCHANGED <<node, service, task, registry, timed_out, via, handler, request, lost, reached>>

\* copy_bidirectional ends, well or not.
ClientBridgeEnds(c) ==
  /\ client[c] = "bridged"
  /\ client' = Close({c})
  /\ UNCHANGED <<node, service, task, registry, timed_out, via, streams>>

-----------------------------------------------------------------------------
(* The remote node: accept_loop and handle_tunnel *)

\* The stream reaches the accept loop, which spawns the handler, or it is
\* dropped before because the loop has not caught up.
HandlerStarts(c) ==
  /\ handler[c] = "none"
  /\ client[c] \in SessionStates
  /\ \/ handler' = [handler EXCEPT ![c] = "reading"]
     \/ handler' = [handler EXCEPT ![c] = "closed"]
  /\ UNCHANGED <<node, service, task, registry, timed_out, client, via, request, reply, lost, reached>>

\* Nothing more comes from the session.
SessionGone(c) == c \in lost \/ client[c] = "closed"

Answer(c, state, message) ==
  /\ handler' = [handler EXCEPT ![c] = state]
  /\ reply' = [reply EXCEPT ![c] = message]

\* A mutation of OnRequest: a known service is accepted before it is reached.
BugAcceptFirst(c, s) ==
  IF s \notin Exposed THEN Answer(c, "closed", "rejected")
  ELSE Answer(c, "connecting", "accepted")

\* A known service is connected to first, an unknown one is rejected.
OnRequest(c, s) ==
  IF s \notin Exposed THEN Answer(c, "closed", "rejected")
  ELSE Answer(c, "connecting", "none")

ReadRequest(c) ==
  /\ handler[c] = "reading"
  /\ \/ /\ request[c] # NoService
        /\ IF Readable(RequestSize[request[c]]) THEN OnRequest(c, request[c])
           ELSE Answer(c, "closed", "none")
     \/ request[c] = NoService /\ SessionGone(c) /\ Answer(c, "closed", "none")
     \/ c \in lost /\ Answer(c, "closed", "none")
  /\ UNCHANGED <<node, service, task, registry, timed_out, client, via, request, lost, reached>>

\* TcpStream::connect; without the service the handler just ends.
ConnectService(c) ==
  /\ handler[c] = "connecting"
  /\ \/ /\ handler' = [handler EXCEPT ![c] = "connected"]
        /\ reached' = [reached EXCEPT ![c] = request[c]]
     \/ /\ "service_down" \in Faults
        /\ handler' = [handler EXCEPT ![c] = "closed"]
        /\ UNCHANGED reached
  /\ UNCHANGED <<node, service, task, registry, timed_out, client, via, request, reply, lost>>

SendAccepted(c) ==
  /\ handler[c] = "connected"
  /\ \/ ~SessionGone(c) /\ Answer(c, "bridged", "accepted")
     \/ SessionGone(c) /\ Answer(c, "closed", "none")
  /\ UNCHANGED <<node, service, task, registry, timed_out, client, via, request, lost, reached>>

HandlerBridgeEnds(c) ==
  /\ handler[c] = "bridged"
  /\ handler' = [handler EXCEPT ![c] = "closed"]
  /\ UNCHANGED <<node, service, task, registry, timed_out, client, via, request, reply, lost, reached>>

StreamLost(c) ==
  /\ "stream_lost" \in Faults
  /\ client[c] \in SessionStates
  /\ lost' = lost \cup {c}
  /\ UNCHANGED <<node, service, task, registry, timed_out, client, via, handler, request, reply, reached>>

-----------------------------------------------------------------------------
(* Shutdown: the loop is left, then tunnel_registry.shutdown_all *)

Shutdown ==
  /\ node = "running"
  /\ node' = "stopping"
  /\ UNCHANGED <<service, task, registry, timed_out, client, via, streams>>

\* One round of shutdown_all: abort, and wait for the task.  An aborted task ends
\* when its poll does; if that takes too long the round times out and the next
\* one begins, with the task still in its poll.
AbortTask(t) ==
  /\ node = "stopping"
  /\ t \in registry
  /\ registry' = registry \ {t}
  /\ \/ TaskEnds(t) /\ UNCHANGED timed_out
     \/ /\ "long_poll" \in Faults
        /\ task[t] # "ended"
        /\ timed_out' = timed_out \cup {t}
        /\ UNCHANGED <<task, client>>
  /\ UNCHANGED <<node, service, via, streams>>

\* The poll is over at last.  Until then the task may bind and accept.
AbortedTaskEnds(t) ==
  /\ t \in timed_out
  /\ task[t] # "ended"
  /\ TaskEnds(t)
  /\ timed_out' = timed_out \ {t}
  /\ UNCHANGED <<node, service, registry, via, streams>>

ShutdownDone ==
  /\ node = "stopping"
  /\ registry = {}
  /\ node' = "stopped"
  /\ UNCHANGED <<service, task, registry, timed_out, client, via, streams>>

\* run() has returned: the process ends with whatever still runs in it.
Exit ==
  /\ node = "stopped"
  /\ node' = "exited"
  /\ task' = [t \in Tunnels |-> IF task[t] = "none" THEN "none" ELSE "ended"]
  /\ timed_out' = {}
  /\ client' = Close({c \in Clients : client[c] # "idle"})
  /\ lost' = {c \in Clients : client[c] \in SessionStates} \cup lost
  /\ UNCHANGED <<service, registry, via, handler, request, reply, reached>>

Next ==
  \/ \E t \in Tunnels : SpawnTunnel(t)
  \/ \E t \in Tunnels : Bind(t)
  \/ \E c \in Clients, t \in Tunnels : ClientConnects(c, t)
  \/ \E t \in Tunnels, c \in Clients : Accept(t, c)
  \/ \E t \in Tunnels : OpenStream(t)
  \/ \E c \in Clients : SendRequest(c)
  \/ \E c \in Clients : ReadReply(c)
  \/ \E c \in Clients : ClientBridgeEnds(c)
  \/ \E c \in Clients : HandlerStarts(c)
  \/ \E c \in Clients : ReadRequest(c)
  \/ \E c \in Clients : ConnectService(c)
  \/ \E c \in Clients : SendAccepted(c)
  \/ \E c \in Clients : HandlerBridgeEnds(c)
  \/ \E c \in Clients : StreamLost(c)
  \/ Shutdown
  \/ \E t \in Tunnels : AbortTask(t)
  \/ \E t \in Tunnels : AbortedTaskEnds(t)
  \/ ShutdownDone
  \/ Exit

Spec == Init /\ [][Next]_vars

\* Every task is polled when it can go on.  A stream is opened or refused
\* (libp2p limits both the dial and the negotiation), a TCP connect ends, and
\* shutdown_all waits five seconds at most for each task.  Nothing is assumed of local
\* programs, of bridges that run, or of the user who stops the node.
Fairness ==
  /\ \A t \in Tunnels :
       /\ WF_vars(Bind(t))
       /\ WF_vars(\E c \in Clients : Accept(t, c))
       /\ WF_vars(OpenStream(t))
       /\ WF_vars(AbortTask(t)) /\ WF_vars(AbortedTaskEnds(t))
  /\ \A c \in Clients :
       /\ WF_vars(SendRequest(c)) /\ WF_vars(ReadReply(c))
       /\ WF_vars(HandlerStarts(c)) /\ WF_vars(ReadRequest(c))
       /\ WF_vars(ConnectService(c)) /\ WF_vars(SendAccepted(c))
  /\ WF_vars(ShutdownDone) /\ WF_vars(Exit)

FairSpec == Spec /\ Fairness

-----------------------------------------------------------------------------
(* Properties *)

\* Every variable has its type, and a client in hand has a task that is opening
\* a stream for it and for nobody else.
TypeOK ==
  /\ node \in {"running", "stopping", "stopped", "exited"}
  /\ service \in [Tunnels -> Services]
  /\ task \in [Tunnels -> TaskStates]
  /\ registry \subseteq Tunnels
  /\ timed_out \subseteq Tunnels
  /\ client \in [Clients -> ClientStates]
  /\ via \in [Clients -> Tunnels \cup {NoTunnel}]
  /\ handler \in [Clients -> HandlerStates]
  /\ request \in [Clients -> Services \cup {NoService}]
  /\ reply \in [Clients -> {"none", "accepted", "rejected"}]
  /\ lost \subseteq Clients
  /\ reached \in [Clients -> Services \cup {NoService}]
  /\ \A c \in Clients : client[c] = "opening" =>
       task[via[c]] = "opening" /\ Of(via[c], {"opening"}) = {c}

\* The bytes of a local program go where its tunnel says: when its session
\* copies, the remote node has connected to the service the tunnel names, which
\* it exposes.  Replies, lost streams and failing services of other sessions
\* never start a bridge.
BridgedToTheService ==
  \A c \in Clients :
    client[c] = "bridged" => /\ reached[c] = service[via[c]]
                             /\ service[via[c]] \in Exposed

\* shutdown_all reaches every task that was ever spawned, also those still
\* binding: when it has returned, a task that has not ended has been aborted and
\* outlasted the wait for it (the branch that only logs "tunnel shutdown timed
\* out"), and when the process is gone none is left.
ShutdownReachesEveryTask ==
  \A t \in Tunnels :
    /\ node = "stopped" => task[t] \in {"none", "ended"} \/ t \in timed_out
    /\ node = "exited" => task[t] \in {"none", "ended"}
    /\ t \in timed_out => "long_poll" \in Faults /\ t \notin registry

\* A local program that connects is not left hanging: it is bridged or its
\* connection is closed, although streams are lost, the remote node drops,
\* rejects or fails them, other clients hold their bridges for ever, and the
\* node may stop in between.
ClientsAreServed ==
  \A c \in Clients : client[c] = "backlog" ~> client[c] \in {"bridged", "closed"}
=============================================================================
