------------------------- MODULE TunnelPlaneProofs -------------------------
(***************************************************************************)
(* Proofs about the data plane, for any number of tunnels, clients and     *)
(* services, any sizes and any set of faults.                              *)
(*                                                                         *)
(* What a bridge is connected to and what shutdown_all leaves behind are   *)
(* not inductive: both depend on where the other side of a stream and the  *)
(* task of a tunnel stand.  IInv follows a stream from the request to the  *)
(* bridge (StreamsAreFaithful) and a task from its spawning to its end     *)
(* (TasksAreRegistered).                                                   *)
(***************************************************************************)
EXTENDS TunnelPlane, TLAPS

\* The remote node is connected to the service the client's tunnel names.
Reaches(c) ==
  /\ request[c] \in Exposed
  /\ reached[c] = request[c]

\* A client that has connected keeps its tunnel, a request names the service of
\* that tunnel and is there only after it was sent, and whoever says that the
\* service is connected is right: the handler, the reply on its way, the session.
StreamsAreFaithful ==
  \A c \in Clients :
    /\ client[c] # "idle" => via[c] \in Tunnels
    /\ request[c] # NoService =>
         /\ client[c] \notin {"idle", "backlog", "opening", "starting"}
         /\ request[c] = service[via[c]]
    /\ handler[c] = "connecting" => request[c] \in Exposed
    /\ \/ handler[c] \in {"connected", "bridged"}
       \/ reply[c] = "accepted"
       \/ client[c] = "bridged"
       => Reaches(c)

\* A task that has not ended has its handle in the registry or was aborted and
\* not waited for any longer, shutdown_all returns with an empty registry, and
\* the process takes all tasks with it.
TasksAreRegistered ==
  /\ \A t \in Tunnels : task[t] \in {"binding"} \cup ListenStates =>
       t \in registry \cup timed_out
  /\ \A t \in timed_out : "long_poll" \in Faults /\ t \notin registry /\ task[t] # "none"
  /\ node \in {"stopped", "exited"} => registry = {}
  /\ node = "running" => timed_out = {}
  /\ node = "exited" => \A t \in Tunnels : task[t] \in {"none", "ended"}
  /\ \A t \in registry : task[t] # "none"

IInv == TypeOK /\ StreamsAreFaithful /\ TasksAreRegistered

\* Nothing has been spawned, connected or sent at the start.
LEMMA InitEstablishesIInv == Init => IInv
<1> SUFFICES ASSUME Init PROVE IInv
  OBVIOUS
<1>1. TypeOK
  BY PlaneAssumption DEF Init, TypeOK, TaskStates, ClientStates, HandlerStates
<1>2. StreamsAreFaithful
  BY DEF Init, StreamsAreFaithful
<1>3. TasksAreRegistered
  BY DEF Init, TasksAreRegistered, ListenStates
<1> QED BY <1>1, <1>2, <1>3 DEF IInv

-----------------------------------------------------------------------------
(* Every step preserves IInv *)

\* No step of a task, a session, a handler or the event loop breaks IInv.
LEMMA NextPreservesIInv == IInv /\ [Next]_vars => IInv'
<1> SUFFICES ASSUME IInv, [Next]_vars PROVE IInv'
  OBVIOUS
<1> USE PlaneAssumption DEF IInv, TypeOK, Of, streams, TaskStates, ListenStates,
       SessionStates, ClientStates, HandlerStates
<1>1. ASSUME NEW t \in Tunnels, SpawnTunnel(t) PROVE IInv'
  <2> USE <1>1 DEF SpawnTunnel, register
  <2>1. TypeOK'
    OBVIOUS
  <2>2. TasksAreRegistered'
    BY DEF TasksAreRegistered
  <2> QED BY <2>1, <2>2 DEF StreamsAreFaithful, Reaches
<1>2. ASSUME NEW t \in Tunnels, Bind(t) PROVE IInv'
  <2> USE <1>2 DEF Bind, TaskEnds, Close, Dropped
  <2>1. TypeOK'
    BY DEF StreamsAreFaithful
  <2>2. StreamsAreFaithful'
    BY DEF StreamsAreFaithful, Reaches
  <2>3. TasksAreRegistered'
    BY DEF TasksAreRegistered
  <2> QED BY <2>1, <2>2, <2>3
<1>3. ASSUME NEW c \in Clients, NEW t \in Tunnels, ClientConnects(c, t) PROVE IInv'
  <2> USE <1>3 DEF ClientConnects
  <2>1. TypeOK'
    BY DEF StreamsAreFaithful
  <2>2. StreamsAreFaithful'
    BY DEF StreamsAreFaithful, Reaches
  <2> QED BY <2>1, <2>2 DEF TasksAreRegistered
<1>4. ASSUME NEW t \in Tunnels, NEW c \in Clients, Accept(t, c) PROVE IInv'
  <2> USE <1>4 DEF Accept, TaskEnds, Close, Dropped
  <2>1. TypeOK'
    BY DEF StreamsAreFaithful
  <2>2. StreamsAreFaithful'
    BY DEF StreamsAreFaithful, Reaches
  <2>3. TasksAreRegistered'
    BY DEF TasksAreRegistered
  <2> QED BY <2>1, <2>2, <2>3
<1>5. ASSUME NEW t \in Tunnels, OpenStream(t) PROVE IInv'
  <2> USE <1>5 DEF OpenStream, AfterOpen, TaskEnds, Close, Dropped
  <2>1. TypeOK'
    BY DEF StreamsAreFaithful
  <2>2. StreamsAreFaithful'
    BY DEF StreamsAreFaithful, Reaches
  <2>3. TasksAreRegistered'
    BY DEF TasksAreRegistered
  <2> QED BY <2>1, <2>2, <2>3
<1>6. ASSUME NEW c \in Clients, SendRequest(c) PROVE IInv'
  <2> USE <1>6 DEF SendRequest, Close
  <2>1. TypeOK'
    BY DEF StreamsAreFaithful
  <2>2. StreamsAreFaithful'
    BY DEF StreamsAreFaithful, Reaches
  <2> QED BY <2>1, <2>2 DEF TasksAreRegistered
<1>7. ASSUME NEW c \in Clients, ReadReply(c) PROVE IInv'
  <2> USE <1>7 DEF ReadReply, Close
  <2>1. TypeOK'
    OBVIOUS
  <2>2. StreamsAreFaithful'
    BY DEF StreamsAreFaithful, Reaches
  <2> QED BY <2>1, <2>2 DEF TasksAreRegistered
<1>8. ASSUME NEW c \in Clients, ClientBridgeEnds(c) PROVE IInv'
  <2> USE <1>8 DEF ClientBridgeEnds, Close
  <2>1. TypeOK'
    OBVIOUS
  <2>2. StreamsAreFaithful'
    BY DEF StreamsAreFaithful, Reaches
  <2> QED BY <2>1, <2>2 DEF TasksAreRegistered
<1>9. ASSUME NEW c \in Clients, HandlerStarts(c) PROVE IInv'
  <2> USE <1>9 DEF HandlerStarts
  <2>1. TypeOK'
    OBVIOUS
  <2>2. StreamsAreFaithful'
    BY DEF StreamsAreFaithful, Reaches
  <2> QED BY <2>1, <2>2 DEF TasksAreRegistered
<1>10. ASSUME NEW c \in Clients, ReadRequest(c) PROVE IInv'
  <2> USE <1>10 DEF ReadRequest, OnRequest, Answer
  <2>1. TypeOK'
    OBVIOUS
  <2>2. StreamsAreFaithful'
    BY DEF StreamsAreFaithful, Reaches
  <2> QED BY <2>1, <2>2 DEF TasksAreRegistered
<1>11. ASSUME NEW c \in Clients, ConnectService(c) PROVE IInv'
  <2> USE <1>11 DEF ConnectService
  <2>1. TypeOK'
    OBVIOUS
  <2>2. StreamsAreFaithful'
    BY DEF StreamsAreFaithful, Reaches
  <2> QED BY <2>1, <2>2 DEF TasksAreRegistered
<1>12. ASSUME NEW c \in Clients, SendAccepted(c) PROVE IInv'
  <2> USE <1>12 DEF SendAccepted, Answer
  <2>1. TypeOK'
    OBVIOUS
  <2>2. StreamsAreFaithful'
    BY DEF StreamsAreFaithful, Reaches
  <2> QED BY <2>1, <2>2 DEF TasksAreRegistered
<1>13. ASSUME NEW c \in Clients, HandlerBridgeEnds(c) PROVE IInv'
  <2> USE <1>13 DEF HandlerBridgeEnds
  <2>1. TypeOK'
    OBVIOUS
  <2>2. StreamsAreFaithful'
    BY DEF StreamsAreFaithful, Reaches
  <2> QED BY <2>1, <2>2 DEF TasksAreRegistered
<1>14. ASSUME NEW c \in Clients, StreamLost(c) PROVE IInv'
  <2> USE <1>14 DEF StreamLost
  <2>1. TypeOK'
    OBVIOUS
  <2> QED BY <2>1 DEF StreamsAreFaithful, Reaches, TasksAreRegistered
<1>15. CASE Shutdown
  <2> USE <1>15 DEF Shutdown
  <2>1. TypeOK'
    OBVIOUS
  <2>2. TasksAreRegistered'
    BY DEF TasksAreRegistered
  <2> QED BY <2>1, <2>2 DEF StreamsAreFaithful, Reaches
<1>16. ASSUME NEW t \in Tunnels, AbortTask(t) PROVE IInv'
  <2> USE <1>16 DEF AbortTask, TaskEnds, Close, Dropped
  <2>1. TypeOK'
    BY DEF StreamsAreFaithful
  <2>2. StreamsAreFaithful'
    BY DEF StreamsAreFaithful, Reaches
  <2>3. TasksAreRegistered'
    BY DEF TasksAreRegistered
  <2> QED BY <2>1, <2>2, <2>3
<1>17. ASSUME NEW t \in Tunnels, AbortedTaskEnds(t) PROVE IInv'
  <2> USE <1>17 DEF AbortedTaskEnds, TaskEnds, Close, Dropped
  <2>1. TypeOK'
    BY DEF StreamsAreFaithful
  <2>2. StreamsAreFaithful'
    BY DEF StreamsAreFaithful, Reaches
  <2>3. TasksAreRegistered'
    BY DEF TasksAreRegistered
  <2> QED BY <2>1, <2>2, <2>3
<1>18. CASE ShutdownDone
  <2> USE <1>18 DEF ShutdownDone
  <2>1. TypeOK'
    OBVIOUS
  <2>2. TasksAreRegistered'
    BY DEF TasksAreRegistered
  <2> QED BY <2>1, <2>2 DEF StreamsAreFaithful, Reaches
<1>19. CASE Exit
  <2> USE <1>19 DEF Exit, Close
  <2>1. TypeOK'
    OBVIOUS
  <2>2. StreamsAreFaithful'
    BY DEF StreamsAreFaithful, Reaches
  <2>3. TasksAreRegistered'
    BY DEF TasksAreRegistered
  <2> QED BY <2>1, <2>2, <2>3
<1>20. CASE UNCHANGED vars
  BY <1>20 DEF vars, StreamsAreFaithful, Reaches, TasksAreRegistered
<1> QED
  BY <1>1, <1>2, <1>3, <1>4, <1>5, <1>6, <1>7, <1>8, <1>9, <1>10, <1>11, <1>12, <1>13, <1>14,
     <1>15, <1>16, <1>17, <1>18, <1>19, <1>20, Zenon DEF Next

\* The inductive invariant.
LEMMA PlaneInvariant == Spec => []IInv
  BY InitEstablishesIInv, NextPreservesIInv, PTL DEF Spec

\* TypeOK holds for any instance: in particular the accept loop of a tunnel has
\* at most one client in hand, and while it has one it is opening its stream.
THEOREM TypeCorrect == Spec => []TypeOK
<1>1. IInv => TypeOK
  BY DEF IInv
<1> QED BY <1>1, PlaneInvariant, PTL

\* Whatever streams are lost, rejected, dropped or too large, a session that
\* copies bytes of a local program copies them to the service its tunnel names.
THEOREM BridgesAreFaithful == Spec => []BridgedToTheService
<1>1. IInv => BridgedToTheService
  <2> SUFFICES ASSUME IInv, NEW c \in Clients, client[c] = "bridged"
               PROVE  reached[c] = service[via[c]] /\ service[via[c]] \in Exposed
    BY DEF BridgedToTheService
  <2>1. Reaches(c)
    BY DEF IInv, StreamsAreFaithful
  <2>2. request[c] # NoService
    BY <2>1, PlaneAssumption DEF Reaches
  <2>3. request[c] = service[via[c]]
    BY <2>2 DEF IInv, StreamsAreFaithful
  <2> QED BY <2>1, <2>3 DEF Reaches
<1> QED BY <1>1, PlaneInvariant, PTL

\* However spawning, binding, accepting and aborting interleave, when shutdown_all
\* has returned every task of connect_tunnel has ended or was aborted and is in
\* the poll that outlasted the wait for it.
THEOREM ShutdownReaches == Spec => []ShutdownReachesEveryTask
<1>1. IInv => ShutdownReachesEveryTask
  BY DEF IInv, TypeOK, TasksAreRegistered, ShutdownReachesEveryTask, TaskStates
<1> QED BY <1>1, PlaneInvariant, PTL
=============================================================================
