------------------------ MODULE ServerSessionsProofs ------------------------
(***************************************************************************)
(* Proofs about ServerSessions, for any number of connections and clients, *)
(* with and without a TUN device: the end of a task and the bridge's tasks *)
(* preserve the invariant, and what follows from it.                       *)
(***************************************************************************)
EXTENDS ServerSessionsLoop

USE DEF Conn, NoSession

(* The task's end frees the client's entry in the registry, and its        *)
(* channel, which no route uses any more.                                  *)
LEMMA UnregisterClientInv ==
  ASSUME ServerInv, TunInv', NEW c \in Conn, unregister_client(c)
  PROVE  ServerInv'
<1> USE DEF ServerInv
<1>1. /\ pc[c] = "unregister"
      /\ pc' = [pc EXCEPT ![c] = "done"]
      /\ sessions_by_client' = Without(sessions_by_client, client[c])
      /\ UNCHANGED <<path, client, handle, pending, next_session_id, forwarders,
                     responses, claimed>>
      /\ UNCHANGED <<sessions, ip_to_session, outbound>>
  BY DEF unregister_client, Goto, tunVars, DropReceiver
<1>2. /\ \A d \in Conn \ {c} : receiver'[d] = receiver[d] /\ queued'[d] = queued[d]
      /\ queued'[c] = <<>> \/ queued'[c] = queued[c]
      /\ ~ UsesTun(c) => receiver'[c] = receiver[c]
  BY DEF unregister_client, tunVars, DropReceiver, ServerTypeOK, TunTypeOK
<1>3. \A k \in DOMAIN sessions_by_client' :
        /\ k \in DOMAIN sessions_by_client
        /\ sessions_by_client'[k] = sessions_by_client[k]
        /\ k # client[c]
  BY <1>1 DEF Without, Restrict
<1>4. /\ \A d \in Conn \ {c} : pc'[d] = pc[d]
      /\ pc'[c] = "done"
  BY <1>1 DEF ServerTypeOK
<1>5. ServerTypeOK'
  <2>1. /\ DOMAIN sessions_by_client' \subseteq Client
        /\ \A k \in DOMAIN sessions_by_client' : sessions_by_client'[k] \in SessionId
    BY <1>3 DEF ServerTypeOK
  <2>2. pc' \in [Conn -> Labels]
    BY <1>1 DEF ServerTypeOK, Labels
  <2> QED BY <1>1, <2>1, <2>2 DEF ServerTypeOK, TunInv
<1>6. HandlesAssigned'
  BY <1>1, <1>2, <1>4 DEF HandlesAssigned, Bound, UsesTun
<1>7. IdsBelowNext' /\ RegistryAgrees' /\ SessionPerClient' /\ ClaimsRecorded'
  BY <1>1, <1>3 DEF IdsBelowNext, RegistryAgrees, SessionPerClient, ClaimsRecorded
<1>8. NothingLeaks'
  <2>1. \A k \in DOMAIN sessions_by_client' :
          \E d \in Conn : /\ pc'[d] \in Bound
                          /\ client'[d] = k
                          /\ handle'[d] = sessions_by_client'[k]
    BY <1>1, <1>3, <1>4 DEF NothingLeaks
  <2>2. \A d \in Conn : pc[d] \in Attached => pc'[d] \in Attached
    BY <1>1, <1>4 DEF Attached
  <2>3. \A id \in DOMAIN forwarders' :
          \E d \in Conn : pc'[d] \in Attached /\ handle'[d] = id /\ ~ UsesTun(d)
    BY <1>1, <2>2 DEF NothingLeaks
  <2>4. \A id \in DOMAIN sessions' :
          \E d \in Conn : pc'[d] \in Attached /\ handle'[d] = id /\ UsesTun(d)
    BY <1>1, <2>2 DEF NothingLeaks
  <2> QED BY <2>1, <2>3, <2>4 DEF NothingLeaks, UsesTun
<1>9. RouteReceiverOpen'
  <2>1. \A id \in DOMAIN sessions : sessions[id].tx \in Conn /\ sessions[id].tx # c
    BY <1>1 DEF TunInv, TunTypeOK, SessionRoute, RouteReceiverOpen, Attached
  <2> QED BY <1>1, <1>2, <1>4, <2>1 DEF RouteReceiverOpen
<1>10. ReturnsReachTheirClient'
  BY <1>1, <1>2 DEF ReturnsReachTheirClient
<1> QED BY <1>5, <1>6, <1>7, <1>8, <1>9, <1>10

(* The writer learns an address for a session from a packet the session's  *)
(* client sent.                                                            *)
LEMMA WriterServerInv ==
  ASSUME ServerInv, TunInv', WriterStep,
         UNCHANGED <<taskVars, regVars, forwarders, responses, claimed>>
  PROVE  ServerInv'
<1> USE DEF ServerInv
<1>1. /\ UNCHANGED <<pc, path, client, handle, pending, next_session_id,
                     sessions_by_client, forwarders, responses, claimed>>
      /\ UNCHANGED <<queued, receiver>>
  BY DEF WriterStep, taskVars, regVars
<1> DEFINE pkt == Head(outbound)
<1>2. /\ outbound \in Seq(OutboundPacket) /\ outbound # <<>>
      /\ pkt = outbound[1] /\ 1 \in 1..Len(outbound)
      /\ pkt \in OutboundPacket
  BY DEF WriterStep, ServerTypeOK, TunTypeOK
<1>3. outbound' = <<>> \/ outbound' = Tail(outbound)
  BY DEF WriterStep
<1>4. \/ UNCHANGED <<sessions, ip_to_session>>
      \/ /\ pkt.src # NotIp
         /\ pkt.session_id \in DOMAIN sessions
         /\ sessions' = [sessions EXCEPT ![pkt.session_id].connection_id =
                                            pkt.connection_id]
         /\ ip_to_session' = Put(ip_to_session, pkt.src, pkt.session_id)
  BY DEF WriterStep, Learn
<1> HIDE DEF pkt
<1>5. \A i \in 1..Len(outbound') :
        \E j \in 1..Len(outbound) : outbound'[i] = outbound[j]
  <2>1. CASE outbound' = <<>>
    BY <2>1
  <2>2. CASE outbound' = Tail(outbound)
    <3>1. /\ Len(Tail(outbound)) = Len(outbound) - 1
          /\ \A j \in 1..Len(Tail(outbound)) : Tail(outbound)[j] = outbound[j+1]
          /\ Len(outbound) \in Nat
      BY <1>2
    <3>2. ASSUME NEW i \in 1..Len(outbound')
          PROVE  i + 1 \in 1..Len(outbound) /\ outbound'[i] = outbound[i + 1]
      BY <2>2, <3>1, <3>2
    <3> QED BY <3>2
  <2> QED BY <1>3, <2>1, <2>2
<1>6. /\ DOMAIN sessions' = DOMAIN sessions
      /\ \A id \in DOMAIN sessions : sessions'[id].tx = sessions[id].tx
  <2>1. \A id \in DOMAIN sessions : sessions[id] \in SessionRoute
    BY DEF ServerTypeOK, TunTypeOK
  <2> QED BY <1>4, <2>1 DEF SessionRoute
<1>7. ServerTypeOK'
  BY <1>1 DEF ServerTypeOK, TunInv
<1>8. HandlesAssigned' /\ RegistryAgrees' /\ SessionPerClient'
      /\ ReturnsReachTheirClient'
  BY <1>1 DEF HandlesAssigned, RegistryAgrees, SessionPerClient, UsesTun,
              ReturnsReachTheirClient
<1>9. IdsBelowNext'
  BY <1>1, <1>5 DEF IdsBelowNext
<1>10. NothingLeaks' /\ RouteReceiverOpen'
  BY <1>1, <1>6 DEF NothingLeaks, RouteReceiverOpen, UsesTun
<1>11. ClaimsRecorded'
  <2>1. ASSUME NEW c \in Conn, NEW ip \in DOMAIN ip_to_session',
               handle[c] = ip_to_session'[ip]
        PROVE  <<client[c], ip>> \in claimed
    <3>1. CASE ip \in DOMAIN ip_to_session /\ ip_to_session'[ip] = ip_to_session[ip]
      BY <2>1, <3>1 DEF ClaimsRecorded
    <3>2. CASE ip = pkt.src /\ pkt.src # NotIp /\ ip_to_session'[ip] = pkt.session_id
      <4>1. pkt.src \in Ip
        BY <1>2, <3>2 DEF OutboundPacket
      <4> QED BY <1>2, <2>1, <3>2, <4>1 DEF ClaimsRecorded
    <3> QED BY <1>4, <3>1, <3>2 DEF Put
  <2> QED BY <1>1, <1>5, <2>1 DEF ClaimsRecorded
<1> QED BY <1>7, <1>8, <1>9, <1>10, <1>11

(* The reader queues a return packet for the connection whose session has  *)
(* its destination address, and that session's client has claimed it.      *)
LEMMA ReaderServerInv ==
  ASSUME ServerInv, TunInv', NEW dst \in Ip, ReaderStep(dst),
         UNCHANGED <<taskVars, regVars, forwarders, responses, claimed>>
  PROVE  ServerInv'
<1> USE DEF ServerInv
<1>1. /\ UNCHANGED <<pc, path, client, handle, pending, next_session_id,
                     sessions_by_client, forwarders, responses, claimed>>
      /\ UNCHANGED <<outbound, receiver>>
  BY DEF ReaderStep, taskVars, regVars
<1>2. ServerTypeOK'
  BY <1>1 DEF ServerTypeOK, TunInv
<1>3. HandlesAssigned' /\ IdsBelowNext' /\ RegistryAgrees' /\ SessionPerClient'
  BY <1>1 DEF HandlesAssigned, IdsBelowNext, RegistryAgrees, SessionPerClient, UsesTun
<1>4. CASE dst \notin DOMAIN ip_to_session
  <2>1. UNCHANGED <<sessions, ip_to_session, queued>>
    BY <1>4 DEF ReaderStep
  <2>2. NothingLeaks' /\ RouteReceiverOpen'
    BY <1>1, <2>1 DEF NothingLeaks, RouteReceiverOpen, UsesTun
  <2>3. ClaimsRecorded' /\ ReturnsReachTheirClient'
    BY <1>1, <2>1 DEF ClaimsRecorded, ReturnsReachTheirClient
  <2> QED BY <1>2, <1>3, <2>2, <2>3
<1>5. CASE dst \in DOMAIN ip_to_session
  <2> DEFINE id == ip_to_session[dst]
             frame == [connection_id |-> sessions[id].connection_id,
                       sequence |-> sessions[id].next_server_sequence, dst |-> dst]
  <2>1. id \in DOMAIN sessions
    BY <1>5 DEF TunInv, NoDanglingIp
  <2>2. /\ sessions[id].tx \in Conn /\ receiver[sessions[id].tx] = "open"
        /\ handle[sessions[id].tx] = id
    BY <2>1 DEF RouteReceiverOpen, TunInv, TunTypeOK, SessionRoute
  <2>3. /\ queued' = [queued EXCEPT ![sessions[id].tx] = Append(@, frame)]
        /\ sessions' = [sessions EXCEPT ![id].next_server_sequence = @ + 1]
        /\ UNCHANGED ip_to_session
    BY <1>5, <2>1, <2>2 DEF ReaderStep, RouteReturn
  <2>4. frame.dst = dst
    OBVIOUS
  <2>5. <<client[sessions[id].tx], dst>> \in claimed
    BY <1>5, <2>2 DEF ClaimsRecorded
  <2> HIDE DEF frame
  <2>6. /\ DOMAIN sessions' = DOMAIN sessions
        /\ \A i \in DOMAIN sessions : sessions'[i].tx = sessions[i].tx
    <3>1. \A i \in DOMAIN sessions : sessions[i] \in SessionRoute
      BY DEF ServerTypeOK, TunTypeOK
    <3> QED BY <2>3, <3>1 DEF SessionRoute
  <2>7. NothingLeaks' /\ RouteReceiverOpen'
    BY <1>1, <2>6 DEF NothingLeaks, RouteReceiverOpen, UsesTun
  <2>8. ClaimsRecorded'
    BY <1>1, <2>3 DEF ClaimsRecorded
  <2>9. ReturnsReachTheirClient'
    <3>1. ASSUME NEW c \in Conn, NEW i \in 1..Len(queued'[c])
          PROVE  \/ i \in 1..Len(queued[c]) /\ queued'[c][i] = queued[c][i]
                 \/ c = sessions[id].tx /\ queued'[c][i] = frame
      <4>1. queued[c] \in Seq(ReturnFrame) /\ queued \in [Conn -> Seq(ReturnFrame)]
        BY DEF ServerTypeOK, TunTypeOK
      <4>2. CASE c = sessions[id].tx
        <5>1. queued'[c] = Append(queued[c], frame)
          BY <2>3, <4>1, <4>2
        <5> QED BY <4>1, <4>2, <5>1
      <4>3. CASE c # sessions[id].tx
        <5>1. queued'[c] = queued[c]
          BY <2>3, <4>1, <4>3
        <5> QED BY <5>1
      <4> QED BY <4>2, <4>3
    <3> QED BY <1>1, <2>4, <2>5, <3>1 DEF ReturnsReachTheirClient
  <2> QED BY <1>2, <1>3, <2>7, <2>8, <2>9
<1> QED BY <1>4, <1>5

-----------------------------------------------------------------------------
LEMMA ServerNextInv ==
  ASSUME ServerInv, [ServerNext]_serverVars
  PROVE  ServerInv'
<1>1. TunInv'
  BY StepUsesBridge, TunNextInv DEF ServerInv
<1>2. ASSUME NEW c \in Conn, PathFails(c) \/ ForwarderResponds(c) \/ Authenticate(c)
                              \/ RouteGone(c)
      PROVE  ServerInv'
  <2>1. /\ UNCHANGED <<tunVars, regVars, forwarders, handle, client, pending, claimed>>
        /\ path' \in [Conn -> {"up", "down"}]
        /\ responses' \in [Conn -> 0..MaxResponses]
    <3>1. /\ responses \in [Conn -> 0..MaxResponses]
          /\ path \in [Conn -> {"up", "down"}]
      BY DEF ServerInv, ServerTypeOK
    <3> QED BY <1>2, <3>1, ResponsesAssumption DEF PathFails, ForwarderResponds,
               Authenticate, RouteGone, taskVars
  <2>2. \/ pc' = pc
        \/ pc[c] = "auth" /\ \E l \in {"bind", "done"} : pc' = [pc EXCEPT ![c] = l]
        \/ pc[c] = "loop" /\ pc' = [pc EXCEPT ![c] = "detach"]
    BY <1>2 DEF PathFails, ForwarderResponds, Authenticate, RouteGone, taskVars, Goto
  <2>3. pc' \in [Conn -> Labels]
    BY <2>2 DEF ServerInv, ServerTypeOK, Labels
  <2>4. ServerTypeOK'
    BY <1>1, <2>1, <2>3 DEF ServerInv, ServerTypeOK, TunInv, regVars
  <2> QED BY <1>1, <2>1, <2>2, <2>4, LocalInv
<1>3. ASSUME NEW c \in Conn, TaskStep(c) PROVE ServerInv'
  BY <1>1, <1>2, <1>3, BindInv, RegisterClientInv, AttachInv, ReceiveInv,
     SendResponseInv, DetachInv, UnregisterClientInv DEF TaskStep
<1>4. CASE Bridge
  BY <1>1, <1>4, WriterServerInv, ReaderServerInv DEF Bridge
<1>5. CASE UNCHANGED serverVars
  <2>1. /\ UNCHANGED <<pc, path, client, handle, pending, next_session_id,
                       sessions_by_client, forwarders, responses, claimed>>
        /\ UNCHANGED <<sessions, ip_to_session, outbound, queued, receiver>>
    BY <1>5 DEF serverVars, taskVars, regVars, tunVars
  <2>2. ServerTypeOK'
    BY <1>1, <2>1 DEF ServerInv, ServerTypeOK, TunInv
  <2> QED BY <1>1, <2>1, <2>2 DEF ServerInv, HandlesAssigned, IdsBelowNext,
             RegistryAgrees, SessionPerClient, NothingLeaks, RouteReceiverOpen,
             ClaimsRecorded, ReturnsReachTheirClient, UsesTun
<1> QED BY <1>2, <1>3, <1>4, <1>5 DEF ServerNext

(* ServerInv holds in every reachable state of the server. *)
THEOREM ServerInvariance == ServerSpec => []ServerInv
BY ServerInitInv, ServerNextInv, PTL DEF ServerSpec

(* The connection tasks' variables keep their types. *)
THEOREM ServerTypeCorrect == ServerSpec => []ServerTypeOK
<1>1. ServerInv => ServerTypeOK
  BY DEF ServerInv
<1> QED BY <1>1, ServerInvariance, PTL

(* However connections of one client interleave their registrations and    *)
(* teardowns, no registry keeps an entry without a connection to remove it. *)
THEOREM RegistriesDoNotLeak == ServerSpec => []NothingLeaks
<1>1. ServerInv => NothingLeaks
  BY DEF ServerInv
<1> QED BY <1>1, ServerInvariance, PTL

(* SessionRegistry never lets two clients share a session id.              *)
THEOREM SessionsAreSeparate == ServerSpec => []SessionPerClient
<1>1. ServerInv => SessionPerClient
  BY DEF ServerInv
<1> QED BY <1>1, ServerInvariance, PTL

(* A route of the bridge always leads to a live connection of its session, *)
(* so the reader task never meets a closed channel.                        *)
THEOREM RoutesLeadToLiveConnections == ServerSpec => []RouteReceiverOpen
<1>1. ServerInv => RouteReceiverOpen
  BY DEF ServerInv
<1> QED BY <1>1, ServerInvariance, PTL

(* A return packet read from the TUN device is only ever queued for a      *)
(* client that sent from its destination address.                          *)
THEOREM ReturnsAreNotMisrouted == ServerSpec => []ReturnsReachTheirClient
<1>1. ServerInv => ReturnsReachTheirClient
  BY DEF ServerInv
<1> QED BY <1>1, ServerInvariance, PTL

(* The server with its connections implements the use of the bridge that   *)
(* TunBridge describes, so what is proved of TunBridge holds in the server. *)
THEOREM ServerImplementsBridgeUse == ServerSpec => UsesBridge
<1>1. ServerInit => TunInit
  BY DEF ServerInit
<1>2. ServerInv /\ [ServerNext]_serverVars => [TunNext]_tunVars
  BY StepUsesBridge
<1> QED BY <1>1, <1>2, ServerInvariance, PTL DEF ServerSpec, UsesBridge, TunSpec
=============================================================================
