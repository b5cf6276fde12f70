---------------------- MODULE ServerSessionsLoop ----------------------------
(***************************************************************************)
(* The steps of ServerSessions from Attach to Detach preserve its          *)
(* inductive invariant.                                                    *)
(***************************************************************************)
EXTENDS ServerSessionsInvariant

USE DEF Conn, NoSession

(* Attach gives an unused channel a route, or the session a forwarder. *)
LEMMA AttachInv ==
  ASSUME ServerInv, TunInv', NEW c \in Conn, Attach(c)
  PROVE  ServerInv'
<1> USE DEF ServerInv
<1>1. /\ pc[c] = "attach"
      /\ pc' = [pc EXCEPT ![c] = "loop"]
      /\ UNCHANGED <<path, client, handle, pending, responses, claimed>>
      /\ UNCHANGED <<next_session_id, sessions_by_client>>
      /\ UNCHANGED <<ip_to_session, outbound, queued>>
  BY DEF Attach, Goto, regVars, tunVars, register_session
<1>2. /\ handle[c] \in SessionId /\ receiver[c] = "unused"
      /\ pc'[c] = "loop"
      /\ \A d \in Conn \ {c} : pc'[d] = pc[d]
  BY <1>1 DEF HandlesAssigned, ServerTypeOK, Bound
<1>3. \/ /\ UsesTun(c) /\ UNCHANGED forwarders
         /\ register_session(handle[c], c)
      \/ /\ ~ UsesTun(c)
         /\ forwarders' = Put(forwarders, handle[c], c)
         /\ UNCHANGED <<sessions, receiver>>
  BY DEF Attach, tunVars
<1>4. /\ \A d \in Conn : pc[d] \in Bound => pc'[d] \in Bound
      /\ \A d \in Conn : pc[d] \in Attached => pc'[d] \in Attached
      /\ pc'[c] \in Attached
  BY <1>1, <1>2 DEF Bound, Attached
<1>5. \A d \in Conn \ {c} : receiver'[d] = receiver[d]
  BY <1>3 DEF register_session, ServerTypeOK, TunTypeOK
<1>6. ServerTypeOK'
  <2>1. /\ DOMAIN forwarders' \subseteq SessionId
        /\ \A id \in DOMAIN forwarders' : forwarders'[id] \in Conn
    BY <1>2, <1>3 DEF ServerTypeOK, Put
  <2> QED BY <1>1, <2>1 DEF ServerTypeOK, Labels, TunInv
<1>7. HandlesAssigned'
  <2>1. ~ UsesTun(c) => receiver'[c] = "unused"
    BY <1>2, <1>3
  <2> QED BY <1>1, <1>2, <1>5, <2>1 DEF HandlesAssigned, Bound, UsesTun
<1>8. IdsBelowNext' /\ RegistryAgrees' /\ SessionPerClient' /\ ClaimsRecorded'
      /\ ReturnsReachTheirClient'
  BY <1>1 DEF IdsBelowNext, RegistryAgrees, SessionPerClient, ClaimsRecorded,
              ReturnsReachTheirClient
<1>9. NothingLeaks'
  <2>1. \A k \in DOMAIN sessions_by_client' :
          \E d \in Conn : /\ pc'[d] \in Bound
                          /\ client'[d] = k
                          /\ handle'[d] = sessions_by_client'[k]
    BY <1>1, <1>4 DEF NothingLeaks
  <2>2. \A id \in DOMAIN forwarders' :
          \E d \in Conn : pc'[d] \in Attached /\ handle'[d] = id /\ ~ UsesTun(d)
    <3>1. ASSUME NEW id \in DOMAIN forwarders
          PROVE  \E d \in Conn : pc'[d] \in Attached /\ handle'[d] = id /\ ~ UsesTun(d)
      BY <1>1, <1>4 DEF NothingLeaks
    <3> QED BY <1>1, <1>3, <1>4, <3>1 DEF Put
  <2>3. \A id \in DOMAIN sessions' :
          \E d \in Conn : pc'[d] \in Attached /\ handle'[d] = id /\ UsesTun(d)
    <3>1. ASSUME NEW id \in DOMAIN sessions
          PROVE  \E d \in Conn : pc'[d] \in Attached /\ handle'[d] = id /\ UsesTun(d)
      BY <1>1, <1>4 DEF NothingLeaks
    <3> QED BY <1>1, <1>3, <1>4, <3>1 DEF Put, register_session
  <2> QED BY <2>1, <2>2, <2>3 DEF NothingLeaks, UsesTun
<1>10. RouteReceiverOpen'
  <2>1. ASSUME NEW id \in DOMAIN sessions
        PROVE  /\ sessions[id].tx \in Conn \ {c}
               /\ receiver'[sessions[id].tx] = "open"
               /\ handle'[sessions[id].tx] = id
               /\ pc'[sessions[id].tx] \in Attached
    <3>1. sessions[id].tx \in Conn /\ sessions[id].tx # c
      BY <1>2 DEF TunInv, TunTypeOK, SessionRoute, RouteReceiverOpen
    <3> QED BY <1>1, <1>4, <1>5, <3>1 DEF RouteReceiverOpen
  <2>2. CASE UNCHANGED <<sessions, receiver>>
    BY <2>1, <2>2 DEF RouteReceiverOpen
  <2>3. CASE register_session(handle[c], c)
    <3>1. /\ DOMAIN sessions' = DOMAIN sessions \cup {handle[c]}
          /\ sessions'[handle[c]].tx = c
          /\ \A id \in DOMAIN sessions : id # handle[c] => sessions'[id] = sessions[id]
          /\ receiver'[c] = "open"
      BY <2>3 DEF register_session, Put, ServerTypeOK, TunTypeOK
    <3> QED BY <1>1, <1>4, <2>1, <3>1 DEF RouteReceiverOpen
  <2> QED BY <1>3, <2>2, <2>3
<1> QED BY <1>6, <1>7, <1>8, <1>9, <1>10

(* A packet is submitted under the session of the connection, and its      *)
(* source address is from then on claimed by the connection's client.      *)
LEMMA SubmitServerInv ==
  ASSUME ServerInv, TunInv', ServerTypeOK', NEW c \in Conn, pc[c] = "loop",
         NEW src \in Ip \cup {NotIp}, submit_client_frame(handle[c], 1, src),
         claimed' = claimed \cup {<<client[c], ip>> : ip \in {src} \cap Ip},
         UNCHANGED <<pc, client, handle, regVars, forwarders>>
  PROVE  ServerInv'
<1> USE DEF ServerInv
<1>1. /\ UNCHANGED <<sessions, ip_to_session, queued, receiver>>
      /\ UNCHANGED <<next_session_id, sessions_by_client>>
  BY DEF submit_client_frame, regVars
<1>2. /\ handle[c] \in SessionId /\ handle[c] # NoSession
      /\ claimed \subseteq claimed'
      /\ src \in Ip => <<client[c], src>> \in claimed'
  BY SessionIdAssumption DEF HandlesAssigned, Bound
<1>3. ASSUME NEW i \in 1..Len(outbound')
      PROVE  \/ i \in 1..Len(outbound) /\ outbound'[i] = outbound[i]
             \/ outbound'[i].session_id = handle[c] /\ outbound'[i].src = src
  <2>1. outbound \in Seq(OutboundPacket)
    BY DEF ServerTypeOK, TunTypeOK
  <2> DEFINE pkt == [session_id |-> handle[c], connection_id |-> 1, src |-> src]
  <2>2. outbound' = Append(outbound, pkt) /\ pkt.session_id = handle[c] /\ pkt.src = src
    BY DEF submit_client_frame
  <2> HIDE DEF pkt
  <2> QED BY ONLY <2>1, <2>2, <1>3
<1>4. HandlesAssigned' /\ RegistryAgrees' /\ SessionPerClient' /\ NothingLeaks'
      /\ RouteReceiverOpen'
  BY <1>1 DEF HandlesAssigned, RegistryAgrees, SessionPerClient, NothingLeaks,
              RouteReceiverOpen, UsesTun
<1>5. IdsBelowNext'
  BY <1>1, <1>2, <1>3 DEF IdsBelowNext
<1>6. ClaimsRecorded'
  <2>1. \A d \in Conn : handle[d] = handle[c] => client[d] = client[c]
    BY <1>2 DEF SessionPerClient
  <2> QED BY <1>1, <1>2, <1>3, <2>1 DEF ClaimsRecorded
<1>7. ReturnsReachTheirClient'
  BY <1>1, <1>2 DEF ReturnsReachTheirClient
<1> QED BY <1>4, <1>5, <1>6, <1>7

(* A frame of the client, served first or in the loop. *)
LEMMA ReceiveInv ==
  ASSUME ServerInv, TunInv', NEW c \in Conn, ServePending(c) \/ Receive(c)
  PROVE  ServerInv'
<1>1. /\ pc[c] = "loop"
      /\ pending' \in [Conn -> BOOLEAN]
      /\ UNCHANGED <<path, client, handle, regVars, forwarders, responses>>
  BY DEF ServePending, Receive, ServerInv, ServerTypeOK
<1>2. \/ /\ UNCHANGED <<claimed, tunVars>>
         /\ pc' = pc \/ pc' = [pc EXCEPT ![c] = "detach"]
      \/ \E src \in Ip \cup {NotIp} :
           /\ submit_client_frame(handle[c], 1, src)
           /\ claimed' = claimed \cup {<<client[c], ip>> : ip \in {src} \cap Ip}
           /\ UNCHANGED pc
  BY DEF ServePending, Receive, Forward, Pong, Goto
<1>3. ServerTypeOK'
  <2>1. client[c] \in Client
    BY <1>1 DEF ServerInv, HandlesAssigned, Bound, UsesTun
  <2>2. claimed' \subseteq Client \X Ip
    BY <1>2, <2>1 DEF ServerInv, ServerTypeOK
  <2>3. pc' \in [Conn -> Labels]
    BY <1>2 DEF ServerInv, ServerTypeOK, Labels
  <2> QED BY <1>1, <2>2, <2>3 DEF ServerInv, ServerTypeOK, TunInv, regVars
<1>4. CASE /\ UNCHANGED <<claimed, tunVars>>
           /\ pc' = pc \/ pc' = [pc EXCEPT ![c] = "detach"]
  BY <1>1, <1>3, <1>4, LocalInv
<1>5. CASE \E src \in Ip \cup {NotIp} :
           /\ submit_client_frame(handle[c], 1, src)
           /\ claimed' = claimed \cup {<<client[c], ip>> : ip \in {src} \cap Ip}
           /\ UNCHANGED pc
  <2>1. PICK src \in Ip \cup {NotIp} :
           /\ submit_client_frame(handle[c], 1, src)
           /\ claimed' = claimed \cup {<<client[c], ip>> : ip \in {src} \cap Ip}
           /\ UNCHANGED pc
    BY <1>5
  <2> QED BY <1>1, <1>3, <2>1, SubmitServerInv
<1> QED BY <1>2, <1>4, <1>5

(* A response or a return packet leaves the queue of its connection. *)
LEMMA SendResponseInv ==
  ASSUME ServerInv, TunInv', NEW c \in Conn, SendResponse(c)
  PROVE  ServerInv'
<1>1. /\ pc[c] = "loop"
      /\ pc' = pc \/ pc' = [pc EXCEPT ![c] = "detach"]
      /\ UNCHANGED <<path, client, handle, pending, regVars, forwarders, claimed>>
  BY DEF SendResponse, Goto
<1>2. \/ TakeFrame(c) /\ UNCHANGED responses
      \/ /\ responses[c] > 0
         /\ responses' = [responses EXCEPT ![c] = @ - 1]
         /\ UNCHANGED tunVars
  BY DEF SendResponse, TakeResponse
<1>3. ServerTypeOK'
  <2>1. responses' \in [Conn -> 0..MaxResponses]
    <3>1. responses \in [Conn -> 0..MaxResponses]
      BY DEF ServerInv, ServerTypeOK
    <3> QED BY ONLY <1>2, <3>1, ResponsesAssumption
  <2>2. pc' \in [Conn -> Labels]
    BY <1>1 DEF ServerInv, ServerTypeOK, Labels
  <2> QED BY <1>1, <2>1, <2>2 DEF ServerInv, ServerTypeOK, TunInv, regVars
<1>4. CASE UNCHANGED tunVars
  BY <1>1, <1>3, <1>4, LocalInv
<1>5. CASE TakeFrame(c)
  <2> USE DEF ServerInv
  <2>1. /\ UNCHANGED <<sessions, ip_to_session, outbound, receiver>>
        /\ UNCHANGED <<next_session_id, sessions_by_client>>
    BY <1>1, <1>5 DEF TakeFrame, regVars
  <2>2. \A d \in Conn : pc'[d] = pc[d] \/ (pc[d] = "loop" /\ pc'[d] = "detach")
    BY <1>1 DEF ServerTypeOK
  <2>3. /\ \A d \in Conn : pc[d] \in Bound => pc'[d] \in Bound
        /\ \A d \in Conn : pc[d] \in Attached => pc'[d] \in Attached
    BY <2>2 DEF Bound, Attached
  <2>4. HandlesAssigned'
    BY <1>1, <2>1, <2>2 DEF HandlesAssigned, Bound, UsesTun
  <2>5. IdsBelowNext' /\ RegistryAgrees' /\ SessionPerClient' /\ ClaimsRecorded'
    BY <1>1, <2>1 DEF IdsBelowNext, RegistryAgrees, SessionPerClient, ClaimsRecorded
  <2>6. NothingLeaks'
    BY <1>1, <2>1, <2>3 DEF NothingLeaks, UsesTun
  <2>7. RouteReceiverOpen'
    <3>1. \A id \in DOMAIN sessions : sessions[id].tx \in Conn
      BY DEF TunInv, TunTypeOK, SessionRoute
    <3> QED BY <1>1, <2>1, <2>3, <3>1 DEF RouteReceiverOpen
  <2>8. ReturnsReachTheirClient'
    <3>1. ASSUME NEW d \in Conn, NEW i \in 1..Len(queued'[d])
          PROVE  \E j \in 1..Len(queued[d]) : queued'[d][i] = queued[d][j]
      <4>1. queued[c] \in Seq(ReturnFrame) /\ queued[c] # <<>>
        BY <1>5 DEF TakeFrame, ServerTypeOK, TunTypeOK
      <4>2. CASE d = c
        <5>1. queued'[c] = Tail(queued[c])
          BY <1>5 DEF TakeFrame, ServerTypeOK, TunTypeOK
        <5>2. /\ Len(Tail(queued[c])) = Len(queued[c]) - 1
              /\ \A j \in 1..Len(Tail(queued[c])) : Tail(queued[c])[j] = queued[c][j+1]
              /\ Len(queued[c]) \in Nat
          BY <4>1
        <5>3. i + 1 \in 1..Len(queued[c])
          BY <4>2, <5>1, <5>2
        <5> QED BY <4>2, <5>1, <5>2, <5>3
      <4>3. CASE d # c
        BY <4>3, <1>5 DEF TakeFrame, ServerTypeOK, TunTypeOK
      <4> QED BY <4>2, <4>3
    <3> QED BY <1>1, <3>1 DEF ReturnsReachTheirClient
  <2> QED BY <1>3, <2>4, <2>5, <2>6, <2>7, <2>8
<1> QED BY <1>2, <1>4, <1>5

(* The teardown removes the route or the forwarder of the session, even    *)
(* when another connection of the session put it there.                    *)
LEMMA DetachInv ==
  ASSUME ServerInv, TunInv', NEW c \in Conn, Detach(c)
  PROVE  ServerInv'
<1> USE DEF ServerInv
<1>1. /\ pc[c] = "detach"
      /\ pc' = [pc EXCEPT ![c] = "unregister"]
      /\ UNCHANGED <<path, client, handle, pending, claimed>>
      /\ UNCHANGED <<next_session_id, sessions_by_client>>
      /\ UNCHANGED <<outbound, queued, receiver>>
  BY DEF Detach, Goto, regVars, tunVars, unregister_session
<1>2. \/ /\ UsesTun(c) /\ UNCHANGED <<forwarders, responses>>
         /\ sessions' = Without(sessions, handle[c])
         /\ ip_to_session' = RetainOthers(ip_to_session, handle[c])
      \/ /\ ~ UsesTun(c)
         /\ forwarders' = Without(forwarders, handle[c])
         /\ responses' = [responses EXCEPT ![c] = 0]
         /\ UNCHANGED <<sessions, ip_to_session>>
  BY DEF Detach, tunVars, unregister_session
<1>3. /\ \A id \in DOMAIN sessions' : /\ id \in DOMAIN sessions
                                      /\ sessions'[id] = sessions[id]
                                      /\ UsesTun(c) => id # handle[c]
      /\ \A ip \in DOMAIN ip_to_session' : /\ ip \in DOMAIN ip_to_session
                                           /\ ip_to_session'[ip] = ip_to_session[ip]
      /\ \A id \in DOMAIN forwarders' : /\ id \in DOMAIN forwarders
                                        /\ forwarders'[id] = forwarders[id]
                                        /\ ~ UsesTun(c) => id # handle[c]
  BY <1>2 DEF Without, RetainOthers, Restrict
<1>4. /\ \A d \in Conn \ {c} : pc'[d] = pc[d]
      /\ pc'[c] = "unregister"
  BY <1>1 DEF ServerTypeOK
<1>5. ServerTypeOK'
  <2>1. responses' \in [Conn -> 0..MaxResponses]
    <3>1. responses \in [Conn -> 0..MaxResponses]
      BY DEF ServerTypeOK
    <3> QED BY ONLY <1>2, <3>1, ResponsesAssumption
  <2>2. /\ DOMAIN forwarders' \subseteq SessionId
        /\ \A id \in DOMAIN forwarders' : forwarders'[id] \in Conn
    BY <1>3 DEF ServerTypeOK
  <2>3. pc' \in [Conn -> Labels]
    BY <1>1 DEF ServerTypeOK, Labels
  <2> QED BY <1>1, <2>1, <2>2, <2>3 DEF ServerTypeOK, TunInv
<1>6. HandlesAssigned'
  BY <1>1, <1>4 DEF HandlesAssigned, Bound, UsesTun
<1>7. IdsBelowNext' /\ RegistryAgrees' /\ SessionPerClient' /\ ReturnsReachTheirClient'
  BY <1>1 DEF IdsBelowNext, RegistryAgrees, SessionPerClient, ReturnsReachTheirClient
<1>8. ClaimsRecorded'
  BY <1>1, <1>3 DEF ClaimsRecorded
<1>9. NothingLeaks'
  <2>1. \A d \in Conn : pc[d] \in Bound => pc'[d] \in Bound
    BY <1>4 DEF Bound
  <2>2. \A d \in Conn \ {c} : pc[d] \in Attached => pc'[d] \in Attached
    BY <1>4
  <2> QED BY <1>1, <1>3, <2>1, <2>2 DEF NothingLeaks, UsesTun
<1>10. RouteReceiverOpen'
  <2>1. ASSUME NEW id \in DOMAIN sessions', sessions[id].tx = c PROVE FALSE
    <3>1. id \in DOMAIN sessions /\ handle[c] = id
      BY <1>3, <2>1 DEF RouteReceiverOpen
    <3>2. ~ UsesTun(c)
      BY <1>3, <3>1
    <3>3. receiver[c] = "open"
      BY <2>1, <3>1 DEF RouteReceiverOpen
    <3> QED BY <3>2, <3>3 DEF HandlesAssigned
  <2>2. \A id \in DOMAIN sessions : sessions[id].tx \in Conn
    BY DEF TunInv, TunTypeOK, SessionRoute
  <2> QED BY <1>1, <1>3, <1>4, <2>1, <2>2 DEF RouteReceiverOpen
<1> QED BY <1>5, <1>6, <1>7, <1>8, <1>9, <1>10
=============================================================================
