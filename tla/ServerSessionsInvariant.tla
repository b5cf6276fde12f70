----------------------- MODULE ServerSessionsInvariant -----------------------
(***************************************************************************)
(* The inductive invariant of ServerSessions, and that the steps which set *)
(* a connection up preserve it.                                            *)
(***************************************************************************)
EXTENDS ServerSessions, TunBridgeProofs

(* A connection has a session from register_client on and a channel from   *)
(* Attach on.                                                              *)
HandlesAssigned ==
  \A c \in Conn :
    /\ pc[c] \in {"auth", "bind", "register"} => handle[c] = NoSession
    /\ pc[c] \in Bound => handle[c] \in SessionId
    /\ pc[c] \in Bound \cup {"register"} => client[c] \in Client
    /\ pc[c] \in {"auth", "bind", "register", "attach"} => receiver[c] = "unused"
    /\ ~ UsesTun(c) => receiver[c] = "unused"

(* next_session_id is above every id in use. *)
IdsBelowNext ==
  /\ \A c \in Conn : handle[c] # NoSession => handle[c] < next_session_id
  /\ \A k \in DOMAIN sessions_by_client : sessions_by_client[k] < next_session_id
  /\ \A i \in 1..Len(outbound) : outbound[i].session_id < next_session_id

(* The registry and the connections agree on who owns an id. *)
RegistryAgrees ==
  \A k \in DOMAIN sessions_by_client : \A c \in Conn :
    handle[c] = sessions_by_client[k] => client[c] = k

(* An address that is learned or about to be learned for a session was     *)
(* sent from by the client of that session.                                *)
ClaimsRecorded ==
  \A c \in Conn :
    /\ \A ip \in DOMAIN ip_to_session :
         handle[c] = ip_to_session[ip] => <<client[c], ip>> \in claimed
    /\ \A i \in 1..Len(outbound) :
         /\ handle[c] = outbound[i].session_id
         /\ outbound[i].src \in Ip
         => <<client[c], outbound[i].src>> \in claimed

ServerInv == /\ ServerTypeOK
             /\ TunInv
             /\ HandlesAssigned
             /\ IdsBelowNext
             /\ RegistryAgrees
             /\ SessionPerClient
             /\ NothingLeaks
             /\ RouteReceiverOpen
             /\ ClaimsRecorded
             /\ ReturnsReachTheirClient

USE DEF Conn, NoSession

LEMMA ServerInitInv == ServerInit => ServerInv
<1> SUFFICES ASSUME ServerInit PROVE ServerInv
  OBVIOUS
<1>1. TunInv
  BY TunInitInv DEF ServerInit
<1>2. ServerTypeOK
  BY <1>1, ResponsesAssumption DEF ServerInit, ServerTypeOK, TunInv, Labels, Empty
<1>3. HandlesAssigned /\ IdsBelowNext /\ RegistryAgrees /\ SessionPerClient
  BY DEF ServerInit, TunInit, HandlesAssigned, IdsBelowNext, RegistryAgrees,
         SessionPerClient, Bound, Empty
<1>4. NothingLeaks /\ RouteReceiverOpen /\ ClaimsRecorded /\ ReturnsReachTheirClient
  BY DEF ServerInit, TunInit, NothingLeaks, RouteReceiverOpen, ClaimsRecorded,
         ReturnsReachTheirClient, Empty
<1> QED BY <1>1, <1>2, <1>3, <1>4 DEF ServerInv

(* Every step of the server is a step of the bridge or leaves it alone.    *)
LEMMA StepUsesBridge ==
  ASSUME ServerInv, [ServerNext]_serverVars
  PROVE  [TunNext]_tunVars
<1>1. \A c \in Conn : pc[c] \in Bound => handle[c] \in SessionId
  BY DEF ServerInv, HandlesAssigned
<1>2. ASSUME NEW c \in Conn, TaskStep(c) PROVE [TunNext]_tunVars
  <2>1. CASE Authenticate(c) \/ resolve_session_binding(c) \/ register_client(c)
             \/ RouteGone(c)
    BY <2>1 DEF Authenticate, resolve_session_binding, register_client, RouteGone
  <2>2. CASE Attach(c)
    BY <1>1, <2>2 DEF Attach, Bound, TunNext
  <2>3. CASE ServePending(c) \/ Receive(c)
    <3>1. pc[c] = "loop" /\ (Forward(c) \/ UNCHANGED tunVars)
      BY <2>3 DEF ServePending, Receive, Pong
    <3> QED BY <1>1, <3>1, FirstConnectionId DEF Forward, Bound, TunNext
  <2>4. CASE SendResponse(c)
    BY <2>4 DEF SendResponse, TakeResponse, TunNext
  <2>5. CASE Detach(c)
    BY <1>1, <2>5 DEF Detach, Bound, TunNext
  <2>6. CASE unregister_client(c)
    BY <2>6 DEF unregister_client, TunNext
  <2> QED BY <1>2, <2>1, <2>2, <2>3, <2>4, <2>5, <2>6 DEF TaskStep
<1>3. ASSUME NEW c \in Conn, PathFails(c) \/ ForwarderResponds(c)
      PROVE  [TunNext]_tunVars
  BY <1>3 DEF PathFails, ForwarderResponds
<1>4. CASE Bridge
  BY <1>4 DEF Bridge, TunNext, BridgeTasks
<1>5. CASE UNCHANGED serverVars
  BY <1>5 DEF serverVars
<1> QED BY <1>2, <1>3, <1>4, <1>5 DEF ServerNext

-----------------------------------------------------------------------------
(* The ids are numbers. *)
LEMMA IdsAreNumbers ==
  ASSUME ServerTypeOK
  PROVE  /\ \A k \in DOMAIN sessions_by_client : sessions_by_client[k] \in Nat
         /\ \A ip \in DOMAIN ip_to_session : ip_to_session[ip] \in Nat
         /\ \A i \in 1..Len(outbound) : outbound[i].session_id \in Nat
         /\ \A c \in Conn : handle[c] # NoSession => handle[c] \in Nat
         /\ next_session_id \in Nat
<1>1. \A x \in SessionId : x \in Nat
  BY SessionIdAssumption
<1>2. \A k \in DOMAIN sessions_by_client : sessions_by_client[k] \in Nat
  BY <1>1 DEF ServerTypeOK
<1>3. \A ip \in DOMAIN ip_to_session : ip_to_session[ip] \in Nat
  BY <1>1 DEF ServerTypeOK, TunTypeOK
<1>4. ASSUME NEW i \in 1..Len(outbound) PROVE outbound[i].session_id \in Nat
  <2>1. outbound[i] \in OutboundPacket
    BY DEF ServerTypeOK, TunTypeOK
  <2>2. outbound[i].session_id \in SessionId
    BY <2>1 DEF OutboundPacket
  <2> QED BY <1>1, <2>2
<1>5. \A c \in Conn : handle[c] # NoSession => handle[c] \in Nat
  BY <1>1 DEF ServerTypeOK
<1> QED BY <1>2, <1>3, <1>4, <1>5 DEF ServerTypeOK

(* Steps that touch nothing but where a task is, the paths and the queues  *)
(* of responses.                                                           *)
LEMMA LocalInv ==
  ASSUME ServerInv, TunInv', ServerTypeOK', NEW c \in Conn,
         UNCHANGED <<tunVars, regVars, forwarders, handle, client, claimed>>,
         \/ pc' = pc
         \/ pc[c] = "auth" /\ \E l \in {"bind", "done"} : pc' = [pc EXCEPT ![c] = l]
         \/ pc[c] = "bind" /\ pc' = [pc EXCEPT ![c] = "done"]
         \/ pc[c] = "loop" /\ pc' = [pc EXCEPT ![c] = "detach"]
  PROVE  ServerInv'
<1> USE DEF ServerInv
<1>1. /\ UNCHANGED <<sessions, ip_to_session, outbound, queued, receiver>>
      /\ UNCHANGED <<next_session_id, sessions_by_client>>
  BY DEF tunVars, regVars
<1>2. \A d \in Conn :
        \/ pc'[d] = pc[d]
        \/ pc[d] = "auth" /\ pc'[d] \in {"bind", "done"}
        \/ pc[d] = "bind" /\ pc'[d] = "done"
        \/ pc[d] = "loop" /\ pc'[d] = "detach"
  BY DEF ServerTypeOK
<1>3. HandlesAssigned'
  BY <1>1, <1>2 DEF HandlesAssigned, Bound, UsesTun
<1>4. IdsBelowNext' /\ RegistryAgrees' /\ SessionPerClient' /\ ClaimsRecorded'
      /\ ReturnsReachTheirClient'
  BY <1>1 DEF IdsBelowNext, RegistryAgrees, SessionPerClient, ClaimsRecorded,
              ReturnsReachTheirClient
<1>5. NothingLeaks'
  <2>1. \A d \in Conn : pc[d] \in Bound => pc'[d] \in Bound
    BY <1>2 DEF Bound
  <2>2. \A d \in Conn : pc[d] \in Attached => pc'[d] \in Attached
    BY <1>2 DEF Attached
  <2> QED BY <1>1, <2>1, <2>2 DEF NothingLeaks, UsesTun
<1>6. RouteReceiverOpen'
  <2>1. \A d \in Conn : pc[d] \in Attached => pc'[d] \in Attached
    BY <1>2 DEF Attached
  <2>2. \A id \in DOMAIN sessions : sessions[id].tx \in Conn
    BY DEF TunInv, TunTypeOK, SessionRoute
  <2> QED BY <1>1, <2>1, <2>2 DEF RouteReceiverOpen
<1> QED BY <1>3, <1>4, <1>5, <1>6

(* resolve_session_binding gives the connection a client; it has no        *)
(* session and no channel yet.                                             *)
LEMMA BindInv ==
  ASSUME ServerInv, TunInv', NEW c \in Conn, resolve_session_binding(c)
  PROVE  ServerInv'
<1> USE DEF ServerInv
<1>1. /\ pc[c] = "bind"
      /\ UNCHANGED <<path, handle, forwarders, responses, claimed>>
      /\ UNCHANGED <<sessions, ip_to_session, outbound, queued, receiver>>
      /\ UNCHANGED <<next_session_id, sessions_by_client>>
      /\ UNCHANGED <<tunVars, regVars>>
  BY DEF resolve_session_binding, tunVars, regVars
<1>2. CASE pc' = [pc EXCEPT ![c] = "done"] /\ UNCHANGED <<client, pending>>
  <2>1. ServerTypeOK'
    BY <1>1, <1>2 DEF ServerTypeOK, Labels, TunInv
  <2> QED BY <1>1, <1>2, <2>1, LocalInv
<1>3. CASE \E k \in Client : /\ client' = [client EXCEPT ![c] = k]
                             /\ pc' = [pc EXCEPT ![c] = "register"]
                             /\ pending' \in [Conn -> BOOLEAN]
  <2>1. PICK k \in Client : /\ client' = [client EXCEPT ![c] = k]
                            /\ pc' = [pc EXCEPT ![c] = "register"]
                            /\ pending' \in [Conn -> BOOLEAN]
    BY <1>3
  <2>2. /\ handle[c] = NoSession /\ receiver[c] = "unused" /\ queued[c] = <<>>
        /\ pc'[c] = "register" /\ client'[c] = k
        /\ \A d \in Conn \ {c} : pc'[d] = pc[d] /\ client'[d] = client[d]
    BY <1>1, <2>1 DEF HandlesAssigned, TunInv, UnusedIsFresh, ServerTypeOK
  <2>3. ServerTypeOK'
    BY <1>1, <2>1 DEF ServerTypeOK, Labels, TunInv
  <2>4. HandlesAssigned' /\ IdsBelowNext'
    BY <1>1, <2>2 DEF HandlesAssigned, IdsBelowNext, Bound
  <2>5. RegistryAgrees' /\ SessionPerClient' /\ ClaimsRecorded'
    <3>1. /\ \A j \in DOMAIN sessions_by_client : sessions_by_client[j] \in Nat
          /\ \A ip \in DOMAIN ip_to_session : ip_to_session[ip] \in Nat
          /\ \A i \in 1..Len(outbound) : outbound[i].session_id \in Nat
      BY IdsAreNumbers
    <3>2. \A n \in Nat : handle[c] # n
      BY <2>2
    <3>3. RegistryAgrees'
      BY <1>1, <2>2, <3>1, <3>2 DEF RegistryAgrees
    <3>4. SessionPerClient'
      BY <1>1, <2>2 DEF SessionPerClient
    <3>5. ClaimsRecorded'
      BY <1>1, <2>2, <3>1, <3>2 DEF ClaimsRecorded
    <3> QED BY <3>3, <3>4, <3>5
  <2>6. NothingLeaks'
    <3>1. c \notin {d \in Conn : pc[d] \in Bound}
      BY <1>1 DEF Bound
    <3>2. c \notin {d \in Conn : pc[d] \in Attached}
      BY <1>1 DEF Attached
    <3> QED BY <1>1, <2>2, <3>1, <3>2 DEF NothingLeaks, UsesTun
  <2>7. RouteReceiverOpen'
    <3>1. \A id \in DOMAIN sessions : sessions[id].tx \in Conn /\ sessions[id].tx # c
      BY <1>1, <2>2 DEF TunInv, TunTypeOK, SessionRoute, RouteReceiverOpen
    <3> QED BY <1>1, <2>2, <3>1 DEF RouteReceiverOpen
  <2>8. ReturnsReachTheirClient'
    BY <1>1, <2>2 DEF ReturnsReachTheirClient
  <2> QED BY <2>3, <2>4, <2>5, <2>6, <2>7, <2>8
<1>4. Device[c] \in Client /\ [pending EXCEPT ![c] = TRUE] \in [Conn -> BOOLEAN]
      /\ pending \in [Conn -> BOOLEAN]
  BY DeviceAssumption DEF ServerTypeOK
<1> QED BY <1>2, <1>3, <1>4 DEF resolve_session_binding, Goto

(* register_client finds the client's session or makes one with a fresh id. *)
LEMMA RegisterClientInv ==
  ASSUME ServerInv, TunInv', NEW c \in Conn, register_client(c)
  PROVE  ServerInv'
<1> USE DEF ServerInv
<1>1. /\ pc[c] = "register"
      /\ pc' = [pc EXCEPT ![c] = "attach"]
      /\ UNCHANGED <<path, client, pending, forwarders, responses, claimed>>
      /\ UNCHANGED <<sessions, ip_to_session, outbound, queued, receiver>>
      /\ UNCHANGED tunVars
  BY DEF register_client, tunVars, Goto
<1>2. /\ client[c] \in Client /\ handle[c] = NoSession /\ receiver[c] = "unused"
      /\ pc'[c] = "attach"
      /\ \A d \in Conn \ {c} : pc'[d] = pc[d]
  BY <1>1 DEF HandlesAssigned, ServerTypeOK
<1>3. PICK x \in SessionId :
        /\ handle' = [handle EXCEPT ![c] = x]
        /\ \/ /\ client[c] \in DOMAIN sessions_by_client
              /\ x = sessions_by_client[client[c]]
              /\ UNCHANGED <<sessions_by_client, next_session_id>>
           \/ /\ x = next_session_id
              /\ client[c] \notin DOMAIN sessions_by_client
              /\ sessions_by_client' = Put(sessions_by_client, client[c], x)
              /\ next_session_id' = next_session_id + 1
  BY DEF register_client, regVars, ServerTypeOK
<1>4. /\ handle'[c] = x
      /\ \A d \in Conn \ {c} : handle'[d] = handle[d]
  BY <1>3 DEF ServerTypeOK
<1>5. /\ DOMAIN sessions_by_client' = DOMAIN sessions_by_client \cup {client[c]}
      /\ sessions_by_client'[client[c]] = x
      /\ \A k \in DOMAIN sessions_by_client :
            k # client[c] => sessions_by_client'[k] = sessions_by_client[k]
      /\ next_session_id' \in Nat /\ next_session_id <= next_session_id'
      /\ x \in Nat /\ x < next_session_id'
  <2>1. x \in Nat /\ next_session_id \in Nat
    BY SessionIdAssumption, IdsAreNumbers
  <2>2. CASE UNCHANGED <<sessions_by_client, next_session_id>>
             /\ client[c] \in DOMAIN sessions_by_client
             /\ x = sessions_by_client[client[c]]
    <3>1. x < next_session_id
      BY <2>2 DEF IdsBelowNext
    <3>2. DOMAIN sessions_by_client = DOMAIN sessions_by_client \cup {client[c]}
      BY <2>2
    <3> QED BY <2>1, <2>2, <3>1, <3>2
  <2>3. CASE /\ x = next_session_id
             /\ sessions_by_client' = Put(sessions_by_client, client[c], x)
             /\ next_session_id' = next_session_id + 1
    BY <2>1, <2>3 DEF Put
  <2> QED BY <1>3, <2>2, <2>3
<1>6. ServerTypeOK'
  BY <1>1, <1>2, <1>3, <1>5 DEF ServerTypeOK, Labels, TunInv
<1>7. HandlesAssigned'
  BY <1>1, <1>2, <1>4 DEF HandlesAssigned, Bound, UsesTun
<1>8. IdsBelowNext'
  <2>1. \A d \in Conn : handle'[d] # NoSession => handle'[d] < next_session_id'
    <3>1. ASSUME NEW d \in Conn \ {c}, handle[d] # NoSession
          PROVE  handle[d] < next_session_id'
      <4>1. handle[d] \in Nat /\ handle[d] < next_session_id
        BY <3>1, IdsAreNumbers DEF IdsBelowNext
      <4> QED BY <4>1, <1>5, IdsAreNumbers
    <3> QED BY <1>4, <1>5, <3>1
  <2>2. \A k \in DOMAIN sessions_by_client' : sessions_by_client'[k] < next_session_id'
    <3>1. ASSUME NEW k \in DOMAIN sessions_by_client
          PROVE  sessions_by_client[k] < next_session_id'
      <4>1. sessions_by_client[k] \in Nat /\ sessions_by_client[k] < next_session_id
        BY IdsAreNumbers DEF IdsBelowNext
      <4> QED BY <4>1, <1>5, IdsAreNumbers
    <3> QED BY <1>5, <3>1
  <2>3. ASSUME NEW i \in 1..Len(outbound) PROVE outbound[i].session_id < next_session_id'
    <3>1. outbound[i].session_id \in Nat
      BY IdsAreNumbers
    <3>2. outbound[i].session_id < next_session_id
      BY DEF IdsBelowNext
    <3> QED BY <1>5, <3>1, <3>2, IdsAreNumbers
  <2> QED BY <1>1, <2>1, <2>2, <2>3 DEF IdsBelowNext
<1>9. ASSUME NEW d \in Conn \ {c}, handle[d] = x PROVE client[d] = client[c]
  <2>1. CASE client[c] \in DOMAIN sessions_by_client /\ x = sessions_by_client[client[c]]
    BY <1>9, <2>1 DEF RegistryAgrees
  <2>2. CASE x = next_session_id
    BY <1>9, <2>2, <1>5 DEF IdsBelowNext
  <2> QED BY <1>3, <2>1, <2>2
<1>10. SessionPerClient'
  BY <1>1, <1>4, <1>5, <1>9 DEF SessionPerClient
<1>11. RegistryAgrees'
  <2>1. ASSUME NEW k \in DOMAIN sessions_by_client, k # client[c]
        PROVE  sessions_by_client[k] # x
    <3>1. PICK d \in Conn : pc[d] \in Bound /\ client[d] = k /\ handle[d] = sessions_by_client[k]
      BY DEF NothingLeaks
    <3>2. d # c
      BY <1>1, <3>1 DEF Bound
    <3> QED BY <1>9, <2>1, <3>1, <3>2
  <2> QED BY <1>1, <1>4, <1>5, <1>9, <2>1 DEF RegistryAgrees
<1>12. NothingLeaks'
  <2>1. \A d \in Conn : pc[d] \in Bound => d # c /\ pc'[d] \in Bound
    BY <1>1, <1>2 DEF Bound
  <2>2. \A d \in Conn : pc[d] \in Attached => d # c /\ pc'[d] \in Attached
    BY <1>1, <1>2 DEF Attached
  <2>3. pc'[c] \in Bound
    BY <1>2 DEF Bound
  <2> QED BY <1>1, <1>4, <1>5, <2>1, <2>2, <2>3 DEF NothingLeaks, UsesTun
<1>13. RouteReceiverOpen'
  <2>1. \A id \in DOMAIN sessions : sessions[id].tx \in Conn /\ sessions[id].tx # c
    BY <1>2 DEF TunInv, TunTypeOK, SessionRoute, RouteReceiverOpen
  <2> QED BY <1>1, <1>2, <1>4, <2>1 DEF RouteReceiverOpen
<1>14. ClaimsRecorded'
  <2>1. CASE client[c] \in DOMAIN sessions_by_client /\ x = sessions_by_client[client[c]]
    <3>1. PICK d \in Conn : /\ pc[d] \in Bound /\ client[d] = client[c] /\ handle[d] = x
      BY <2>1 DEF NothingLeaks
    <3> QED BY <1>1, <1>4, <3>1 DEF ClaimsRecorded
  <2>2. CASE x = next_session_id
    <3>1. ASSUME NEW ip \in DOMAIN ip_to_session PROVE ip_to_session[ip] # x
      <4>1. ip_to_session[ip] \in DOMAIN sessions
        BY DEF TunInv, NoDanglingIp
      <4>2. PICK d \in Conn : handle[d] = ip_to_session[ip]
        <5>1. sessions[ip_to_session[ip]].tx \in Conn
          BY <4>1 DEF TunInv, TunTypeOK, SessionRoute
        <5> QED BY <4>1, <5>1 DEF RouteReceiverOpen
      <4>3. ip_to_session[ip] \in Nat
        BY IdsAreNumbers
      <4> QED BY <2>2, <4>2, <4>3, <1>5 DEF IdsBelowNext
    <3>2. ASSUME NEW i \in 1..Len(outbound) PROVE outbound[i].session_id # x
      <4>1. outbound[i].session_id \in Nat /\ outbound[i].session_id < next_session_id
        BY IdsAreNumbers DEF IdsBelowNext
      <4> QED BY <2>2, <4>1
    <3> QED BY <1>1, <1>4, <3>1, <3>2 DEF ClaimsRecorded
  <2> QED BY <1>3, <2>1, <2>2
<1>15. ReturnsReachTheirClient'
  BY <1>1 DEF ReturnsReachTheirClient
<1> QED BY <1>6, <1>7, <1>8, <1>10, <1>11, <1>12, <1>13, <1>14, <1>15
=============================================================================
