--------------------------- MODULE ServerSessions ---------------------------
(***************************************************************************)
(* The connection tasks of the server and the registries they share:       *)
(* run_server (main.rs), handle_websocket_session (bootstrap.rs) and       *)
(* handle_quic_connection (quic.rs) over SessionRegistry, the forwarder    *)
(* registry and the TUN bridge.  The three handlers have the same shape;   *)
(* they differ in who serves the client's packets (only NaiveTCP can use   *)
(* the TUN bridge) and in what a failed send in the drain loop does.       *)
(* A step is what a task does between two locks or awaits.                 *)
(*                                                                         *)
(* Abstracted: the authentication handshake is its outcome, a forwarder is *)
(* the number of responses it has queued.                                  *)
(***************************************************************************)
EXTENDS TunBridge

CONSTANTS Client,         \* device public keys
          Kind,           \* connection -> "tcp", "ws" or "quic"
          Device,         \* connection -> client that authenticates on it
          Introduced,     \* <<provider, consumer>> with a valid introduction
          TunMode,        \* the server was started with a TUN device
          MaxResponses    \* bound: responses queued by one forwarder

Conn == Chan
NoSession == -1
NoClient == "no client"

ASSUME KindAssumption == Kind \in [Conn -> {"tcp", "ws", "quic"}]
ASSUME DeviceAssumption == Device \in [Conn -> Client]
ASSUME IntroducedAssumption == Introduced \subseteq Client \X Client
ASSUME TunModeAssumption == TunMode \in BOOLEAN
ASSUME ResponsesAssumption == MaxResponses \in Nat
ASSUME SessionIdAssumption == SessionId \subseteq Nat
ASSUME NoClientAssumption == NoClient \notin Client

VARIABLES pc,                 \* where each connection's task is
          path,               \* connection -> "up" or "down"
          client,             \* connection -> binding.client_public_key
          handle,             \* connection -> session id
          pending,            \* connection -> initial_frame not yet served
          next_session_id,    \* SessionRegistry
          sessions_by_client, \* SessionRegistry: client -> session id
          forwarders,         \* ForwarderRegistry: session id -> connection
          responses,          \* connection -> frames in its forward_rx
          claimed             \* history: <<client, ip>> a client sent from

taskVars == <<pc, path, client, handle, pending>>
regVars == <<next_session_id, sessions_by_client>>
serverVars == <<taskVars, regVars, forwarders, responses, claimed, tunVars>>

UsesTun(c) == TunMode /\ Kind[c] = "tcp"

Goto(c, label) == pc' = [pc EXCEPT ![c] = label]

-----------------------------------------------------------------------------
ServerInit == /\ TunInit
              /\ pc = [c \in Conn |-> "auth"]
              /\ path = [c \in Conn |-> "up"]
              /\ client = [c \in Conn |-> NoClient]
              /\ handle = [c \in Conn |-> NoSession]
              /\ pending = [c \in Conn |-> FALSE]
              /\ next_session_id = 0
              /\ sessions_by_client = Empty
              /\ forwarders = Empty
              /\ responses = [c \in Conn |-> 0]
              /\ claimed = {}

(* The client or the network closes the path: recv and send fail from now. *)
(* A task past its loop no longer looks at the path.                       *)
PathFails(c) ==
  /\ path[c] = "up"
  /\ pc[c] \in {"auth", "bind", "register", "attach", "loop"}
  /\ path' = [path EXCEPT ![c] = "down"]
  /\ UNCHANGED <<pc, client, handle, pending, regVars, forwarders, responses,
                 claimed, tunVars>>

(* The handshake succeeds, or fails and the task ends. *)
Authenticate(c) ==
  /\ pc[c] = "auth"
  /\ \/ path[c] = "up" /\ Goto(c, "bind")
     \/ Goto(c, "done")
  /\ UNCHANGED <<path, client, handle, pending, regVars, forwarders, responses,
                 claimed, tunVars>>

(* resolve_session_binding: the first frame is kept for the loop, or is a  *)
(* relay registration that binds the connection to the consumer.           *)
resolve_session_binding(c) ==
  /\ pc[c] = "bind"
  /\ \/ /\ path[c] = "up"
        /\ client' = [client EXCEPT ![c] = Device[c]]
        /\ pending' = [pending EXCEPT ![c] = TRUE]
        /\ Goto(c, "register")
     \/ /\ path[c] = "up"
        /\ \E k \in Client :
             /\ <<Device[c], k>> \in Introduced
             /\ client' = [client EXCEPT ![c] = k]
        /\ UNCHANGED pending
        /\ Goto(c, "register")
     \/ /\ Goto(c, "done")            \* recv failed, or a bad registration
        /\ UNCHANGED <<client, pending>>
  /\ UNCHANGED <<path, handle, regVars, forwarders, responses, claimed, tunVars>>

(* Seeded fault: the id counter is not advanced. *)
register_reusing_id(c) ==
  /\ pc[c] = "register"
  /\ sessions_by_client' = Put(sessions_by_client, client[c], next_session_id)
  /\ handle' = [handle EXCEPT ![c] = next_session_id]
  /\ UNCHANGED next_session_id
  /\ Goto(c, "attach")
  /\ UNCHANGED <<path, client, pending, forwarders, responses, claimed, tunVars>>

register_client(c) ==
  /\ pc[c] = "register"
  /\ IF client[c] \in DOMAIN sessions_by_client
     THEN /\ handle' = [handle EXCEPT ![c] = sessions_by_client[client[c]]]
          /\ UNCHANGED regVars
     ELSE /\ next_session_id \in SessionId
          /\ handle' = [handle EXCEPT ![c] = next_session_id]
          /\ sessions_by_client' =
               Put(sessions_by_client, client[c], next_session_id)
          /\ next_session_id' = next_session_id + 1
  /\ Goto(c, "attach")
  /\ UNCHANGED <<path, client, pending, forwarders, responses, claimed, tunVars>>

(* forwarders.insert or bridge.register_session; both replace an entry     *)
(* that another connection of the same session made.                       *)
Attach(c) ==
  /\ pc[c] = "attach"
  /\ \/ /\ UsesTun(c)
        /\ register_session(handle[c], c)
        /\ UNCHANGED forwarders
     \/ /\ ~ UsesTun(c)
        /\ forwarders' = Put(forwarders, handle[c], c)
        /\ UNCHANGED tunVars
  /\ Goto(c, "loop")
  /\ UNCHANGED <<path, client, handle, pending, regVars, responses, claimed>>

-----------------------------------------------------------------------------
(* A data frame goes to the TUN bridge or to the forwarder. *)
Forward(c) ==
  \/ /\ UsesTun(c)
     /\ \/ \E src \in Ip \cup {NotIp} :
             /\ submit_client_frame(handle[c], 1, src)
             /\ claimed' = claimed \cup {<<client[c], ip>> : ip \in {src} \cap Ip}
             /\ UNCHANGED pc
        \/ /\ ~ writer                   \* outbound channel closed
           /\ Goto(c, "detach")
           /\ UNCHANGED <<claimed, tunVars>>
  \/ /\ ~ UsesTun(c)                     \* ingest_packet
     /\ UNCHANGED <<pc, claimed, tunVars>>

(* A pong is sent on the connection; the loop ends when that fails. *)
Pong(c) ==
  /\ IF path[c] = "up" THEN UNCHANGED pc ELSE Goto(c, "detach")
  /\ UNCHANGED <<claimed, tunVars>>

(* The initial frame is served before the loop selects. *)
ServePending(c) ==
  /\ pc[c] = "loop"
  /\ pending[c]
  /\ pending' = [pending EXCEPT ![c] = FALSE]
  /\ Forward(c) \/ Pong(c)
  /\ UNCHANGED <<path, client, handle, regVars, forwarders, responses>>

(* Seeded fault: a failed recv does not end the loop. *)
ReceiveIgnoringFailure(c) ==
  /\ pc[c] = "loop"
  /\ ~ pending[c]
  /\ path[c] = "up"
  /\ Forward(c) \/ Pong(c)
  /\ UNCHANGED <<path, client, handle, pending, regVars, forwarders, responses>>

(* transport.recv() in the select: a frame, or the end of the session. *)
Receive(c) ==
  /\ pc[c] = "loop"
  /\ ~ pending[c]
  /\ \/ /\ path[c] = "up"
        /\ Forward(c) \/ Pong(c)
     \/ /\ path[c] = "down"
        /\ Goto(c, "detach")
        /\ UNCHANGED <<claimed, tunVars>>
  /\ UNCHANGED <<path, client, handle, pending, regVars, forwarders, responses>>

(* The forwarder has a packet for the client. *)
ForwarderResponds(c) ==
  /\ pc[c] = "loop"
  /\ ~ UsesTun(c)
  /\ responses[c] < MaxResponses
  /\ responses' = [responses EXCEPT ![c] = @ + 1]
  /\ UNCHANGED <<taskVars, regVars, forwarders, claimed, tunVars>>

(* A response of the forwarder or a return packet of the bridge leaves the *)
(* connection's queue.                                                     *)
TakeResponse(c) ==
  \/ UsesTun(c) /\ TakeFrame(c) /\ UNCHANGED responses
  \/ /\ responses[c] > 0
     /\ responses' = [responses EXCEPT ![c] = @ - 1]
     /\ UNCHANGED tunVars

(* A response is sent.  A failed send ends the task in the select and, in  *)
(* the QUIC handler, in the drain loop; the other drain loops lose the     *)
(* frame and go on.                                                        *)
SendResponse(c) ==
  /\ pc[c] = "loop"
  /\ TakeResponse(c)
  /\ \/ path[c] = "up" /\ UNCHANGED pc
     \/ path[c] = "down" /\ Kind[c] # "quic" /\ UNCHANGED pc
     \/ /\ path[c] = "down"
        /\ Kind[c] = "quic" \/ ~ pending[c]
        /\ Goto(c, "detach")
  /\ UNCHANGED <<path, client, handle, pending, regVars, forwarders, claimed>>

(* tun_rx.recv() returns None: the route of this connection is gone. *)
RouteGone(c) ==
  /\ pc[c] = "loop"
  /\ ~ pending[c]
  /\ UsesTun(c)
  /\ Disconnected(c)
  /\ Goto(c, "detach")
  /\ UNCHANGED <<path, client, handle, pending, regVars, forwarders, responses,
                 claimed, tunVars>>

-----------------------------------------------------------------------------
(* Seeded fault: the teardown forgets the bridge or the forwarder. *)
DetachNothing(c) ==
  /\ pc[c] = "detach"
  /\ Goto(c, "unregister")
  /\ UNCHANGED <<path, client, handle, pending, regVars, responses, forwarders,
                 claimed, tunVars>>

(* Seeded fault: the route goes, the addresses learned for it stay. *)
DetachRouteOnly(c) ==
  /\ pc[c] = "detach"
  /\ sessions' = Without(sessions, handle[c])
  /\ Goto(c, "unregister")
  /\ UNCHANGED <<path, client, handle, pending, regVars, responses, forwarders,
                 claimed, ip_to_session, outbound, writer, reader, queued,
                 receiver, returned, taken>>

(* unregister_session, or clear_session and forwarders.remove. *)
Detach(c) ==
  /\ pc[c] = "detach"
  /\ \/ /\ UsesTun(c)
        /\ unregister_session(handle[c])
        /\ UNCHANGED <<forwarders, responses>>
     \/ /\ ~ UsesTun(c)
        /\ forwarders' = Without(forwarders, handle[c])
        /\ responses' = [responses EXCEPT ![c] = 0]
        /\ UNCHANGED tunVars
  /\ Goto(c, "unregister")
  /\ UNCHANGED <<path, client, handle, pending, regVars, claimed>>

(* The last statement; the task's locals, tun_rx among them, go with it. *)
unregister_client(c) ==
  /\ pc[c] = "unregister"
  /\ sessions_by_client' = Without(sessions_by_client, client[c])
  /\ \/ UsesTun(c) /\ DropReceiver(c)
     \/ ~ UsesTun(c) /\ UNCHANGED tunVars
  /\ Goto(c, "done")
  /\ UNCHANGED <<path, client, handle, pending, next_session_id, forwarders,
                 responses, claimed>>

TaskStep(c) ==
  \/ Authenticate(c) \/ resolve_session_binding(c) \/ register_client(c)
  \/ Attach(c) \/ ServePending(c) \/ Receive(c) \/ SendResponse(c)
  \/ RouteGone(c) \/ Detach(c) \/ unregister_client(c)

(* A reader task that failed is one that takes no more steps. *)
Bridge ==
  /\ TunMode
  /\ WriterStep \/ \E dst \in Ip : ReaderStep(dst)
  /\ UNCHANGED <<taskVars, regVars, forwarders, responses, claimed>>

ServerNext == \/ \E c \in Conn : TaskStep(c) \/ PathFails(c) \/ ForwarderResponds(c)
              \/ Bridge

ServerSpec == ServerInit /\ [][ServerNext]_serverVars

(* A task that has a step to take is scheduled, and every iteration of its *)
(* loop comes to the initial frame or to the select, which polls recv.     *)
FairServerSpec ==
  /\ ServerSpec
  /\ \A c \in Conn : /\ WF_serverVars(TaskStep(c))
                     /\ WF_serverVars(ServePending(c) \/ Receive(c))

-----------------------------------------------------------------------------
Labels == {"auth", "bind", "register", "attach", "loop", "detach",
           "unregister", "done"}
Bound == {"attach", "loop", "detach", "unregister"}   \* in SessionRegistry
Attached == {"loop", "detach"}                        \* in the bridge or the forwarders

ServerTypeOK ==
  /\ TunTypeOK
  /\ pc \in [Conn -> Labels]
  /\ path \in [Conn -> {"up", "down"}]
  /\ client \in [Conn -> Client \cup {NoClient}]
  /\ handle \in [Conn -> SessionId \cup {NoSession}]
  /\ pending \in [Conn -> BOOLEAN]
  /\ next_session_id \in Nat
  /\ DOMAIN sessions_by_client \subseteq Client
  /\ \A k \in DOMAIN sessions_by_client : sessions_by_client[k] \in SessionId
  /\ DOMAIN forwarders \subseteq SessionId
  /\ \A id \in DOMAIN forwarders : forwarders[id] \in Conn
  /\ responses \in [Conn -> 0..MaxResponses]
  /\ claimed \subseteq Client \X Ip

(* No registration outlives its connections: whatever is in the session    *)
(* registry, the forwarder registry or the bridge belongs to a connection  *)
(* whose teardown is still to come, in every interleaving of connections   *)
(* that share a session.                                                   *)
NothingLeaks ==
  /\ \A k \in DOMAIN sessions_by_client :
        \E c \in Conn : /\ pc[c] \in Bound
                        /\ client[c] = k
                        /\ handle[c] = sessions_by_client[k]
  /\ \A id \in DOMAIN forwarders :
        \E c \in Conn : pc[c] \in Attached /\ handle[c] = id /\ ~ UsesTun(c)
  /\ \A id \in DOMAIN sessions :
        \E c \in Conn : pc[c] \in Attached /\ handle[c] = id /\ UsesTun(c)

(* A session id belongs to one client for ever: connections of two clients *)
(* never share one, though ids are looked up, dropped and given out again  *)
(* while older connections still use theirs.                               *)
SessionPerClient ==
  \A c, d \in Conn : handle[c] = handle[d] /\ handle[c] # NoSession
                        => client[c] = client[d]

(* The receiving half of a route is never gone: the reader task's branch   *)
(* for a failed send is dead.                                              *)
RouteReceiverOpen ==
  \A id \in DOMAIN sessions :
    LET c == sessions[id].tx
    IN  receiver[c] = "open" /\ handle[c] = id /\ pc[c] \in Attached

(* A return packet is only queued for a connection of a client that has    *)
(* sent from its destination address.                                      *)
ReturnsReachTheirClient ==
  \A c \in Conn : \A i \in 1..Len(queued[c]) :
    <<client[c], queued[c][i].dst>> \in claimed

(* A connection whose path has failed is torn down completely. *)
TeardownCompletes ==
  \A c \in Conn : path[c] = "down" ~> pc[c] = "done"

(* The connections use the bridge as TunBridge assumes. *)
UsesBridge == TunSpec

(* What the requirements say of a session with several paths: it does not  *)
(* end while one of them remains.  A client one of whose connections was   *)
(* torn down although its path is up has another connection.               *)
SessionSurvives ==
  \A c \in Conn : /\ pc[c] \in {"detach", "unregister", "done"}
                  /\ handle[c] # NoSession
                  /\ path[c] = "up"
                  /\ writer
    => \E d \in Conn : /\ client[d] = client[c]
                       /\ pc[d] \in {"register", "attach", "loop"}
=============================================================================
