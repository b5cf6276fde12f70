----------------------------- MODULE TunBridge -----------------------------
(***************************************************************************)
(* bonded-server/src/tun_bridge.rs: the bridge between the connections of  *)
(* the server and its TUN device.  A connection registers the sending half *)
(* of a fresh channel under its session id, submits the packets of its     *)
(* client, and takes the return packets from the channel.  The bridge's    *)
(* two tasks are Writer (client packets to the device) and Reader (return  *)
(* packets to the channels).  sessions and ip_to_session share one mutex;  *)
(* an action is one critical section.                                      *)
(***************************************************************************)
EXTENDS Naturals, Sequences, FiniteSets, Maps

CONSTANTS SessionId,      \* ids of the session registry
          Chan,           \* channels, one per connection
          Ip,             \* IPv4 addresses that parse
          NotIp,          \* a payload parse_ipv4_src_dst rejects
          ConnectionId,   \* connection ids in frame headers
          MaxSubmitted,   \* bound: client packets queued at the same time
          MaxReturned     \* bound: return packets read in a behaviour

ASSUME FirstConnectionId == 1 \in ConnectionId
ASSUME NotIpAssumption == NotIp \notin Ip
ASSUME TunBounds == MaxSubmitted \in Nat /\ MaxReturned \in Nat

VARIABLES sessions,       \* session id -> SessionRoute
          ip_to_session,  \* Ipv4Addr -> session id
          outbound,       \* queue of OutboundPacket
          writer,         \* TRUE while the writer task runs
          reader,         \* TRUE while the reader task runs
          queued,         \* channel -> frames sent and not yet received
          receiver,       \* channel -> "unused", "open" or "dropped"
          returned,       \* history: return packets read from the device
          taken           \* history: channel -> frames received from it

tunVars == <<sessions, ip_to_session, outbound, writer, reader, queued,
             receiver, returned, taken>>

SessionRoute == [tx : Chan, connection_id : ConnectionId,
                 next_server_sequence : Nat]

OutboundPacket == [session_id : SessionId, connection_id : ConnectionId,
                   src : Ip \cup {NotIp}]

ReturnFrame == [connection_id : ConnectionId, sequence : Nat, dst : Ip]

(* ip_to_session.retain(|_, mapped| mapped != id) *)
RetainOthers(f, id) == Restrict(f, {ip \in DOMAIN f : f[ip] # id})

-----------------------------------------------------------------------------
TunInit == /\ sessions = Empty
           /\ ip_to_session = Empty
           /\ outbound = <<>>
           /\ writer = TRUE
           /\ reader = TRUE
           /\ queued = [ch \in Chan |-> <<>>]
           /\ receiver = [ch \in Chan |-> "unused"]
           /\ returned = 0
           /\ taken = [ch \in Chan |-> 0]

(* The route replaces an earlier one of the same id; its sender is then    *)
(* gone.  The addresses learned for the id are kept.                       *)
register_session(id, ch) ==
  /\ receiver[ch] = "unused"
  /\ receiver' = [receiver EXCEPT ![ch] = "open"]
  /\ sessions' = Put(sessions, id, [tx |-> ch, connection_id |-> 1,
                                    next_server_sequence |-> 0])
  /\ UNCHANGED <<ip_to_session, outbound, writer, reader, queued, returned, taken>>

unregister_session(id) ==
  /\ sessions' = Without(sessions, id)
  /\ ip_to_session' = RetainOthers(ip_to_session, id)
  /\ UNCHANGED <<outbound, writer, reader, queued, receiver, returned, taken>>

(* Succeeds while the writer task holds the receiving half of outbound. *)
submit_client_frame(id, cid, src) ==
  /\ writer
  /\ Len(outbound) < MaxSubmitted
  /\ outbound' = Append(outbound, [session_id |-> id, connection_id |-> cid,
                                   src |-> src])
  /\ UNCHANGED <<sessions, ip_to_session, writer, reader, queued, receiver,
                 returned, taken>>

(* The connection takes the next frame of its channel. *)
TakeFrame(ch) ==
  /\ receiver[ch] = "open"
  /\ queued[ch] # <<>>
  /\ queued' = [queued EXCEPT ![ch] = Tail(@)]
  /\ taken' = [taken EXCEPT ![ch] = @ + 1]
  /\ UNCHANGED <<sessions, ip_to_session, outbound, writer, reader, receiver,
                 returned>>

(* recv() of a channel returns None: empty, and no route holds its sender. *)
Disconnected(ch) == /\ queued[ch] = <<>>
                    /\ \A id \in DOMAIN sessions : sessions[id].tx # ch

(* The connection's task ends and its receiving half is dropped. *)
DropReceiver(ch) ==
  /\ receiver[ch] = "open"
  /\ receiver' = [receiver EXCEPT ![ch] = "dropped"]
  /\ queued' = [queued EXCEPT ![ch] = <<>>]
  /\ UNCHANGED <<sessions, ip_to_session, outbound, writer, reader, returned,
                 taken>>

-----------------------------------------------------------------------------
(* Seeded fault: the address is learned although the session is gone. *)
LearnAlways(pkt) ==
  /\ ip_to_session' = Put(ip_to_session, pkt.src, pkt.session_id)
  /\ UNCHANGED sessions

(* The writer learns the source address of a registered session. *)
Learn(pkt) ==
  IF pkt.session_id \in DOMAIN sessions
  THEN /\ sessions' = [sessions EXCEPT ![pkt.session_id].connection_id =
                                          pkt.connection_id]
       /\ ip_to_session' = Put(ip_to_session, pkt.src, pkt.session_id)
  ELSE UNCHANGED <<sessions, ip_to_session>>

WriterStep ==
  /\ writer
  /\ outbound # <<>>
  /\ LET pkt == Head(outbound)
     IN  \/ /\ pkt.src = NotIp                 \* dropped
            /\ outbound' = Tail(outbound)
            /\ UNCHANGED <<sessions, ip_to_session, writer>>
         \/ /\ pkt.src # NotIp
            /\ Learn(pkt)
            /\ \/ outbound' = Tail(outbound) /\ UNCHANGED writer
               \/ outbound' = <<>> /\ writer' = FALSE   \* write_all failed
  /\ UNCHANGED <<reader, queued, receiver, returned, taken>>

(* Seeded fault: the route's counter is not advanced. *)
RouteReturnUnnumbered(id, dst) ==
  LET route == sessions[id]
      frame == [connection_id |-> route.connection_id,
                sequence |-> route.next_server_sequence, dst |-> dst]
  IN  /\ queued' = [queued EXCEPT ![route.tx] = Append(@, frame)]
      /\ UNCHANGED <<sessions, ip_to_session>>

(* The reader numbers the packet and sends it to the route's channel; the  *)
(* route goes when the receiving half is gone.                             *)
RouteReturn(id, dst) ==
  LET route == sessions[id]
      frame == [connection_id |-> route.connection_id,
                sequence |-> route.next_server_sequence, dst |-> dst]
  IN  IF receiver[route.tx] = "open"
      THEN /\ queued' = [queued EXCEPT ![route.tx] = Append(@, frame)]
           /\ sessions' = [sessions EXCEPT ![id].next_server_sequence = @ + 1]
           /\ UNCHANGED ip_to_session
      ELSE /\ sessions' = Without(sessions, id)
           /\ ip_to_session' = RetainOthers(ip_to_session, id)
           /\ UNCHANGED queued

ReaderStep(dst) ==
  /\ reader
  /\ returned < MaxReturned
  /\ returned' = returned + 1
  /\ IF dst \notin DOMAIN ip_to_session
     THEN UNCHANGED <<sessions, ip_to_session, queued>>
     ELSE LET id == ip_to_session[dst]
          IN  IF id \in DOMAIN sessions
              THEN RouteReturn(id, dst)
              ELSE /\ ip_to_session' = Without(ip_to_session, dst)
                   /\ UNCHANGED <<sessions, queued>>
  /\ UNCHANGED <<outbound, writer, reader, receiver, taken>>

(* tun_reader.read failed. *)
ReaderFails ==
  /\ reader
  /\ reader' = FALSE
  /\ UNCHANGED <<sessions, ip_to_session, outbound, writer, queued, receiver,
                 returned, taken>>

BridgeTasks == \/ WriterStep
               \/ \E dst \in Ip : ReaderStep(dst)
               \/ ReaderFails

(* The bridge under connections that call it in any order. *)
TunNext == \/ BridgeTasks
           \/ \E id \in SessionId, ch \in Chan : register_session(id, ch)
           \/ \E id \in SessionId : unregister_session(id)
           \/ \E id \in SessionId, cid \in ConnectionId, src \in Ip \cup {NotIp} :
                submit_client_frame(id, cid, src)
           \/ \E ch \in Chan : TakeFrame(ch) \/ DropReceiver(ch)

TunSpec == TunInit /\ [][TunNext]_tunVars

-----------------------------------------------------------------------------
TunTypeOK ==
  /\ DOMAIN sessions \subseteq SessionId
  /\ \A id \in DOMAIN sessions : sessions[id] \in SessionRoute
  /\ DOMAIN ip_to_session \subseteq Ip
  /\ \A ip \in DOMAIN ip_to_session : ip_to_session[ip] \in SessionId
  /\ outbound \in Seq(OutboundPacket)
  /\ writer \in BOOLEAN
  /\ reader \in BOOLEAN
  /\ queued \in [Chan -> Seq(ReturnFrame)]
  /\ receiver \in [Chan -> {"unused", "open", "dropped"}]
  /\ returned \in Nat
  /\ taken \in [Chan -> Nat]

(* Every learned address belongs to a session that has a route, although   *)
(* addresses are learned from queued packets long after they were          *)
(* submitted: the reader's branch for a session without a route is dead.   *)
NoDanglingIp == \A ip \in DOMAIN ip_to_session :
                  ip_to_session[ip] \in DOMAIN sessions

(* A connection sees its return packets numbered 0, 1, 2, ... without a    *)
(* gap or a repetition, even when its route is replaced or removed while   *)
(* frames are still queued.                                                *)
ChannelGapless ==
  /\ \A ch \in Chan : \A i \in 1..Len(queued[ch]) :
        queued[ch][i].sequence = taken[ch] + i - 1
  /\ \A id \in DOMAIN sessions :
        LET route == sessions[id]
        IN  receiver[route.tx] = "open" =>
              route.next_server_sequence = taken[route.tx] + Len(queued[route.tx])

(* Two sessions never feed the same connection. *)
OneRoutePerChannel == \A i, j \in DOMAIN sessions :
                        sessions[i].tx = sessions[j].tx => i = j
=============================================================================
