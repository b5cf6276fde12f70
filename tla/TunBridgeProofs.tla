-------------------------- MODULE TunBridgeProofs --------------------------
(***************************************************************************)
(* Proofs about TunBridge, for any set of sessions, channels and addresses *)
(* and for connections that call the bridge in any order.                  *)
(***************************************************************************)
EXTENDS TunBridge, TLAPS

(* The elements of a sequence with one more, and with one less. *)
LEMMA AppendFacts ==
  ASSUME NEW S, NEW q \in Seq(S), NEW e \in S
  PROVE  /\ Append(q, e) \in Seq(S)
         /\ Len(Append(q, e)) = Len(q) + 1
         /\ \A i \in 1..Len(q) : Append(q, e)[i] = q[i]
         /\ Append(q, e)[Len(q) + 1] = e
OBVIOUS

LEMMA TailFacts ==
  ASSUME NEW S, NEW q \in Seq(S), q # <<>>
  PROVE  /\ Tail(q) \in Seq(S)
         /\ Len(Tail(q)) = Len(q) - 1
         /\ Len(q) \in Nat \ {0}
         /\ \A i \in 1..(Len(q) - 1) : Tail(q)[i] = q[i + 1]
OBVIOUS

(* A channel that was never registered has no route, no frame and no past. *)
UnusedIsFresh ==
  \A ch \in Chan : receiver[ch] = "unused" =>
    /\ queued[ch] = <<>>
    /\ taken[ch] = 0
    /\ \A id \in DOMAIN sessions : sessions[id].tx # ch

TunInv == /\ TunTypeOK
          /\ NoDanglingIp
          /\ OneRoutePerChannel
          /\ UnusedIsFresh
          /\ ChannelGapless

USE FirstConnectionId, NotIpAssumption, TunBounds

LEMMA TunInitInv == TunInit => TunInv
BY DEF TunInit, TunInv, TunTypeOK, NoDanglingIp, OneRoutePerChannel,
       UnusedIsFresh, ChannelGapless, Empty

LEMMA RegisterInv ==
  ASSUME TunInv, NEW id \in SessionId, NEW ch \in Chan, register_session(id, ch)
  PROVE  TunInv'
<1> DEFINE route == [tx |-> ch, connection_id |-> 1, next_server_sequence |-> 0]
<1> USE DEF TunInv
<1>1. /\ DOMAIN sessions' = DOMAIN sessions \cup {id}
      /\ sessions'[id] = route
      /\ \A i \in DOMAIN sessions : i # id => sessions'[i] = sessions[i]
      /\ route.tx = ch /\ route.next_server_sequence = 0
      /\ route \in SessionRoute
  BY DEF register_session, Put, SessionRoute
<1> HIDE DEF route
<1>2. /\ receiver[ch] = "unused"
      /\ receiver' = [receiver EXCEPT ![ch] = "open"]
      /\ UNCHANGED <<ip_to_session, outbound, writer, reader, queued, returned, taken>>
  BY DEF register_session
<1>3. \A i \in DOMAIN sessions : sessions[i].tx # ch
  BY <1>2 DEF UnusedIsFresh
<1>4. TunTypeOK'
  BY <1>1, <1>2 DEF TunTypeOK
<1>5. NoDanglingIp'
  BY <1>1, <1>2 DEF NoDanglingIp
<1>6. OneRoutePerChannel'
  BY <1>1, <1>3 DEF OneRoutePerChannel
<1>7. UnusedIsFresh'
  BY <1>1, <1>2 DEF UnusedIsFresh, TunTypeOK
<1>8. ChannelGapless'
  <2>1. \A i \in DOMAIN sessions' : i # id =>
          /\ i \in DOMAIN sessions /\ sessions'[i] = sessions[i]
          /\ receiver'[sessions[i].tx] = receiver[sessions[i].tx]
    BY <1>1, <1>2, <1>3 DEF TunTypeOK, SessionRoute
  <2>2. queued[ch] = <<>> /\ taken[ch] = 0
    BY <1>2 DEF UnusedIsFresh
  <2> QED BY <1>1, <1>2, <2>1, <2>2 DEF ChannelGapless
<1> QED BY <1>4, <1>5, <1>6, <1>7, <1>8

(* Removing a route with its addresses, as unregister_session does and as  *)
(* the reader does after a failed send.                                    *)
LEMMA RemoveRouteInv ==
  ASSUME TunInv, NEW id,
         sessions' = Without(sessions, id),
         ip_to_session' = RetainOthers(ip_to_session, id),
         UNCHANGED <<outbound, writer, reader, queued, receiver, taken>>,
         returned' \in Nat
  PROVE  TunInv'
<1> USE DEF TunInv
<1>1. /\ DOMAIN sessions' = DOMAIN sessions \ {id}
      /\ \A i \in DOMAIN sessions' : sessions'[i] = sessions[i]
  BY DEF Without, Restrict
<1>2. /\ DOMAIN ip_to_session' = {ip \in DOMAIN ip_to_session : ip_to_session[ip] # id}
      /\ \A ip \in DOMAIN ip_to_session' : ip_to_session'[ip] = ip_to_session[ip]
  BY DEF RetainOthers, Restrict
<1>3. TunTypeOK'
  BY <1>1, <1>2 DEF TunTypeOK
<1>4. NoDanglingIp'
  BY <1>1, <1>2 DEF NoDanglingIp
<1>5. OneRoutePerChannel' /\ UnusedIsFresh' /\ ChannelGapless'
  BY <1>1 DEF OneRoutePerChannel, UnusedIsFresh, ChannelGapless
<1> QED BY <1>3, <1>4, <1>5

LEMMA SubmitInv ==
  ASSUME TunInv, NEW id \in SessionId, NEW cid \in ConnectionId,
         NEW src \in Ip \cup {NotIp}, submit_client_frame(id, cid, src)
  PROVE  TunInv'
BY DEF TunInv, TunTypeOK, NoDanglingIp, OneRoutePerChannel, UnusedIsFresh,
       ChannelGapless, submit_client_frame, OutboundPacket

LEMMA TakeInv ==
  ASSUME TunInv, NEW ch \in Chan, TakeFrame(ch)
  PROVE  TunInv'
<1> USE DEF TunInv
<1>1. /\ receiver[ch] = "open" /\ queued[ch] # <<>>
      /\ queued' = [queued EXCEPT ![ch] = Tail(queued[ch])]
      /\ taken' = [taken EXCEPT ![ch] = taken[ch] + 1]
      /\ UNCHANGED <<sessions, ip_to_session, outbound, writer, reader, receiver, returned>>
  BY DEF TakeFrame
<1>2. /\ queued[ch] \in Seq(ReturnFrame)
      /\ Tail(queued[ch]) \in Seq(ReturnFrame)
      /\ Len(queued[ch]) \in Nat
      /\ Len(Tail(queued[ch])) = Len(queued[ch]) - 1
      /\ \A i \in 1..(Len(queued[ch]) - 1) : Tail(queued[ch])[i] = queued[ch][i + 1]
      /\ taken[ch] \in Nat
  BY <1>1 DEF TunTypeOK
<1>3. TunTypeOK'
  BY <1>1, <1>2 DEF TunTypeOK
<1>4. NoDanglingIp' /\ OneRoutePerChannel'
  BY <1>1 DEF NoDanglingIp, OneRoutePerChannel
<1>5. UnusedIsFresh'
  BY <1>1 DEF UnusedIsFresh, TunTypeOK
<1>6. ASSUME NEW c \in Chan, NEW i \in 1..Len(queued'[c])
      PROVE  queued'[c][i].sequence = taken'[c] + i - 1
  <2>1. CASE c = ch
    <3>1. queued'[c] = Tail(queued[ch]) /\ taken'[c] = taken[ch] + 1
      BY <2>1, <1>1 DEF TunTypeOK
    <3>2. i \in 1..(Len(queued[ch]) - 1) /\ i + 1 \in 1..Len(queued[ch])
      BY <3>1, <1>2
    <3>3. queued'[c][i] = queued[ch][i + 1]
      BY <3>1, <3>2, <1>2
    <3>4. queued[ch][i + 1].sequence = taken[ch] + (i + 1) - 1
      BY <3>2 DEF ChannelGapless
    <3> QED BY <3>1, <3>3, <3>4, <1>2
  <2>2. CASE c # ch
    BY <2>2, <1>1 DEF ChannelGapless, TunTypeOK
  <2> QED BY <2>1, <2>2
<1>7. ASSUME NEW id \in DOMAIN sessions', receiver'[sessions'[id].tx] = "open"
      PROVE  sessions'[id].next_server_sequence =
               taken'[sessions'[id].tx] + Len(queued'[sessions'[id].tx])
  <2>1. /\ sessions[id].next_server_sequence =
              taken[sessions[id].tx] + Len(queued[sessions[id].tx])
        /\ sessions[id].tx \in Chan
    BY <1>1, <1>7 DEF ChannelGapless, TunTypeOK, SessionRoute
  <2>2. CASE sessions[id].tx = ch
    <3>1. queued'[ch] = Tail(queued[ch]) /\ taken'[ch] = taken[ch] + 1
      BY <1>1 DEF TunTypeOK
    <3>2. Len(queued'[ch]) = Len(queued[ch]) - 1
      BY <3>1, <1>2
    <3>3. taken[ch] + Len(queued[ch]) = (taken[ch] + 1) + (Len(queued[ch]) - 1)
      BY <1>2
    <3>4. sessions'[id] = sessions[id]
      BY <1>1
    <3> QED BY <2>1, <2>2, <3>1, <3>2, <3>3, <3>4
  <2>3. CASE sessions[id].tx # ch
    BY <2>1, <2>3, <1>1 DEF TunTypeOK
  <2> QED BY <2>2, <2>3
<1> QED BY <1>3, <1>4, <1>5, <1>6, <1>7 DEF ChannelGapless

LEMMA DropInv ==
  ASSUME TunInv, NEW ch \in Chan, DropReceiver(ch)
  PROVE  TunInv'
<1> USE DEF TunInv
<1>1. /\ receiver' = [receiver EXCEPT ![ch] = "dropped"]
      /\ queued' = [queued EXCEPT ![ch] = <<>>]
      /\ UNCHANGED <<sessions, ip_to_session, outbound, writer, reader, returned, taken>>
  BY DEF DropReceiver
<1>2. TunTypeOK'
  BY <1>1 DEF TunTypeOK
<1>3. NoDanglingIp' /\ OneRoutePerChannel'
  BY <1>1 DEF NoDanglingIp, OneRoutePerChannel
<1>4. UnusedIsFresh'
  BY <1>1 DEF UnusedIsFresh, TunTypeOK
<1>5. ChannelGapless'
  BY <1>1 DEF ChannelGapless, TunTypeOK, SessionRoute
<1> QED BY <1>2, <1>3, <1>4, <1>5

LEMMA WriterInv ==
  ASSUME TunInv, WriterStep
  PROVE  TunInv'
<1> DEFINE pkt == Head(outbound)
<1> USE DEF TunInv
<1>1. /\ pkt \in OutboundPacket
      /\ Tail(outbound) \in Seq(OutboundPacket)
      /\ <<>> \in Seq(OutboundPacket)
      /\ UNCHANGED <<reader, queued, receiver, returned, taken>>
  BY DEF WriterStep, TunTypeOK
<1>2. outbound' \in Seq(OutboundPacket) /\ writer' \in BOOLEAN
  BY <1>1 DEF WriterStep, TunTypeOK
<1> HIDE DEF pkt
<1>3. CASE UNCHANGED <<sessions, ip_to_session>>
  BY <1>1, <1>2, <1>3 DEF TunTypeOK, NoDanglingIp, OneRoutePerChannel,
                          UnusedIsFresh, ChannelGapless
<1>4. CASE /\ pkt.src # NotIp
           /\ pkt.session_id \in DOMAIN sessions
           /\ sessions' = [sessions EXCEPT ![pkt.session_id].connection_id =
                                              pkt.connection_id]
           /\ ip_to_session' = Put(ip_to_session, pkt.src, pkt.session_id)
  <2>1. /\ pkt.src \in Ip /\ pkt.session_id \in SessionId
        /\ pkt.connection_id \in ConnectionId
    BY <1>1, <1>4 DEF OutboundPacket
  <2>2. /\ DOMAIN sessions' = DOMAIN sessions
        /\ \A i \in DOMAIN sessions :
              /\ sessions'[i] \in SessionRoute
              /\ sessions'[i].tx = sessions[i].tx
              /\ sessions'[i].next_server_sequence = sessions[i].next_server_sequence
    BY <1>4, <2>1 DEF TunTypeOK, SessionRoute
  <2>3. /\ DOMAIN ip_to_session' = DOMAIN ip_to_session \cup {pkt.src}
        /\ \A ip \in DOMAIN ip_to_session' :
              ip_to_session'[ip] = IF ip = pkt.src THEN pkt.session_id
                                                   ELSE ip_to_session[ip]
    BY <1>4 DEF Put
  <2>4. TunTypeOK'
    BY <1>1, <1>2, <2>1, <2>2, <2>3 DEF TunTypeOK
  <2>5. NoDanglingIp'
    BY <1>4, <2>2, <2>3 DEF NoDanglingIp
  <2>6. OneRoutePerChannel' /\ UnusedIsFresh'
    BY <1>1, <2>2 DEF OneRoutePerChannel, UnusedIsFresh
  <2>7. ChannelGapless'
    BY <1>1, <2>2 DEF ChannelGapless
  <2> QED BY <2>4, <2>5, <2>6, <2>7
<1> QED BY <1>3, <1>4 DEF WriterStep, Learn, pkt

(* The reader appends a frame numbered by the route's counter.             *)
LEMMA SendInv ==
  ASSUME TunInv, NEW id \in DOMAIN sessions, NEW dst \in Ip,
         receiver[sessions[id].tx] = "open",
         queued' = [queued EXCEPT ![sessions[id].tx] =
                      Append(@, [connection_id |-> sessions[id].connection_id,
                                 sequence |-> sessions[id].next_server_sequence,
                                 dst |-> dst])],
         sessions' = [sessions EXCEPT ![id].next_server_sequence = @ + 1],
         UNCHANGED <<ip_to_session, outbound, writer, reader, receiver, taken>>,
         returned' \in Nat
  PROVE  TunInv'
<1> DEFINE ch == sessions[id].tx
           frame == [connection_id |-> sessions[id].connection_id,
                     sequence |-> sessions[id].next_server_sequence,
                     dst |-> dst]
           n == Len(queued[ch])
<1> USE DEF TunInv
<1>0. sessions[id] \in SessionRoute
  BY DEF TunTypeOK
<1>1. /\ ch \in Chan /\ frame \in ReturnFrame
      /\ frame.sequence = sessions[id].next_server_sequence
      /\ sessions[id].next_server_sequence \in Nat
      /\ queued[ch] \in Seq(ReturnFrame) /\ n \in Nat /\ taken[ch] \in Nat
  <2>1. /\ ch \in Chan /\ sessions[id].connection_id \in ConnectionId
        /\ sessions[id].next_server_sequence \in Nat
    BY <1>0 DEF SessionRoute
  <2>2. frame \in ReturnFrame /\ frame.sequence = sessions[id].next_server_sequence
    BY <2>1 DEF ReturnFrame
  <2> HIDE DEF ch, frame
  <2>3. queued[ch] \in Seq(ReturnFrame) /\ n \in Nat /\ taken[ch] \in Nat
    BY <2>1 DEF TunTypeOK
  <2> QED BY <2>1, <2>2, <2>3
<1>2. sessions[id].next_server_sequence = taken[ch] + n
  BY DEF ChannelGapless
<1>3. /\ queued' = [queued EXCEPT ![ch] = Append(queued[ch], frame)]
  OBVIOUS
<1> HIDE DEF frame, n
<1>4. /\ queued'[ch] = Append(queued[ch], frame)
      /\ queued'[ch] \in Seq(ReturnFrame)
      /\ Len(queued'[ch]) = n + 1
      /\ \A i \in 1..n : queued'[ch][i] = queued[ch][i]
      /\ queued'[ch][n + 1] = frame
      /\ \A c \in Chan \ {ch} : queued'[c] = queued[c]
  <2>1. /\ queued'[ch] = Append(queued[ch], frame)
        /\ \A c \in Chan \ {ch} : queued'[c] = queued[c]
    BY <1>1, <1>3 DEF TunTypeOK
  <2> QED BY <1>1, <2>1, AppendFacts DEF n
<1>5. /\ DOMAIN sessions' = DOMAIN sessions
      /\ \A i \in DOMAIN sessions :
            /\ sessions'[i] \in SessionRoute
            /\ sessions'[i].tx = sessions[i].tx
            /\ i # id => sessions'[i] = sessions[i]
      /\ sessions'[id].next_server_sequence = sessions[id].next_server_sequence + 1
  <2>1. /\ DOMAIN sessions' = DOMAIN sessions
        /\ \A i \in DOMAIN sessions : i # id => sessions'[i] = sessions[i]
        /\ sessions'[id] = [sessions[id] EXCEPT !.next_server_sequence = @ + 1]
    OBVIOUS
  <2>2. /\ sessions'[id] \in SessionRoute
        /\ sessions'[id].tx = sessions[id].tx
        /\ sessions'[id].next_server_sequence = sessions[id].next_server_sequence + 1
    BY <2>1, <1>0 DEF SessionRoute
  <2> QED BY <2>1, <2>2 DEF TunTypeOK
<1>6. TunTypeOK'
  BY <1>1, <1>3, <1>4, <1>5 DEF TunTypeOK
<1>7. NoDanglingIp' /\ OneRoutePerChannel'
  BY <1>5 DEF NoDanglingIp, OneRoutePerChannel
<1>8. UnusedIsFresh'
  BY <1>4, <1>5 DEF UnusedIsFresh
<1>9. ASSUME NEW c \in Chan, NEW i \in 1..Len(queued'[c])
      PROVE  queued'[c][i].sequence = taken'[c] + i - 1
  <2>1. CASE c # ch
    BY <2>1, <1>4 DEF ChannelGapless
  <2>2. CASE c = ch /\ i \in 1..n
    BY <2>2, <1>4 DEF ChannelGapless, n
  <2>3. CASE c = ch /\ i = n + 1
    BY <2>3, <1>1, <1>2, <1>4
  <2>4. c = ch => i \in 1..n \/ i = n + 1
    BY <1>1, <1>4
  <2> QED BY <2>1, <2>2, <2>3, <2>4
<1>10. ASSUME NEW i \in DOMAIN sessions', receiver'[sessions'[i].tx] = "open"
       PROVE  sessions'[i].next_server_sequence =
                taken'[sessions'[i].tx] + Len(queued'[sessions'[i].tx])
  <2>1. CASE i = id
    <3>1. sessions'[i].next_server_sequence = (taken[ch] + n) + 1
      BY <2>1, <1>2, <1>5
    <3>2. sessions'[i].tx = ch /\ taken'[ch] = taken[ch] /\ Len(queued'[ch]) = n + 1
      BY <2>1, <1>4, <1>5
    <3>3. (taken[ch] + n) + 1 = taken[ch] + (n + 1)
      <4>1. taken[ch] \in Nat /\ n \in Nat
        BY <1>1
      <4> HIDE DEF ch
      <4> QED BY ONLY <4>1
    <3> HIDE DEF ch
    <3> QED BY <3>1, <3>2, <3>3
  <2>2. CASE i # id
    <3>1. sessions[i].tx # ch /\ sessions[i].tx \in Chan
      BY <2>2, <1>5 DEF OneRoutePerChannel, TunTypeOK, SessionRoute
    <3> QED BY <2>2, <3>1, <1>4, <1>5, <1>10 DEF ChannelGapless
  <2> QED BY <2>1, <2>2
<1> QED BY <1>6, <1>7, <1>8, <1>9, <1>10 DEF ChannelGapless

LEMMA ReaderInv ==
  ASSUME TunInv, NEW dst \in Ip, ReaderStep(dst)
  PROVE  TunInv'
<1> USE DEF TunInv
<1>1. /\ returned' \in Nat
      /\ UNCHANGED <<outbound, writer, reader, receiver, taken>>
  BY DEF ReaderStep, TunTypeOK
<1>2. CASE dst \notin DOMAIN ip_to_session
  BY <1>1, <1>2 DEF ReaderStep, TunTypeOK, NoDanglingIp, OneRoutePerChannel,
                    UnusedIsFresh, ChannelGapless
<1>3. CASE dst \in DOMAIN ip_to_session
  <2> DEFINE id == ip_to_session[dst]
  <2>1. id \in DOMAIN sessions
    BY <1>3 DEF NoDanglingIp
  <2>2. RouteReturn(id, dst)
    BY <1>3, <2>1 DEF ReaderStep
  <2> HIDE DEF id
  <2>3. CASE receiver[sessions[id].tx] = "open"
    BY <1>1, <2>1, <2>2, <2>3, SendInv DEF RouteReturn
  <2>4. CASE receiver[sessions[id].tx] # "open"
    BY <1>1, <2>2, <2>4, RemoveRouteInv DEF RouteReturn
  <2> QED BY <2>3, <2>4
<1> QED BY <1>2, <1>3

LEMMA TunNextInv == TunInv /\ [TunNext]_tunVars => TunInv'
<1> SUFFICES ASSUME TunInv, [TunNext]_tunVars PROVE TunInv'
  OBVIOUS
<1>1. CASE WriterStep
  BY <1>1, WriterInv
<1>2. ASSUME NEW dst \in Ip, ReaderStep(dst) PROVE TunInv'
  BY <1>2, ReaderInv
<1>3. CASE ReaderFails
  BY <1>3 DEF ReaderFails, TunInv, TunTypeOK, NoDanglingIp, OneRoutePerChannel,
              UnusedIsFresh, ChannelGapless
<1>4. ASSUME NEW id \in SessionId, NEW ch \in Chan, register_session(id, ch)
      PROVE  TunInv'
  BY <1>4, RegisterInv
<1>5. ASSUME NEW id \in SessionId, unregister_session(id) PROVE TunInv'
  <2>1. returned' \in Nat
    BY <1>5 DEF unregister_session, TunInv, TunTypeOK
  <2> QED BY <1>5, <2>1, RemoveRouteInv DEF unregister_session
<1>6. ASSUME NEW id \in SessionId, NEW cid \in ConnectionId,
             NEW src \in Ip \cup {NotIp}, submit_client_frame(id, cid, src)
      PROVE  TunInv'
  BY <1>6, SubmitInv
<1>7. ASSUME NEW ch \in Chan, TakeFrame(ch) PROVE TunInv'
  BY <1>7, TakeInv
<1>8. ASSUME NEW ch \in Chan, DropReceiver(ch) PROVE TunInv'
  BY <1>8, DropInv
<1>9. CASE UNCHANGED tunVars
  BY <1>9 DEF tunVars, TunInv, TunTypeOK, NoDanglingIp, OneRoutePerChannel,
              UnusedIsFresh, ChannelGapless
<1> QED BY <1>1, <1>2, <1>3, <1>4, <1>5, <1>6, <1>7, <1>8, <1>9
        DEF TunNext, BridgeTasks

-----------------------------------------------------------------------------
(* The strengthened invariant holds in every state of the bridge. *)
THEOREM TunInvariance == TunSpec => []TunInv
BY TunInitInv, TunNextInv, PTL DEF TunSpec

(* The reader task never meets a learned address without a route.          *)
THEOREM AddressesHaveRoutes == TunSpec => []NoDanglingIp
<1>1. TunInv => NoDanglingIp
  BY DEF TunInv
<1> QED BY <1>1, TunInvariance, PTL

(* Each connection receives its return packets numbered without a gap.     *)
THEOREM ChannelsAreGapless == TunSpec => []ChannelGapless
<1>1. TunInv => ChannelGapless
  BY DEF TunInv
<1> QED BY <1>1, TunInvariance, PTL
=============================================================================
