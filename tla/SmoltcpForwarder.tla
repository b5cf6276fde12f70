-------------------------- MODULE SmoltcpForwarder --------------------------
(***************************************************************************)
(* bonded-server/src/smoltcp_forwarder.rs, the TCP half: dispatch_tcp      *)
(* queues commands for the poll thread, the poll thread runs smoltcp over  *)
(* them and joins every established socket to a bridge task, and the       *)
(* bridge task copies bytes to and from the real server.  smoltcp itself   *)
(* and the client's TCP are external: sockets are tried in slot order, a   *)
(* listening socket takes any SYN to its port, a connected socket takes    *)
(* the segments of its client endpoint.  The destination address does not  *)
(* take part, because dispatch_tcp rewrites it to the address of the       *)
(* virtual interface.                                                      *)
(***************************************************************************)
EXTENDS Naturals, Sequences, FiniteSets, SequencesExt, FiniteSetsExt,
        Functions, TLC

CONSTANTS TcpFlows,     \* records [client, dst, port]: connections a client opens
          CmdCapacity,  \* capacity of the command channel (8192)
          TxCapacity,   \* units a socket's transmit buffer holds (65536 bytes)
          Workloads     \* bounds: what clients and servers do in a behaviour,
                        \*   [flows, syns, data, chunks, packets, probes,
                        \*   restless: clients repeat SYNs and close]

ASSUME WorkloadsAssumption ==
  \A w \in Workloads : w.flows \subseteq TcpFlows

VARIABLES cmds,           \* the command channel
          connected,      \* cmd_tx has not been dropped
          work,           \* the flag under the condition variable
          notifying,      \* who has sent and not yet set the flag
          poll,           \* where the poll thread is
          next_poll_wait, \* deadline smoltcp asked for
          sockets,        \* slot -> smoltcp socket
          pending,        \* PendingTcpConn records, oldest first
          active,         \* slot -> ActiveTcpConn
          promoted,       \* slots moved to active
          stats,          \* slots with a TcpFlowRecord
          bridges,        \* bridge tasks, by conn_id
          client,         \* the client's side of every flow
          emitted,        \* frames of the last poll: [kind, meant, restored]
          syns, data,     \* SYNs and data segments sent by the client
          isns,           \* initial sequence numbers used by smoltcp
          workload        \* one of Workloads, for the whole behaviour

threadVars == <<sockets, pending, active, promoted, stats, next_poll_wait,
                emitted, isns>>
sentVars == <<syns, data, workload>>
tcpVars == <<cmds, connected, work, notifying, poll, next_poll_wait, sockets,
             pending, active, promoted, stats, bridges, client, emitted, syns,
             data, isns, workload>>

MaxSyns == Max({w.syns : w \in Workloads})
MaxChunks == Max({w.chunks : w \in Workloads})
Slots == 1..MaxSyns
Conns == 1..MaxSyns
Nobody == "nobody"
Dispatcher == 0            \* dispatch_tcp among those who notify

Segment == [kind : {"syn", "ack", "data", "fin", "rst"}, flow : TcpFlows,
            isn : 0..MaxSyns, upto : 0..(2 * MaxChunks)]
CreateTcpSocket(f) == [create |-> TRUE, flow |-> f]
InjectPacket(s) == [create |-> FALSE, segment |-> s]

-----------------------------------------------------------------------------
(* smoltcp: a socket, the segments it accepts and what it does with them.  *)
(* tx holds the units the client has not acknowledged, the first `sent` of *)
(* them are in flight, and acked counts the ones before.                   *)
Listening(port) ==
  [state |-> "Listen", port |-> port, peer |-> Nobody, dst |-> Nobody,
   isn |-> 0, rx |-> 0, tx |-> <<>>, sent |-> 0, acked |-> 0,
   ack_due |-> FALSE]

Connected == {"SynReceived", "Established", "CloseWait"}

Accepts(s, seg) ==
  /\ s.port = seg.flow.port
  /\ \/ s.state = "Listen" /\ seg.kind = "syn"
     \/ s.state \in Connected /\ s.peer = seg.flow.client

Received(s, seg, isn) ==
  CASE s.state = "Listen" ->
         [s EXCEPT !.state = "SynReceived", !.peer = seg.flow.client,
                   !.dst = seg.flow.dst, !.isn = isn]
    [] s.state # "Listen" /\ (seg.kind = "syn" \/ seg.isn # s.isn) -> s
    [] seg.kind = "rst" /\ seg.isn = s.isn ->
         IF s.state = "SynReceived" THEN Listening(s.port)
         ELSE [s EXCEPT !.state = "Closed"]
    [] seg.kind \in {"ack", "data", "fin"} /\ seg.isn = s.isn ->
         LET n == seg.upto - s.acked
         IN  [s EXCEPT
                !.state = IF seg.kind = "fin" THEN "CloseWait"
                          ELSE IF @ = "SynReceived" THEN "Established" ELSE @,
                !.rx = IF seg.kind = "data" THEN @ + 1 ELSE @,
                !.ack_due = @ \/ seg.kind # "ack",
                !.acked = seg.upto,
                !.tx = SubSeq(@, n + 1, Len(@)),
                !.sent = IF s.state = "SynReceived" THEN 0 ELSE @ - n]

(* A segment no socket accepts, and an acknowledgement of something a      *)
(* half-open socket never sent, are answered with a reset.                 *)
Reset(seg) == [kind |-> "rst", client |-> seg.flow.client, isn |-> seg.isn,
               port |-> seg.flow.port, meant |-> seg.flow.dst,
               from |-> 0, units |-> <<>>]

Ingress(st, seg) ==
  LET takers == {h \in DOMAIN st.sockets : Accepts(st.sockets[h], seg)}
      h      == Min(takers)
      s      == st.sockets[h]
  IN  IF takers = {}
      THEN [st EXCEPT !.frames =
              IF seg.kind = "rst" THEN @ ELSE @ \cup {Reset(seg)}]
      ELSE [st EXCEPT
              !.sockets[h] = Received(s, seg, st.isns + 1),
              !.isns = IF s.state = "Listen" THEN @ + 1 ELSE @,
              !.frames = IF s.state = "SynReceived" /\ seg.isn # s.isn
                            /\ seg.kind \in {"ack", "data", "fin"}
                         THEN @ \cup {Reset(seg)} ELSE @]

(* The frames the sockets emit: a SYN-ACK, or the part of tx that is not   *)
(* in flight; all of it again when the retransmission timer ran out.       *)
Due(s, timer) == [s EXCEPT !.sent = IF timer THEN 0 ELSE @]
Owes(s) == \/ s.state = "SynReceived" /\ s.sent = 0
           \/ s.state \in {"Established", "CloseWait"} /\ s.sent < Len(s.tx)
Frame(s) ==
  [kind |-> IF s.state = "SynReceived" THEN "synack" ELSE "data",
   client |-> s.peer, isn |-> s.isn, port |-> s.port, meant |-> s.dst,
   from |-> s.acked + s.sent, units |-> SubSeq(s.tx, s.sent + 1, Len(s.tx))]
Sent(s) == IF s.state = "SynReceived" THEN [s EXCEPT !.sent = 1]
           ELSE [s EXCEPT !.sent = Len(s.tx)]
TimerArmed(s) == s.state = "SynReceived" \/ s.sent > 0 \/ s.ack_due

-----------------------------------------------------------------------------
(* dispatch_tcp: a SYN first asks for a listening socket; both commands    *)
(* are dropped when the channel is full, also one without the other when   *)
(* the poll thread takes commands in between.  The flag is set next.       *)
SyncSends(f, seg) ==
  (IF seg.kind = "syn" THEN <<CreateTcpSocket(f)>> ELSE <<>>)
    \o <<InjectPacket(seg)>>

dispatch_tcp(f, kind, upto) ==
  LET seg  == [kind |-> kind, flow |-> f, isn |-> client[f].isn,
               upto |-> upto]
      both == SyncSends(f, seg)
  IN  /\ connected
      /\ Dispatcher \notin notifying
      /\ \/ /\ Len(cmds) + Len(both) <= CmdCapacity
            /\ cmds' = cmds \o both
         \/ /\ Len(cmds) + Len(both) > CmdCapacity
            /\ \E i \in 0..Len(both) :
                 cmds' = IF i = 0 \/ Len(cmds) = CmdCapacity THEN cmds
                         ELSE Append(cmds, both[i])
      /\ notifying' = notifying \cup {Dispatcher}
      /\ UNCHANGED <<connected, work, poll, threadVars, bridges>>

(* Seeded fault: the flag is left alone when nobody waits. *)
NotifyOnlyWaiting(who) ==
  /\ who \in notifying
  /\ notifying' = notifying \ {who}
  /\ work' = (work \/ poll \in {"parked", "timed"})
  /\ poll' = IF poll \in {"parked", "timed"} THEN "poll" ELSE poll
  /\ UNCHANGED <<cmds, connected, threadVars, bridges, client, sentVars>>

(* *flag = true; cvar.notify_one(), of dispatch_tcp and of a bridge's      *)
(* reader.  A thread woken here leaves the flag set.                       *)
Notify(who) ==
  /\ who \in notifying
  /\ notifying' = notifying \ {who}
  /\ work' = TRUE
  /\ poll' = IF poll \in {"parked", "timed"} THEN "poll" ELSE poll
  /\ UNCHANGED <<cmds, connected, threadVars, bridges, client, sentVars>>

(* The last reference to the forwarder goes: cmd_tx is dropped, and nobody *)
(* is notified.                                                            *)
DropForwarder ==
  /\ connected
  /\ connected' = FALSE
  /\ Dispatcher \notin notifying
  /\ UNCHANGED <<cmds, work, notifying, poll, threadVars, bridges, client,
                 sentVars>>

-----------------------------------------------------------------------------
(* Top of the loop: take the flag, or wait for it as long as smoltcp's     *)
(* last deadline allows; without a deadline the wait has no end.           *)
WaitForWork ==
  /\ poll = "top"
  /\ work' = FALSE
  /\ poll' = IF work \/ next_poll_wait = "zero" THEN "poll"
             ELSE IF next_poll_wait = "some" THEN "timed" ELSE "parked"
  /\ UNCHANGED <<cmds, connected, notifying, threadVars, bridges, client, sentVars>>

(* The deadline passes, or the condition variable wakes for no reason. *)
WaitTimesOut ==
  /\ poll = "timed"
  /\ poll' = "timer"
  /\ UNCHANGED <<cmds, connected, work, notifying, threadVars, bridges, client,
                 sentVars>>
WakeSpuriously ==
  /\ poll = "parked"
  /\ poll' = "poll"
  /\ UNCHANGED <<cmds, connected, work, notifying, threadVars, bridges, client,
                 sentVars>>

(* Drain commands: every CreateTcpSocket of the batch takes the lowest     *)
(* free slot before any packet of it is looked at.                         *)
Create(st, f) ==
  LET h == Min(Slots \ DOMAIN st.sockets)
  IN  [sockets |-> st.sockets @@ (h :> Listening(f.port)),
       pending |-> Append(st.pending, [handle |-> h, flow |-> f])]

Created(batch) ==
  FoldLeft(Create, [sockets |-> sockets, pending |-> pending],
           [i \in DOMAIN batch |-> batch[i].flow])

(* iface.poll: all packets in order, then every socket emits. *)
IfacePoll(ss, segs, timer) ==
  LET st == FoldLeft(Ingress,
              [sockets |-> [h \in DOMAIN ss |-> [ss[h] EXCEPT !.ack_due = FALSE]],
               frames |-> {}, isns |-> isns], segs)
      due == [h \in DOMAIN ss |-> Due(st.sockets[h], timer)]
  IN  [sockets |-> [h \in DOMAIN ss |-> Sent(due[h])],
       frames  |-> st.frames \cup
                     {Frame(due[h]) : h \in {g \in DOMAIN ss : Owes(due[g])}},
       isns    |-> st.isns]

(* Drain TX ring: the destination the client addressed is looked up by     *)
(* client endpoint and port, among the active connections first; a frame   *)
(* with no match, or with matches that disagree, is dropped.               *)
Matches(flows, fr) == {f.dst : f \in {g \in flows : g.client = fr.client
                                                 /\ g.port = fr.port}}
FlowsOf(f) == {f[h].flow : h \in DOMAIN f}

(* Seeded fault: a connection that is still being opened hides the active  *)
(* one.                                                                    *)
PendingFirst(pend, fr) ==
  LET new == Matches(FlowsOf(pend), fr)
  IN  IF new # {} THEN new ELSE Matches(FlowsOf(active), fr)

Candidates(pend, fr) ==
  LET act == Matches(FlowsOf(active), fr)
  IN  IF act # {} THEN act ELSE Matches(FlowsOf(pend), fr)

Restored(pend, fr) ==
  IF Cardinality(Candidates(pend, fr)) = 1 THEN Candidates(pend, fr) ELSE {}

(* The client's TCP (external): a SYN-ACK opens the connection it asked    *)
(* for, data that continues what it has is kept, a reset ends it.          *)
ClientGets(f, frames) ==
  LET c == client[f]
      synacks == {fr \in frames : fr.kind = "synack"}
      resets == {fr \in frames : fr.kind = "rst" /\ fr.isn = c.isn}
      next == {fr \in frames : fr.kind = "data" /\ fr.isn = c.isn
                               /\ fr.from <= Len(c.got)}
  IN  IF c.state = "syn" /\ synacks # {}
      THEN [c EXCEPT !.state = "open", !.owes = TRUE,
                     !.isn = (CHOOSE fr \in synacks : TRUE).isn]
      ELSE IF c.state \in {"syn", "open"} /\ resets # {}
      THEN [c EXCEPT !.state = "reset", !.owes = FALSE]
      ELSE IF c.state \in {"open", "fin"} /\ next # {}
      THEN LET fr == CHOOSE x \in next : TRUE
           IN  [c EXCEPT !.owes = TRUE,
                         !.got = @ \o SubSeq(fr.units, Len(@) - fr.from + 1,
                                             Len(fr.units))]
      ELSE c

(* Promote newly-established connections, the last pending one first: the  *)
(* socket is given up when an active connection shares the tuple and not   *)
(* the destination; otherwise a bridge to the recorded destination starts. *)
Conflicts(act, f) ==
  \E h \in DOMAIN act : LET g == act[h].flow
                         IN  g.client = f.client /\ g.port = f.port /\ g.dst # f.dst

(* Seeded fault: a socket that is given up stays in the set. *)
GiveUpRecordOnly(st, p) == [st EXCEPT !.promoted = @ \ {p.handle}]

GiveUp(st, p) == [st EXCEPT !.sockets = [h \in DOMAIN @ \ {p.handle} |-> @[h]],
                            !.promoted = @ \ {p.handle}]
Promote(st, p) ==
  IF Conflicts(st.active, p.flow)
  THEN GiveUp(st, p)
  ELSE LET conn == Len(st.bridges) + 1
       IN  [st EXCEPT
              !.promoted = @ \cup {p.handle},
              !.stats = @ \cup {p.handle},
              !.active = @ @@ (p.handle :> [flow |-> p.flow, conn |-> conn,
                                            pending |-> <<>>]),
              !.bridges = Append(@, [isn |-> st.sockets[p.handle].isn,
                                     meant |-> st.sockets[p.handle].dst,
                                     dst |-> p.flow.dst,
                                     state |-> "connecting", reader |-> "none",
                                     to |-> 0, read |-> 0, from |-> <<>>])]
Established(ss, pend) ==
  SelectSeq(pend, LAMBDA p : p.handle \notin promoted
                             /\ ss[p.handle].state = "Established")

Promoted(ss, pend) ==
  FoldLeft(Promote, [sockets |-> ss, active |-> active, promoted |-> promoted,
                     stats |-> stats, bridges |-> bridges],
           Reverse(Established(ss, pend)))

(* One pass of the loop up to the service of the active connections.  The  *)
(* deadline of the next wait is the one smoltcp gives here.                *)
PollOnce ==
  LET made  == Created(SelectSeq(cmds, LAMBDA c : c.create))
      injects == SelectSeq(cmds, LAMBDA c : ~ c.create)
      net   == IfacePoll(made.sockets,
                         [i \in DOMAIN injects |-> injects[i].segment],
                         poll = "timer")
      up    == Promoted(net.sockets, made.pending)
      To(f) == {fr \in net.frames : fr.client = f.client /\ fr.port = f.port
                                    /\ f.dst \in Restored(made.pending, fr)}
  IN  /\ poll \in {"poll", "timer"}
      /\ connected
      /\ cmds' = <<>>
      /\ isns' = net.isns
      /\ next_poll_wait' = IF \E h \in DOMAIN net.sockets :
                                  TimerArmed(net.sockets[h])
                           THEN "some" ELSE "none"
      /\ emitted' = UNION {{[kind |-> fr.kind, meant |-> fr.meant,
                              restored |-> d] : d \in Restored(made.pending, fr)} :
                            fr \in net.frames}
      /\ client' = [f \in TcpFlows |-> ClientGets(f, To(f))]
      /\ pending' = SelectSeq(made.pending,
                      LAMBDA p : p \notin Range(Established(net.sockets,
                                                            made.pending)))
      /\ sockets' = up.sockets
      /\ active' = up.active
      /\ promoted' = up.promoted
      /\ stats' = up.stats
      /\ bridges' = up.bridges
      /\ poll' = "service"
      /\ UNCHANGED <<connected, work, notifying, sentVars>>

(* The command channel is empty and closed: the thread returns and drops   *)
(* its sockets and its ends of the bridge channels.                        *)
PollExits ==
  /\ poll \in {"poll", "timer"}
  /\ ~ connected
  /\ poll' = "exited"
  /\ cmds' = <<>>
  /\ sockets' = <<>>
  /\ active' = <<>>
  /\ pending' = <<>>
  /\ promoted' = {}
  /\ UNCHANGED <<connected, work, notifying, next_poll_wait, stats, emitted,
                 isns, bridges, client, sentVars>>

-----------------------------------------------------------------------------
(* Service: what the client sent goes to the bridge; chunks of the bridge  *)
(* go into the transmit buffer while it has room, and the part of a chunk  *)
(* that did not fit is kept for the next pass.                             *)
CanSend(s) == s.state \in {"Established", "CloseWait"} /\ Len(s.tx) < TxCapacity
Units(from) == FlattenSeq(from)

(* Seeded fault: the tail of a chunk is dropped after a partial write. *)
TailDropped(room, held, from) ==
  LET all == held \o Units(from)
      n == Min({room, Len(all)})
      c == Min({k \in 0..Len(from) : Len(held) + 2 * k >= n})
  IN  [written |-> SubSeq(all, 1, n), pending |-> <<>>,
       from |-> SubSeq(from, c + 1, Len(from))]

WriteOut(room, held, from) ==
  LET all == held \o Units(from)
      n == Min({room, Len(all)})
      c == Min({k \in 0..Len(from) : Len(held) + 2 * k >= n})
  IN  [written |-> SubSeq(all, 1, n),
       pending |-> SubSeq(all, n + 1, Len(held) + 2 * c),
       from |-> SubSeq(from, c + 1, Len(from))]

Held(c) == \E h \in DOMAIN active : active[h].conn = c

(* socket.recv hands over the contiguous part of the receive buffer, which *)
(* is not all of it when the buffer wraps.                                 *)
Taken(s, wrap) == IF wrap /\ s.rx > 0 THEN 1 ELSE s.rx

ServiceActive ==
  \E wrap \in BOOLEAN :
    LET Write(h) == IF CanSend(sockets[h])
                    THEN WriteOut(TxCapacity - Len(sockets[h].tx),
                                  active[h].pending,
                                  bridges[active[h].conn].from)
                    ELSE [written |-> <<>>, pending |-> active[h].pending,
                          from |-> bridges[active[h].conn].from]
        closed == {h \in DOMAIN active : sockets[h].state = "Closed"}
        Served(h) == IF h \notin DOMAIN active THEN sockets[h]
                     ELSE [sockets[h] EXCEPT !.rx = @ - Taken(sockets[h], wrap),
                                             !.tx = @ \o Write(h).written]
        At(c) == CHOOSE h \in DOMAIN active : active[h].conn = c
    IN  /\ poll = "service"
        /\ poll' = "top"
        /\ sockets' = [h \in DOMAIN sockets \ closed |-> Served(h)]
        /\ active' = [h \in DOMAIN active \ closed |->
                        [active[h] EXCEPT !.pending = Write(h).pending]]
        /\ bridges' = [c \in DOMAIN bridges |->
             IF ~ Held(c) THEN bridges[c]
             ELSE [bridges[c] EXCEPT
                     !.to = IF bridges[c].state = "ended" THEN 0
                            ELSE @ + Taken(sockets[At(c)], wrap),
                     !.from = Write(At(c)).from]]
        /\ promoted' = (promoted \ closed) \cap (DOMAIN active \ closed)
        /\ stats' = stats \ closed
        /\ emitted' = {}
        /\ UNCHANGED <<cmds, connected, work, notifying, next_poll_wait, pending,
                       client, sentVars, isns>>

-----------------------------------------------------------------------------
(* tcp_bridge_task and the reader it spawns. *)
bridgeFrame == <<cmds, connected, work, poll, threadVars, client, sentVars>>

BridgeConnects(c) ==
  /\ bridges[c].state = "connecting"
  /\ \/ bridges' = [bridges EXCEPT ![c].state = "open", ![c].reader = "reading"]
     \/ bridges' = [bridges EXCEPT ![c].state = "ended", ![c].to = 0]
  /\ UNCHANGED <<notifying, bridgeFrame>>

(* The reader passes on what it read and then wakes the poll thread; it    *)
(* stops when the receiving end is gone, at the end of the stream and on   *)
(* an error.                                                               *)
BridgeReads(c) ==
  /\ bridges[c].reader = "reading"
  /\ SumFunction([d \in DOMAIN bridges |-> bridges[d].read])
       < workload.chunks
  /\ c \notin notifying
  /\ IF Held(c)
     THEN LET r == bridges[c].read
          IN  /\ bridges' = [bridges EXCEPT
                     ![c].read = r + 1,
                     ![c].from = Append(@, <<2 * r + 1, 2 * r + 2>>)]
              /\ notifying' = notifying \cup {c}
     ELSE /\ bridges' = [bridges EXCEPT ![c].reader = "done"]
          /\ UNCHANGED notifying
  /\ UNCHANGED bridgeFrame

BridgeReaderEnds(c) ==
  /\ bridges[c].reader = "reading"
  /\ c \notin notifying
  /\ bridges' = [bridges EXCEPT ![c].reader = "done"]
  /\ UNCHANGED <<notifying, bridgeFrame>>

(* The writer: a failed write ends the task, and so does the end of the    *)
(* channel; the reader is aborted with it.                                 *)
BridgeWrites(c) ==
  /\ bridges[c].state = "open"
  /\ bridges[c].to > 0
  /\ \/ bridges' = [bridges EXCEPT ![c].to = @ - 1]
     \/ bridges' = [bridges EXCEPT ![c].state = "ended", ![c].to = 0,
                                   ![c].reader = "done"]
  /\ UNCHANGED <<notifying, bridgeFrame>>

BridgeEnds(c) ==
  /\ bridges[c].state = "open"
  /\ bridges[c].to = 0
  /\ ~ Held(c)
  /\ bridges' = [bridges EXCEPT ![c].state = "ended", ![c].reader = "done"]
  /\ UNCHANGED <<notifying, bridgeFrame>>

-----------------------------------------------------------------------------
(* The client's TCP (external). *)
ClientSyn(f) ==
  /\ client[f].state = "idle" \/ (workload.restless /\ client[f].state = "syn")
  /\ syns < workload.syns
  /\ syns' = syns + 1
  /\ UNCHANGED <<data, workload>>
  /\ client' = [client EXCEPT ![f].state = "syn"]
  /\ dispatch_tcp(f, "syn", 0)
ClientAck(f) ==
  /\ client[f].owes
  /\ client' = [client EXCEPT ![f].owes = FALSE]
  /\ UNCHANGED sentVars
  /\ dispatch_tcp(f, "ack", Len(client[f].got))
ClientData(f) ==
  /\ client[f].state = "open"
  /\ data < workload.data
  /\ data' = data + 1
  /\ client' = [client EXCEPT ![f].owes = FALSE]
  /\ UNCHANGED <<syns, workload>>
  /\ dispatch_tcp(f, "data", Len(client[f].got))
ClientCloses(f) ==
  /\ workload.restless
  /\ client[f].state = "open"
  /\ UNCHANGED sentVars
  /\ \E end \in {"fin", "rst"} :
       /\ client' = [client EXCEPT ![f].owes = FALSE,
                                   ![f].state = IF end = "fin" THEN end ELSE "reset"]
       /\ dispatch_tcp(f, end, Len(client[f].got))

-----------------------------------------------------------------------------
TcpInit ==
  /\ cmds = <<>> /\ connected = TRUE /\ work = FALSE /\ notifying = {}
  /\ poll = "top" /\ next_poll_wait = "zero"
  /\ sockets = <<>> /\ pending = <<>> /\ active = <<>>
  /\ promoted = {} /\ stats = {} /\ bridges = <<>> /\ emitted = {}
  /\ client = [f \in TcpFlows |-> [state |-> "idle", isn |-> 0, owes |-> FALSE,
                                   got |-> <<>>]]
  /\ syns = 0 /\ isns = 0 /\ data = 0
  /\ workload \in Workloads

ClientStep == \E f \in workload.flows :
                ClientSyn(f) \/ ClientAck(f) \/ ClientData(f) \/ ClientCloses(f)
ThreadStep == \/ WaitForWork \/ WaitTimesOut \/ PollOnce \/ PollExits
              \/ ServiceActive
BridgeStep == \E c \in DOMAIN bridges :
                BridgeConnects(c) \/ BridgeReads(c) \/ BridgeReaderEnds(c)
                \/ BridgeWrites(c) \/ BridgeEnds(c)
NotifyStep == \E who \in {Dispatcher} \cup Conns : Notify(who)

-----------------------------------------------------------------------------
TcpTypeOK ==
  /\ Len(cmds) <= CmdCapacity
  /\ \A i \in DOMAIN cmds : cmds[i].create \/ cmds[i].segment \in Segment
  /\ notifying \subseteq {Dispatcher} \cup Conns
  /\ poll \in {"top", "parked", "timed", "poll", "timer", "service", "exited"}
  /\ next_poll_wait \in {"zero", "some", "none"}
  /\ DOMAIN sockets \subseteq Slots
  /\ \A h \in DOMAIN sockets : sockets[h].sent \in 0..TxCapacity
                               /\ Len(sockets[h].tx) <= TxCapacity
  /\ Len(bridges) <= MaxSyns

(* A poll thread that waits without a deadline has taken every command and *)
(* every chunk there is room for, or whoever sent the rest has still to    *)
(* set the flag (the condition variable of dispatch_tcp and of the bridge  *)
(* readers): no wake-up is lost between the check of the flag and the      *)
(* wait.                                                                   *)
NoLostWakeup ==
  poll = "parked" =>
    /\ cmds # <<>> => Dispatcher \in notifying
    /\ \A h \in DOMAIN active :
         CanSend(sockets[h]) /\ bridges[active[h].conn].from # <<>>
           => active[h].conn \in notifying

(* The source address that the TX ring drain puts back into a data frame   *)
(* is the destination that the client of the socket addressed: connections *)
(* that share a client endpoint and a port are never given each other's    *)
(* data ("to avoid cross-flow data mix").                                  *)
NoMisattributedData ==
  \A e \in emitted : e.kind = "data" => e.meant = e.restored

(* Every slot of the socket set belongs to exactly one pending or active   *)
(* record, so no scan of the poll thread looks up a slot that is gone, and *)
(* promoted and the flow statistics know the active ones and no others.    *)
SlotsAccounted ==
  LET waiting == [i \in DOMAIN pending |-> pending[i].handle]
  IN  poll # "exited" =>
        /\ IsInjective(waiting)
        /\ Range(waiting) \cap DOMAIN active = {}
        /\ Range(waiting) \cup DOMAIN active = DOMAIN sockets
        /\ promoted = DOMAIN active /\ stats = DOMAIN active

(* What the server of connection c sent and what its client has of it, in  *)
(* chunks of two units; 0 is a chunk that does not exist.                  *)
ChunksOf(units) ==
  [i \in 1..(Len(units) \div 2) |->
     IF units[2 * i] = units[2 * i - 1] + 1 THEN units[2 * i] \div 2 ELSE 0]
ReadFrom(c) == IF c \in DOMAIN bridges THEN [i \in 1..bridges[c].read |-> i]
               ELSE <<>>
GotFrom(c) ==
  LET at == {f \in TcpFlows : c \in DOMAIN bridges
                              /\ client[f].isn = bridges[c].isn}
  IN  IF at = {} THEN <<>> ELSE ChunksOf(client[CHOOSE f \in at : TRUE].got)

Stream == INSTANCE InOrderChannel WITH Payload <- 1..MaxChunks,
                                       sent <- ReadFrom(1),
                                       delivered <- GotFrom(1)

(* From the socket of the real server through the bridge, the chunk that   *)
(* was only partly accepted, the transmit buffer, retransmissions and      *)
(* dropped frames, the client receives a prefix of what the server sent:   *)
(* a bridged connection (the first one) implements the in-order channel.   *)
StreamInOrder == Stream!Spec

(* A connection is bridged to the server its client addressed, "rather     *)
(* than routing arbitrarily" (session 42 of the implementation plan).      *)
(* TLC finds this violated: see section 7 of the README.                   *)
BridgedAsAddressed == \A c \in DOMAIN bridges : bridges[c].dst = bridges[c].meant

(* Bytes handed to smoltcp do not wait for the next packet of somebody     *)
(* else: a thread that waits without a deadline, with nobody about to wake *)
(* it, has nothing left to transmit ("explicit condvar wakeups for new     *)
(* commands/bridge bytes").  TLC finds this violated: see section 7 of the *)
(* README.                                                                 *)
NothingWaitsWhileParked ==
  poll = "parked" /\ notifying = {} =>
    \A h \in DOMAIN sockets : sockets[h].sent >= Len(sockets[h].tx)
=============================================================================
