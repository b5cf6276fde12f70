-------------------------- MODULE DatagramForwarder --------------------------
(***************************************************************************)
(* bonded-server/src/smoltcp_forwarder.rs, UDP and ICMP: every UDP packet  *)
(* runs as a task of its own that finds or makes the flow of its 4-tuple;  *)
(* every flow has a task that carries the answers back until it is idle or *)
(* fails; every echo request is a task with a socket of its own.           *)
(***************************************************************************)
EXTENDS Naturals, Sequences, FiniteSets

CONSTANTS UdpKeys,      \* 4-tuples of UDP flows
          MaxReplies,   \* bound: datagrams waiting in a flow's socket
          MaxEvents     \* IcmpSessionTracker::MAX_EVENTS (256)

VARIABLES udp_tasks,    \* forward_udp_packet, one per packet so far
          flow_map,     \* 4-tuple -> flow
          flows,        \* flows made so far, named after the packet that did
          udp_tracker,  \* 4-tuples registered for the status page
          probes,       \* forward_icmp, one per echo request so far
          icmp_tracker  \* recorded probes, newest first

udpVars == <<udp_tasks, flow_map, flows, udp_tracker>>
icmpVars == <<probes, icmp_tracker>>
datagramVars == <<udp_tasks, flow_map, flows, udp_tracker, probes, icmp_tracker>>

Without(f, x) == [y \in DOMAIN f \ {x} |-> f[y]]
With(f, x, v) == [y \in DOMAIN f \cup {x} |-> IF y = x THEN v ELSE f[y]]

DatagramInit ==
  /\ udp_tasks = <<>> /\ flow_map = <<>> /\ flows = <<>> /\ udp_tracker = {}
  /\ probes = <<>> /\ icmp_tracker = <<>>

-----------------------------------------------------------------------------
(* dispatch_udp: frames of a client are numbered upwards, so packet i      *)
(* carries sequence i.                                                     *)
dispatch_udp(k, limit) ==
  /\ Len(udp_tasks) < limit
  /\ udp_tasks' = Append(udp_tasks, [pc |-> "look", key |-> k, flow |-> 0])
  /\ UNCHANGED <<flow_map, flows, udp_tracker, icmpVars>>

(* ensure_flow, fast path: the flow that the map holds. *)
FindFlow(i) ==
  LET k == udp_tasks[i].key
  IN  /\ udp_tasks[i].pc = "look"
      /\ udp_tasks' = IF k \in DOMAIN flow_map
                      THEN [udp_tasks EXCEPT ![i].pc = "send",
                                             ![i].flow = flow_map[k]]
                      ELSE [udp_tasks EXCEPT ![i].pc = "bind"]
      /\ UNCHANGED <<flow_map, flows, udp_tracker, icmpVars>>

(* Slow path: bind and connect a socket, which may fail. *)
BindSocket(i) ==
  /\ udp_tasks[i].pc = "bind"
  /\ \E end \in {"insert", "done"} : udp_tasks' = [udp_tasks EXCEPT ![i].pc = end]
  /\ UNCHANGED <<flow_map, flows, udp_tracker, icmpVars>>

NewFlow(i) == [key |-> udp_tasks[i].key, next_sequence |-> i,
               inbox |-> 0, task |-> "unborn"]

(* Seeded fault: the map is not looked at again. *)
InsertUnchecked(i) ==
  /\ udp_tasks[i].pc = "insert"
  /\ flow_map' = With(flow_map, udp_tasks[i].key, i)
  /\ flows' = With(flows, i, NewFlow(i))
  /\ udp_tasks' = [udp_tasks EXCEPT ![i].pc = "register", ![i].flow = i]
  /\ UNCHANGED <<udp_tracker, icmpVars>>

(* Under the lock again: a flow that another task made meanwhile is used   *)
(* instead.                                                                *)
InsertFlow(i) ==
  LET k == udp_tasks[i].key
  IN  /\ udp_tasks[i].pc = "insert"
      /\ IF k \in DOMAIN flow_map
         THEN /\ udp_tasks' = [udp_tasks EXCEPT ![i].pc = "send",
                                                ![i].flow = flow_map[k]]
              /\ UNCHANGED <<flow_map, flows>>
         ELSE /\ flow_map' = With(flow_map, k, i)
              /\ flows' = With(flows, i, NewFlow(i))
              /\ udp_tasks' = [udp_tasks EXCEPT ![i].pc = "register",
                                                ![i].flow = i]
      /\ UNCHANGED <<udp_tracker, icmpVars>>

(* register_flow, then the flow's task is spawned. *)
RegisterFlow(i) ==
  /\ udp_tasks[i].pc = "register"
  /\ udp_tracker' = udp_tracker \cup {udp_tasks[i].key}
  /\ flows' = [flows EXCEPT ![i].task = "loop"]
  /\ udp_tasks' = [udp_tasks EXCEPT ![i].pc = "send"]
  /\ UNCHANGED <<flow_map, icmpVars>>

(* The flow's next number never falls behind the client's. *)
NumberAtLeast(next, i) == IF i > next THEN i ELSE next

(* The rest of forward_udp_packet: touch the flow and send; the server may *)
(* answer, or the send fails.                                              *)
SendDatagram(i) ==
  LET h == udp_tasks[i].flow
  IN  /\ udp_tasks[i].pc = "send"
      /\ udp_tasks' = [udp_tasks EXCEPT ![i].pc = "done"]
      /\ \E replies \in 0..1 :
           flows' = [flows EXCEPT
             ![h].next_sequence = NumberAtLeast(@, i),
             ![h].inbox = IF @ + replies <= MaxReplies THEN @ + replies ELSE @]
      /\ UNCHANGED <<flow_map, udp_tracker, icmpVars>>

-----------------------------------------------------------------------------
(* The flow's task.  An answer is numbered and sent; without a receiver    *)
(* the task ends.  An empty datagram is passed over, and one too large for *)
(* a packet uses up a number and is not sent.                              *)
RelayAnswer(h, open) ==
  LET n == flows[h].next_sequence
  IN  /\ flows[h].task = "loop"
      /\ flows[h].inbox > 0
      /\ \E size \in {"empty", "fits", "large"} :
           flows' = [flows EXCEPT
             ![h].inbox = @ - 1,
             ![h].next_sequence = IF size = "empty" THEN n ELSE n + 1,
             ![h].task = IF size = "fits" /\ ~ open THEN "leaving" ELSE @]
      /\ UNCHANGED <<udp_tasks, flow_map, udp_tracker, icmpVars>>

(* The loop ends: 240 s have passed without a packet of the client, or the *)
(* socket fails.                                                           *)
LeaveLoop(h) ==
  /\ flows[h].task = "loop"
  /\ flows' = [flows EXCEPT ![h].task = "leaving"]
  /\ UNCHANGED <<udp_tasks, flow_map, udp_tracker, icmpVars>>

UnmapFlow(h) ==
  /\ flows[h].task = "leaving"
  /\ flow_map' = Without(flow_map, flows[h].key)
  /\ flows' = [flows EXCEPT ![h].task = "unmapped"]
  /\ UNCHANGED <<udp_tasks, udp_tracker, icmpVars>>

UntrackFlow(h) ==
  /\ flows[h].task = "unmapped"
  /\ udp_tracker' = udp_tracker \ {flows[h].key}
  /\ flows' = [flows EXCEPT ![h].task = "done"]
  /\ UNCHANGED <<udp_tasks, flow_map, icmpVars>>

-----------------------------------------------------------------------------
(* dispatch_icmp and forward_icmp. *)
dispatch_icmp(limit) ==
  /\ Len(probes) < limit
  /\ probes' = Append(probes, "waiting")
  /\ UNCHANGED <<udpVars, icmp_tracker>>

(* record_probe: push_front, then pop_back down to the limit. *)
record_probe(log, e) ==
  LET all == <<e>> \o log
  IN  SubSeq(all, 1, IF Len(all) > MaxEvents THEN MaxEvents ELSE Len(all))

(* The socket cannot be made or used: nothing is recorded.  Otherwise a    *)
(* reply, something that is no echo reply, or 1.2 s without either.        *)
FinishProbe(i) ==
  /\ probes[i] = "waiting"
  /\ \E end \in {"error", "reply", "no-echo-reply", "timeout"} :
       /\ probes' = [probes EXCEPT ![i] = end]
       /\ icmp_tracker' = IF end = "error" THEN icmp_tracker
                           ELSE record_probe(icmp_tracker, <<i, end>>)
  /\ UNCHANGED udpVars

(* clear_session at the end of the session. *)
clear_session ==
  /\ udp_tracker' = {}
  /\ icmp_tracker' = <<>>
  /\ UNCHANGED <<udp_tasks, flow_map, flows, probes>>
=============================================================================
