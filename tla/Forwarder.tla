------------------------------ MODULE Forwarder ------------------------------
(***************************************************************************)
(* SmoltcpForwarder as the server's session loops see it: ingest_packet    *)
(* hands every packet of the client to the TCP, UDP or ICMP side, and the  *)
(* end of the session clears the trackers and drops the forwarder, while   *)
(* tasks that are under way go on.                                         *)
(***************************************************************************)
EXTENDS SmoltcpForwarder, DatagramForwarder

vars == <<tcpVars, datagramVars>>

Init == TcpInit /\ DatagramInit

ingest_packet ==
  \/ ClientStep /\ UNCHANGED datagramVars
  \/ /\ connected
     /\ \/ \E k \in UdpKeys : dispatch_udp(k, workload.packets)
        \/ dispatch_icmp(workload.probes)
     /\ UNCHANGED tcpVars

PacketTask(i) == FindFlow(i) \/ BindSocket(i) \/ InsertFlow(i)
                 \/ RegisterFlow(i) \/ SendDatagram(i)
FlowTask(h) == RelayAnswer(h, connected) \/ LeaveLoop(h) \/ UnmapFlow(h)
               \/ UntrackFlow(h)

DatagramStep == \/ \E i \in DOMAIN udp_tasks : PacketTask(i)
                \/ \E h \in DOMAIN flows : FlowTask(h)
                \/ \E i \in DOMAIN probes : FinishProbe(i)

Next ==
  \/ ingest_packet
  \/ (ThreadStep \/ WakeSpuriously \/ BridgeStep \/ NotifyStep)
       /\ UNCHANGED datagramVars
  \/ DatagramStep /\ UNCHANGED tcpVars
  \/ DropForwarder /\ clear_session

Spec == Init /\ [][Next]_vars

-----------------------------------------------------------------------------
TypeOK ==
  /\ TcpTypeOK
  /\ DOMAIN flow_map \subseteq UdpKeys
  /\ \A k \in DOMAIN flow_map : flow_map[k] \in DOMAIN flows
  /\ udp_tracker \subseteq UdpKeys
  /\ Len(icmp_tracker) <= MaxEvents

(* Two packets of a new 4-tuple race through ensure_flow: a flow that is   *)
(* entered in the map, up to the moment its task takes it out again, is    *)
(* the one the map holds, so a 4-tuple never has two sockets that answer   *)
(* ("check again under the lock to avoid duplicate sockets"), and no task  *)
(* takes a successor of its own flow out of the map.  The status page      *)
(* shows no flow whose tasks have all ended, also when the session is      *)
(* cleared between the steps of a task.  Every variable keeps its type.    *)
FlowsAccounted ==
  /\ TypeOK
  /\ \A h \in DOMAIN flows :
       flows[h].task \in {"unborn", "loop", "leaving"} =>
         /\ flows[h].key \in DOMAIN flow_map
         /\ flow_map[flows[h].key] = h
  /\ \A k \in udp_tracker :
       \E h \in DOMAIN flows :
         flows[h].key = k /\ flows[h].task \in {"loop", "leaving", "unmapped"}

=============================================================================
