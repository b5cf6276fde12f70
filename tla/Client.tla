------------------------------- MODULE Client -------------------------------
(***************************************************************************)
(* A client from its start to the end of its packet loop: PathSetup dials, *)
(* then one task moves packets over the active transport and fails over to *)
(* another (run_linux_packet_loop of bonded-client, and its twin in the    *)
(* worker thread of bonded-ffi), while PeerSharing adds relays to its      *)
(* transports.  What the packets hold and their numbers are left out: of a *)
(* send or a receive only its failure matters here.                        *)
(***************************************************************************)
EXTENDS PathSetup, PeerSharing

VARIABLES loop,             \* the packet loop
          active            \* active_index, counted from 1

vars == <<setupVars, peerVars, loop, active>>

Init == /\ SetupInit
        /\ PeerInit
        /\ transports = <<>>
        /\ loop = "off"
        /\ active = 1

Running == loop = "running"

Tasks == <<instance, accept, incoming>>

start == /\ loop = "off" /\ At("done")
         /\ loop' = "running"
         /\ transports' = [i \in DOMAIN paths |-> OwnPath]
         /\ UNCHANGED <<setupVars, active, Tasks, browse, connected_peers, closed_peers,
                        offered, open>>

(* notify_peer_relay_closed takes the notifier: at most one notice. *)
notify_peer_relay_closed(t) ==
  closed_peers' = IF t.notifies THEN Append(closed_peers, t.peer) ELSE closed_peers

IndexAfterRemoval(remaining) == active' = IF active > remaining THEN 1 ELSE active

(* Seeded fault: the loop moves on to the next transport and keeps the one *)
(* that failed.                                                            *)
FailOverKeeping ==
  LET t == transports[active]
  IN  /\ Running /\ Len(transports) > 1
      /\ notify_peer_relay_closed(t)
      /\ transports' = [transports EXCEPT ![active].notifies = FALSE]
      /\ active' = IF active = Len(transports) THEN 1 ELSE active + 1
      /\ open' = open \ {t.conn}
      /\ UNCHANGED <<setupVars, loop, Tasks, browse, connected_peers, offered>>

(* A send or a receive on the active transport fails, and there are        *)
(* others: it is removed, and the packet of a send is lost with it.        *)
FailOver ==
  LET t == transports[active]
  IN  /\ Running /\ Len(transports) > 1
      /\ notify_peer_relay_closed(t)
      /\ transports' = RemoveAt(transports, active)
      /\ IndexAfterRemoval(Len(transports) - 1)
      /\ open' = open \ {t.conn}
      /\ UNCHANGED <<setupVars, loop, Tasks, browse, connected_peers, offered>>

(* On Android a failed heartbeat, and a failure while buffered frames are  *)
(* drained, leave the transport where it is; but the notice goes out.      *)
FailureUnheeded ==
  LET t == transports[active]
  IN  /\ Running /\ config.android /\ t.notifies
      /\ notify_peer_relay_closed(t)
      /\ transports' = [transports EXCEPT ![active].notifies = FALSE]
      /\ open' = open \ {t.conn}
      /\ UNCHANGED <<setupVars, loop, active, Tasks, browse, connected_peers, offered>>

PeerTransportAdded ==
  /\ Running /\ offered # <<>>
  /\ transports' = Append(transports, Head(offered))
  /\ offered' = Tail(offered)
  /\ UNCHANGED <<setupVars, loop, active, Tasks, browse, connected_peers, closed_peers, open>>

(* The last transport fails, the session is cancelled, the TUN device      *)
(* fails or, on Linux, a frame is refused by ingest_inbound: the loop      *)
(* returns, and the transports and the peer-share tasks go with it.        *)
LoopEnds ==
  /\ Running
  /\ loop' = "ended"
  /\ transports' = <<>> /\ offered' = <<>>
  /\ closed_peers' = <<>> /\ connected_peers' = {}
  /\ browse' = [Select EXCEPT !.at = "stopped"]
  /\ active' = 1
  /\ open' = {}
  /\ UNCHANGED <<setupVars, Tasks>>

LoopStep == \/ FailOver
            \/ FailureUnheeded
            \/ PeerTransportAdded
            \/ LoopEnds

Sharing == Running /\ config.sharing

SetUp == SetupStep /\ loop = "off" /\ UNCHANGED <<peerVars, loop, active>>

Share == PeerStep /\ Sharing /\ UNCHANGED <<setupVars, loop, active>>

Next == SetUp \/ start \/ LoopStep \/ Share

(* The client's own code runs and timers fire.  No exchange with another   *)
(* host is fair.                                                           *)
Fairness == /\ WF_vars(SetUp /\ LocalStep)
            /\ WF_vars(SetUp /\ AttemptTimesOut)

Spec == Init /\ [][Next]_vars /\ Fairness

-----------------------------------------------------------------------------
TypeOK == /\ SetupTypeOK
          /\ PeerTypeOK
          /\ loop \in {"off", "running", "ended"}

(* On Linux a peer is never in the list twice: a transport that failed is  *)
(* gone from it before its peer may be dialled again.  The list is never   *)
(* indexed out of range, and every variable keeps its type.                *)
OneRelayPerPeer ==
  LET all == transports \o offered
  IN  /\ TypeOK
      /\ Running => active \in DOMAIN transports
      /\ ~config.android =>
           \A i, j \in DOMAIN all :
             all[i].peer # NoPeer /\ all[i].peer = all[j].peer => i = j

=============================================================================
