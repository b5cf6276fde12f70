-------------------------- MODULE WireGuardServer --------------------------
(***************************************************************************)
(* run_wireguard_server and the peer tasks it spawns (bonded-server/src/   *)
(* wireguard.rs), over the session registry it shares with the other       *)
(* transports.  The server loop takes one datagram at a time: it looks for *)
(* the peer the datagram belongs to, visiting the provisioned peers in the *)
(* arbitrary order of a hash map, and then gives the datagram to it.       *)
(*                                                                         *)
(* Abstracted: the leases (WireGuardRegistry) are Provision and LeaseEnds; *)
(* a datagram is its key, its source, its kind and a number; the network   *)
(* may lose, reorder and repeat it.  boringtun is external: it accepts a   *)
(* handshake or a data packet under its peer's key once, and data only     *)
(* after a handshake.                                                      *)
(***************************************************************************)
EXTENDS Naturals, FiniteSets, Maps

CONSTANTS Device,           \* device public keys
          WgKey,            \* WireGuard public keys, a fresh one per dial
          Addr,             \* source addresses of the clients
          NoAddr,           \* peer_addr: None
          TunMode,          \* the server was started with a TUN device
          MixedDevice,      \* devices that also connect over NaiveTCP, WSS, QUIC
          MaxSession,       \* bound: session ids given out
          MaxDatagrams      \* bound: datagrams sent

ASSUME WgModes == TunMode \in BOOLEAN /\ MixedDevice \subseteq Device
ASSUME WgBounds == MaxSession \in Nat /\ MaxDatagrams \in Nat

VARIABLES provisioned,        \* device -> wg_public_key, as all_peers returns
          used,               \* keys that were provisioned
          wire,               \* datagrams sent
          sessions_by_client, \* SessionRegistry: device -> session id
          next_session_id,    \* SessionRegistry
          other,              \* devices with a connection of another transport
          runtimes,           \* device -> session id of its runtime
          peer,               \* session id -> WireGuardServerPeer
          forwarders,         \* ForwarderRegistry or TunBridge: ids with a route
          peer_by_source,     \* address -> device
          pc,                 \* where the server loop is
          job,                \* the datagram, all_peers(), those left to visit
          yielded, handled    \* history: frames decoded, frames forwarded

clientVars == <<provisioned, used, wire>>
sessionVars == <<sessions_by_client, next_session_id, other>>
peerVars == <<runtimes, peer, forwarders>>
loopVars == <<peer_by_source, pc, job>>
historyVars == <<yielded, handled>>
wgsVars == <<clientVars, sessionVars, peerVars, loopVars, historyVars>>

SessionId == 0..MaxSession

Datagram == [key : WgKey, src : Addr, kind : {"init", "data"}, n : 1..MaxDatagrams]

WireGuardServerPeer ==
  [device : Device, key : WgKey, addr : Addr \cup {NoAddr}, up : BOOLEAN,
   seen : SUBSET (1..MaxDatagrams), task : {"run", "closing", "done"}]

NoJob == [dg |-> Empty, peers |-> Empty, todo |-> {}, found |-> MaxSession]

-----------------------------------------------------------------------------
WgsInit == /\ provisioned = Empty /\ used = {} /\ wire = {}
           /\ sessions_by_client = Empty /\ next_session_id = 0 /\ other = {}
           /\ runtimes = Empty /\ peer = Empty /\ forwarders = {}
           /\ peer_by_source = Empty /\ pc = "recv" /\ job = NoJob
           /\ yielded = {} /\ handled = {}

(* A client dials: it generates a key and provisions it. *)
Provision(d) ==
  /\ \E k \in WgKey \ used : /\ provisioned' = Put(provisioned, d, k)
                             /\ used' = used \cup {k}
  /\ UNCHANGED <<wire, sessionVars, peerVars, loopVars, historyVars>>

LeaseEnds(d) ==
  /\ d \in DOMAIN provisioned
  /\ provisioned' = Without(provisioned, d)
  /\ UNCHANGED <<used, wire, sessionVars, peerVars, loopVars, historyVars>>

(* A client sends a handshake or, once a peer has answered it, a frame. *)
ClientSends(d, src) ==
  /\ d \in DOMAIN provisioned
  /\ Cardinality(wire) < MaxDatagrams
  /\ \E kind \in {"init", "data"} :
       /\ kind = "data" => \E id \in DOMAIN peer : /\ peer[id].key = provisioned[d]
                                                   /\ peer[id].up
                                                   /\ peer[id].addr = src
       /\ wire' = wire \cup {[key |-> provisioned[d], src |-> src, kind |-> kind,
                              n |-> Cardinality(wire) + 1]}
  /\ UNCHANGED <<provisioned, used, sessionVars, peerVars, loopVars, historyVars>>

(* register_client and unregister_client of the other transports. *)
OtherConnects(d) ==
  /\ d \in MixedDevice \ other
  /\ other' = other \cup {d}
  /\ IF d \in DOMAIN sessions_by_client
     THEN UNCHANGED <<sessions_by_client, next_session_id>>
     ELSE /\ next_session_id < MaxSession
          /\ sessions_by_client' = Put(sessions_by_client, d, next_session_id)
          /\ next_session_id' = next_session_id + 1
  /\ UNCHANGED <<clientVars, peerVars, loopVars, historyVars>>

OtherEnds(d) ==
  /\ d \in other
  /\ other' = other \ {d}
  /\ sessions_by_client' = Without(sessions_by_client, d)
  /\ UNCHANGED <<next_session_id, clientVars, peerVars, loopVars, historyVars>>

-----------------------------------------------------------------------------
(* boringtun: what Tunn::decapsulate accepts. *)
Decapsulates(p, dg) == /\ dg.key = p.key
                       /\ dg.n \notin p.seen
                       /\ dg.kind = "init" \/ p.up

(* try_accept_datagram: a peer answers to the first source it heard from. *)
try_accept_datagram(p, dg) == p.addr \in {NoAddr, dg.src} /\ Decapsulates(p, dg)

Accepted(p, dg) ==
  [p EXCEPT !.addr = dg.src, !.up = TRUE, !.seen = @ \cup {dg.n}]

Frames(dg) == IF dg.kind = "data" THEN {dg.n} ELSE {}

(* Every frame goes to the bridge or the forwarder, or is a ping that is   *)
(* answered.                                                               *)
handle_decoded_frames(frames) == handled' = handled \cup frames

(* recv_from; the source may be known. *)
Known(src) == src \in DOMAIN peer_by_source /\ peer_by_source[src] \in DOMAIN runtimes

Receive(dg) ==
  /\ pc = "recv"
  /\ IF Known(dg.src)
     THEN /\ job' = [NoJob EXCEPT !.dg = dg, !.found = runtimes[peer_by_source[dg.src]]]
          /\ pc' = "accept"
     ELSE /\ job' = [NoJob EXCEPT !.dg = dg, !.peers = provisioned,
                                 !.todo = DOMAIN provisioned]
          /\ pc' = "search"
  /\ UNCHANGED <<peer_by_source, clientVars, sessionVars, peerVars, historyVars>>

Reusable(d) == d \in DOMAIN runtimes /\ d \in DOMAIN sessions_by_client

NewPeer(d) == [device |-> d, key |-> job.peers[d], addr |-> NoAddr, up |-> FALSE,
               seen |-> {}, task |-> "run"]

(* ensure_peer_runtime: the session id of d's runtime, made if need be. *)
EnsuredId(d) == IF Reusable(d) THEN runtimes[d]
                ELSE IF d \in DOMAIN sessions_by_client THEN sessions_by_client[d]
                ELSE next_session_id

EnsuredPeer(d) == IF Reusable(d) THEN peer[runtimes[d]] ELSE NewPeer(d)

(* Seeded fault: the id counter is not advanced. *)
ensure_reusing_id(d) ==
  \/ /\ Reusable(d)
     /\ UNCHANGED <<runtimes, forwarders, sessionVars>>
  \/ /\ ~ Reusable(d)
     /\ runtimes' = Put(runtimes, d, EnsuredId(d))
     /\ forwarders' = forwarders \cup {EnsuredId(d)}
     /\ sessions_by_client' = Put(sessions_by_client, d, EnsuredId(d))
     /\ UNCHANGED <<next_session_id, other>>

ensure_peer_runtime(d) ==
  \/ /\ Reusable(d)
     /\ UNCHANGED <<runtimes, forwarders, sessionVars>>
  \/ /\ ~ Reusable(d)
     /\ EnsuredId(d) < MaxSession
     /\ runtimes' = Put(runtimes, d, EnsuredId(d))
     /\ forwarders' = forwarders \cup {EnsuredId(d)}
     /\ sessions_by_client' = Put(sessions_by_client, d, EnsuredId(d))
     /\ next_session_id' = IF EnsuredId(d) = next_session_id
                           THEN next_session_id + 1 ELSE next_session_id
     /\ UNCHANGED other

(* The search visits a provisioned peer, and stops at the one that accepts. *)
Visit(d) ==
  /\ pc = "search"
  /\ d \in job.todo
  /\ ensure_peer_runtime(d)
  /\ IF try_accept_datagram(EnsuredPeer(d), job.dg)
     THEN /\ peer' = Put(peer, EnsuredId(d), Accepted(EnsuredPeer(d), job.dg))
          /\ yielded' = yielded \cup Frames(job.dg)
          /\ peer_by_source' = Put(peer_by_source, job.dg.src, d)
          /\ job' = [job EXCEPT !.todo = {}, !.found = EnsuredId(d)]
          /\ pc' = "accept"
     ELSE /\ peer' = Put(peer, EnsuredId(d), EnsuredPeer(d))
          /\ job' = [job EXCEPT !.todo = @ \ {d}]
          /\ UNCHANGED <<yielded, peer_by_source, pc>>
  /\ UNCHANGED <<clientVars, handled>>

(* No peer accepted the datagram. *)
NoMatch ==
  /\ pc = "search"
  /\ job.todo = {}
  /\ pc' = "recv"
  /\ job' = NoJob
  /\ UNCHANGED <<peer_by_source, clientVars, sessionVars, peerVars, historyVars>>

(* The second try_accept_datagram, with the same datagram when the search  *)
(* found the peer; then handle_decoded_frames.                             *)
Accept ==
  /\ pc = "accept"
  /\ IF try_accept_datagram(peer[job.found], job.dg)
     THEN /\ peer' = [peer EXCEPT ![job.found] = Accepted(@, job.dg)]
          /\ peer_by_source' = Put(peer_by_source, job.dg.src, peer[job.found].device)
          /\ yielded' = yielded \cup Frames(job.dg)
          /\ handle_decoded_frames(Frames(job.dg))
     ELSE /\ peer_by_source' = Without(peer_by_source, job.dg.src)
          /\ UNCHANGED <<peer, yielded, handled>>
  /\ pc' = "recv"
  /\ job' = NoJob
  /\ UNCHANGED <<runtimes, forwarders, clientVars, sessionVars>>

-----------------------------------------------------------------------------
(* A peer task ends when a send fails, which takes a response to send, or  *)
(* when forward_rx closes: at once in TUN mode, where no one holds its     *)
(* sender.  cleanup_wireguard_peer begins.                                 *)
TaskEnds(id) ==
  /\ peer[id].task = "run"
  /\ TunMode \/ handled # {}
  /\ peer' = [peer EXCEPT ![id].task = "closing"]
  /\ forwarders' = forwarders \ {id}
  /\ UNCHANGED <<runtimes, clientVars, sessionVars, loopVars, historyVars>>

(* Seeded fault: the cleanup leaves the session registered. *)
TaskForgetsSession(id) ==
  /\ peer[id].task = "closing"
  /\ peer' = [peer EXCEPT ![id].task = "done"]
  /\ UNCHANGED <<runtimes, forwarders, sessionVars, clientVars, loopVars, historyVars>>

(* The last statement of cleanup_wireguard_peer: by key, not by id. *)
TaskUnregisters(id) ==
  /\ peer[id].task = "closing"
  /\ peer' = [peer EXCEPT ![id].task = "done"]
  /\ sessions_by_client' = Without(sessions_by_client, peer[id].device)
  /\ UNCHANGED <<runtimes, forwarders, next_session_id, other, clientVars, loopVars,
                 historyVars>>

WgsNext ==
  \/ \E d \in Device : \/ Provision(d) \/ LeaseEnds(d) \/ OtherConnects(d) \/ OtherEnds(d)
                       \/ Visit(d)
                       \/ \E src \in Addr : ClientSends(d, src)
  \/ \E dg \in wire : Receive(dg)
  \/ NoMatch \/ Accept
  \/ \E id \in DOMAIN peer : TaskEnds(id) \/ TaskUnregisters(id)

WgsSpec == WgsInit /\ [][WgsNext]_wgsVars

-----------------------------------------------------------------------------
WgsTypeOK ==
  /\ DOMAIN provisioned \subseteq Device /\ provisioned \in [DOMAIN provisioned -> WgKey]
  /\ wire \subseteq Datagram
  /\ DOMAIN sessions_by_client \subseteq Device
  /\ sessions_by_client \in [DOMAIN sessions_by_client -> SessionId]
  /\ next_session_id \in SessionId
  /\ DOMAIN runtimes \subseteq Device /\ runtimes \in [DOMAIN runtimes -> DOMAIN peer]
  /\ DOMAIN peer \subseteq SessionId /\ peer \in [DOMAIN peer -> WireGuardServerPeer]
  /\ forwarders \subseteq DOMAIN peer
  /\ pc \in {"recv", "search", "accept"}

(* The session of a device that uses WireGuard alone has a task that will  *)
(* clean it up, and its task that runs has its session and its forwarder:  *)
(* no device has two tasks that forward.  Every variable keeps its type.   *)
SessionsMatchTasks ==
  /\ WgsTypeOK
  /\ \A d \in DOMAIN sessions_by_client \ MixedDevice :
        /\ sessions_by_client[d] \in DOMAIN peer
        /\ peer[sessions_by_client[d]].task # "done"
  /\ \A id \in DOMAIN peer :
        /\ peer[id].task = "run"
        /\ peer[id].device \notin MixedDevice
        => /\ peer[id].device \in DOMAIN sessions_by_client
           /\ sessions_by_client[peer[id].device] = id
           /\ id \in forwarders

(* A session id serves one device: the peer that forwards frames under it  *)
(* is the peer of the device that has it, whichever transport registered   *)
(* the session and whoever unregisters it in between.                      *)
SessionBelongsToDevice ==
  /\ \A d \in DOMAIN runtimes : peer[runtimes[d]].device = d
  /\ \A d \in DOMAIN sessions_by_client :
        sessions_by_client[d] \in DOMAIN peer => peer[sessions_by_client[d]].device = d

(* A frame that boringtun decapsulated reaches the forwarder or the bridge *)
(* (implementation-plan.md: decapsulate recovers the session frame on      *)
(* receipt).  TLC finds this violated: see section 7 of the README.        *)
FramesAreHandled == pc = "recv" => yielded \subseteq handled
=============================================================================
