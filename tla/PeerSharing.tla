---------------------------- MODULE PeerSharing ----------------------------
(***************************************************************************)
(* Peer sharing (peer_runtime.rs, peer_listener.rs, peer_discovery.rs of   *)
(* bonded-client): a device finds providers by mDNS, has the server        *)
(* introduce it, and dials a relay that becomes one more path of its       *)
(* packet loop.  Two tasks run beside that loop: the browse task on the    *)
(* consumer and the accept task on each provider.  Channels join them: new *)
(* transports go to the packet loop, the names of closed ones come back.   *)
(*                                                                         *)
(* A provider is told apart by its instance: each start has a new nonce    *)
(* and certificate, while advertisements of the old ones stay in the mDNS  *)
(* caches.  Signatures and endpoints are left out; an introduction is      *)
(* fresh or expired, on each device by its own clock.  The delay of two    *)
(* seconds after a failure is part of the step that failed.                *)
(***************************************************************************)
EXTENDS Naturals, Sequences, SequencesExt, FiniteSetsExt

CONSTANTS Provider,         \* the devices that may relay
          MaxInstance,      \* bound: starts of a provider
          Conn              \* bound: QUIC connections that exist at one time

VARIABLES instance,         \* provider -> its instance_nonce
          browse,           \* the consumer's browse task
          connected_peers,  \* the peers it has a path through
          closed_peers,     \* the channel closed_peer_tx
          offered,          \* the channel peer_transport_tx
          transports,       \* the transports of the packet loop
          accept,           \* provider -> its accept task
          incoming,         \* provider -> connections it has not accepted
          open              \* connections that both ends still hold

peerVars == <<instance, browse, connected_peers, closed_peers, offered, transports,
              accept, incoming, open>>

(* peer_id: the device's key and the nonce of its instance. *)
PeerId == Provider \X (1..MaxInstance)

NoPeer == <<>>
NoConn == 0

(* notifies: close_notifier has not been taken yet. *)
Transport == [peer : PeerId \cup {NoPeer}, conn : Conn \cup {NoConn}, notifies : BOOLEAN]

OwnPath == [peer |-> NoPeer, conn |-> NoConn, notifies |-> FALSE]

PeerRelay(id, c) == [peer |-> id, conn |-> c, notifies |-> TRUE]

Browse == [at : {"select", "introduce", "dial", "wait", "answered", "stopped"},
           peer : PeerId \cup {NoPeer}, fresh : BOOLEAN, conn : Conn \cup {NoConn}]

Select == [at |-> "select", peer |-> NoPeer, fresh |-> FALSE, conn |-> NoConn]

(* other: it relays for another consumer. *)
Accept == [at : {"accept", "upstream", "register", "relay", "other"},
           fresh : BOOLEAN, conn : Conn \cup {NoConn}]

Accepting == [at |-> "accept", fresh |-> FALSE, conn |-> NoConn]

PeerInit == /\ instance = [p \in Provider |-> 1]
            /\ browse = Select
            /\ connected_peers = {}
            /\ closed_peers = <<>>
            /\ offered = <<>>
            /\ accept = [p \in Provider |-> Accepting]
            /\ incoming = [p \in Provider |-> <<>>]
            /\ open = {}

Entries == Range(transports) \cup Range(offered)

InUse == {t.conn : t \in Entries} \cup {browse.conn} \cup {accept[p].conn : p \in Provider}
           \cup UNION {{q.conn : q \in Range(incoming[p])} : p \in Provider}

BrowseAt(at) == browse.at = at

-----------------------------------------------------------------------------
(* The browse task. *)

PathClosed ==
  /\ BrowseAt("select") /\ closed_peers # <<>>
  /\ connected_peers' = connected_peers \ {Head(closed_peers)}
  /\ closed_peers' = Tail(closed_peers)
  /\ UNCHANGED <<instance, browse, offered, transports, accept, incoming, open>>

(* An advertisement of this or an earlier instance, for a peer that has no *)
(* path yet.                                                               *)
Discovered(id) ==
  /\ BrowseAt("select")
  /\ id[2] <= instance[id[1]]
  /\ id \notin connected_peers
  /\ browse' = [Select EXCEPT !.at = "introduce", !.peer = id]
  /\ UNCHANGED <<instance, connected_peers, closed_peers, offered, transports, accept,
                 incoming, open>>

(* PeerShareBrowser::recv fails: the daemon is gone, or an advertisement   *)
(* does not parse.                                                         *)
BrowserStops ==
  /\ BrowseAt("select")
  /\ browse' = [Select EXCEPT !.at = "stopped"]
  /\ UNCHANGED <<instance, connected_peers, closed_peers, offered, transports, accept,
                 incoming, open>>

request_peer_share_introduction ==
  /\ BrowseAt("introduce")
  /\ browse' = [browse EXCEPT !.at = "dial", !.fresh = TRUE]
  /\ UNCHANGED <<instance, connected_peers, closed_peers, offered, transports, accept,
                 incoming, open>>

(* connect_peer_relay up to the introduction being sent: it is not         *)
(* expired, and the listener has the certificate of the instance.          *)
connect_peer_relay ==
  LET p == browse.peer[1]
      c == CHOOSE k \in Conn : k \notin InUse
  IN  /\ BrowseAt("dial") /\ browse.fresh
      /\ browse.peer[2] = instance[p]
      /\ Conn \ InUse # {}
      /\ browse' = [browse EXCEPT !.at = "wait", !.conn = c]
      /\ incoming' = [incoming EXCEPT ![p] = Append(@, [conn |-> c, id |-> browse.peer])]
      /\ open' = open \cup {c}
      /\ UNCHANGED <<instance, connected_peers, closed_peers, offered, transports, accept>>

(* The introduction or the dial fails, or its answer does not come before  *)
(* QUIC gives the connection up.                                           *)
BrowseGivesUp ==
  /\ browse.at \in {"introduce", "dial", "wait", "answered"}
  /\ browse' = Select
  /\ open' = open \ {browse.conn}
  /\ UNCHANGED <<instance, connected_peers, closed_peers, offered, transports, accept, incoming>>

(* Seeded fault: the peer is not noted as connected. *)
AnsweredUnnoted ==
  /\ BrowseAt("answered")
  /\ offered' = Append(offered, PeerRelay(browse.peer, browse.conn))
  /\ browse' = Select
  /\ UNCHANGED <<instance, connected_peers, closed_peers, transports, accept, incoming, open>>

(* The provider's ok has arrived, though it may have hung up since: the    *)
(* transport goes to the packet loop and the peer into the set.            *)
Answered ==
  /\ BrowseAt("answered")
  /\ offered' = Append(offered, PeerRelay(browse.peer, browse.conn))
  /\ connected_peers' = connected_peers \cup {browse.peer}
  /\ browse' = Select
  /\ UNCHANGED <<instance, closed_peers, transports, accept, incoming, open>>

BrowseStep == \/ PathClosed
              \/ request_peer_share_introduction
              \/ connect_peer_relay
              \/ BrowseGivesUp
              \/ Answered

-----------------------------------------------------------------------------
(* The accept task of provider p: one consumer at a time.                  *)

Others == <<instance, connected_peers, closed_peers, offered, transports>>

Hangup(p, c) == /\ accept' = [accept EXCEPT ![p] = Accepting]
                /\ open' = open \ {c}

(* accept_peer_relay: the introduction is for this instance and, by this   *)
(* device's clock, not expired.  The answer comes before any upstream.     *)
accept_peer_relay(p) ==
  LET q == Head(incoming[p])
  IN  /\ accept[p].at = "accept" /\ incoming[p] # <<>>
      /\ q.conn \in open
      /\ q.id[2] = instance[p]
      /\ accept' = [accept EXCEPT ![p] = [at |-> "upstream", fresh |-> TRUE, conn |-> q.conn]]
      /\ browse' = IF browse.conn = q.conn THEN [browse EXCEPT !.at = "answered"] ELSE browse
      /\ incoming' = [incoming EXCEPT ![p] = Tail(@)]
      /\ UNCHANGED <<Others, open>>

(* The connection is gone, or the introduction does not pass. *)
AcceptFails(p) ==
  /\ accept[p].at = "accept" /\ incoming[p] # <<>>
  /\ incoming' = [incoming EXCEPT ![p] = Tail(@)]
  /\ open' = open \ {Head(incoming[p]).conn}
  /\ UNCHANGED <<Others, browse, accept>>

(* establish_peer_upstream_paths has a path of its own to the server, and  *)
(* the registration goes out on it.                                        *)
register_peer_relay_upstream(p) ==
  /\ accept[p].at = "upstream"
  /\ accept' = [accept EXCEPT ![p].at = "register"]
  /\ UNCHANGED <<Others, browse, incoming, open>>

(* The server takes the registration while the introduction is valid. *)
RelayRegistered(p) ==
  /\ accept[p].at = "register" /\ accept[p].fresh
  /\ accept' = [accept EXCEPT ![p].at = "relay"]
  /\ UNCHANGED <<Others, browse, incoming, open>>

(* No upstream, a registration that is not sent or not taken, or the end   *)
(* of relay_peer_frames when either side fails.                            *)
RelayEnds(p) ==
  /\ accept[p].at \in {"upstream", "register", "relay"}
  /\ Hangup(p, accept[p].conn)
  /\ UNCHANGED <<Others, browse, incoming>>

(* Another consumer is served in the meantime, for as long as it likes. *)
ServesOther(p) ==
  /\ accept[p].at \in {"accept", "other"}
  /\ accept' = [accept EXCEPT ![p].at = IF @ = "accept" THEN "other" ELSE "accept"]
  /\ UNCHANGED <<Others, browse, incoming, open>>

ProviderRestarts(p) ==
  /\ instance[p] < MaxInstance
  /\ instance' = [instance EXCEPT ![p] = @ + 1]
  /\ accept' = [accept EXCEPT ![p] = Accepting]
  /\ incoming' = [incoming EXCEPT ![p] = <<>>]
  /\ open' = open \ ({accept[p].conn} \cup {q.conn : q \in Range(incoming[p])})
  /\ UNCHANGED <<browse, connected_peers, closed_peers, offered, transports>>

IntroductionExpires ==
  \/ /\ browse.fresh
     /\ browse' = [browse EXCEPT !.fresh = FALSE]
     /\ UNCHANGED <<instance, connected_peers, closed_peers, offered, transports, accept,
                    incoming, open>>
  \/ \E p \in Provider :
       /\ accept[p].fresh
       /\ accept' = [accept EXCEPT ![p].fresh = FALSE]
       /\ UNCHANGED <<instance, browse, connected_peers, closed_peers, offered, transports,
                      incoming, open>>

ProviderStep(p) == \/ accept_peer_relay(p)
                   \/ AcceptFails(p)
                   \/ register_peer_relay_upstream(p)
                   \/ RelayRegistered(p)
                   \/ RelayEnds(p)
                   \/ ServesOther(p)
                   \/ ProviderRestarts(p)

PeerStep == \/ BrowseStep
            \/ \E id \in PeerId : Discovered(id)
            \/ BrowserStops
            \/ IntroductionExpires
            \/ \E p \in Provider : ProviderStep(p)

-----------------------------------------------------------------------------
PeerTypeOK ==
  /\ instance \in [Provider -> 1..MaxInstance]
  /\ browse \in Browse
  /\ connected_peers \subseteq PeerId
  /\ closed_peers \in Seq(PeerId)
  /\ offered \in Seq(Transport) /\ transports \in Seq(Transport)
  /\ accept \in [Provider -> Accept]
  /\ incoming \in [Provider -> Seq([conn : Conn, id : PeerId])]
  /\ open \subseteq Conn

Indexes(seq, Test(_)) == {i \in DOMAIN seq : Test(seq[i])}

Notifiers(id) ==
  LET Owes(t) == t.peer = id /\ t.notifies
  IN  Cardinality(Indexes(transports, Owes)) + Cardinality(Indexes(offered, Owes))

(* The set of connected peers, the transports and the channel of closed    *)
(* ones agree: a peer is in the set exactly when one transport still owes  *)
(* the notice of its closing or one such notice is under way.  So a peer   *)
(* whose path is lost is looked for again, and a late notice of an old     *)
(* path never takes a new one off the books.                               *)
PeersAccounted ==
  \A id \in PeerId :
    LET Names(x) == x = id
    IN  Notifiers(id) + Cardinality(Indexes(closed_peers, Names))
          = IF id \in connected_peers THEN 1 ELSE 0

=============================================================================
