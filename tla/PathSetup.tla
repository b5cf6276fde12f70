----------------------------- MODULE PathSetup -----------------------------
(***************************************************************************)
(* How a client gets its paths (bonded-client/src/lib.rs, cert_proof.rs):  *)
(* establish_transport_paths tries, for each path, the configured          *)
(* protocols in turn, each under a timeout.  A TLS connection is pinned to *)
(* the stored certificate, or to one the server proves with its ed25519    *)
(* key; a pin that fails is proved again once, since the server may have   *)
(* rotated its certificate.  WireGuard registers a fresh key over one of   *)
(* three bootstrap schemes.  The device key is created on first use.       *)
(*                                                                         *)
(* The server's side is abstracted: its certificates are those of          *)
(* CertSource, and every exchange with it may fail.  Resolving and URLs    *)
(* are left out, and so is who may pair: a handshake succeeds or not.      *)
(* Timeouts strike where the code awaits, and nowhere else.                *)
(***************************************************************************)
EXTENDS CertSource, Naturals, Sequences, SequencesExt

CONSTANT Configs            \* the client configurations of the instance, each
                            \* with its bounds: the last certificate of the
                            \* server (certs) and starts of the client (runs)

VARIABLES config,           \* config.client and the callbacks of ClientConfig
          dial,             \* where establish_transport_paths is
          paths,            \* the paths it has so far
          socket,           \* the socket of the connection, made ready to connect
          helper,           \* the last socket of a cert-proof request
          keyfile,          \* the private key file
          pubfile,          \* the public key file
          registered,       \* the device's key at the server's WireGuard registry
          wgKeys,           \* WireGuard keys generated so far
          runs,             \* starts so far
          trouble           \* history: something outside the client went wrong

setupVars == <<config, cert, proven, dial, paths, socket, helper, keyfile, pubfile,
               registered, wgKeys, runs, trouble>>

None == 0

(* A key file holds nothing yet, a write that was cut short, or a key. *)
Absent == 0
Torn == 1
Whole == {2, 3}

Protocol == {"naive_tcp", "wss", "h3", "wireguard", "other"}
Scheme == {"H3", "Https", "Http"}

(* bound: it has the path's bind address; network: the network that        *)
(* belongs to that address; protected: it is exempt from the VPN.          *)
Socket == [bound : BOOLEAN, network : BOOLEAN, protected : BOOLEAN]

Path == [kind : Protocol, bound : BOOLEAN, network : BOOLEAN, wg : Nat]

Awaiting == {"proof", "connect", "refresh", "reconnect", "talk", "udp"}

Dial == [at : Awaiting \cup {"idle", "next", "key", "write", "public", "socket",
                             "done", "failed"},
         path : Nat, todo : Seq(Protocol), schemes : Seq(Scheme),
         asks : {"auth", "capabilities", "provision"}, pin : Nat, wg : Nat]

Idle == [at |-> "idle", path |-> 1, todo |-> <<>>, schemes |-> <<>>,
         asks |-> "auth", pin |-> None, wg |-> None]

NoSocket == [bound |-> FALSE, network |-> FALSE, protected |-> TRUE]

SetupInit == /\ config \in Configs
             /\ CertInit
             /\ dial = Idle
             /\ paths = <<>>
             /\ socket = NoSocket /\ helper = NoSocket
             /\ keyfile = Absent /\ pubfile = Absent
             /\ registered = None /\ wgKeys = 0
             /\ runs = 0
             /\ trouble = FALSE

-----------------------------------------------------------------------------
(* Which protocols, in which order. *)

DefaultProtocols == <<"wss", "h3", "wireguard">>

sanitize_preferred_protocols ==
  LET filtered == SelectSeq(config.protocols, LAMBDA p : config.debug \/ p # "naive_tcp")
  IN  IF filtered = <<>> THEN DefaultProtocols ELSE filtered

(* path is counted from 1: path i starts with protocol i, wrapping around. *)
rotated_protocols(path) ==
  LET protocols == sanitize_preferred_protocols
  IN  [i \in DOMAIN protocols |-> protocols[((path + i - 2) % Len(protocols)) + 1]]

bootstrap_scheme_candidates ==
  IF config.plain THEN <<"Http", "Https">> ELSE <<"H3", "Https", "Http">>

Proto == Head(dial.todo)

(* What the connection of the moment speaks. *)
Via == CASE Proto = "wireguard" -> Head(dial.schemes)
         [] Proto = "wss" /\ config.plain -> "ws"
         [] OTHER -> Proto

Establishing == dial.at \notin {"idle", "done", "failed"}

HasBind == dial.path <= config.binds

At(at) == dial.at = at

-----------------------------------------------------------------------------
(* The sockets.  With a bind address the Android callbacks bind the socket *)
(* to its network and then protect it; without one it is only protected.   *)

prepare_bound_socket_for_connect ==
  [bound |-> TRUE, network |-> config.android, protected |-> config.android]

WildcardSocket == [bound |-> FALSE, network |-> FALSE, protected |-> config.android]

bind_quic_udp_socket(bind) ==
  IF bind THEN prepare_bound_socket_for_connect ELSE WildcardSocket

connect_quic_client == bind_quic_udp_socket(FALSE)

connect_quic_client_with_bind == bind_quic_udp_socket(TRUE)

(* Seeded fault: the second connection does not ask for the bind address. *)
reconnect_anywhere == WildcardSocket

connect_websocket_tcp_socket ==
  IF HasBind THEN prepare_bound_socket_for_connect ELSE WildcardSocket

connect_bootstrap_tcp == WildcardSocket

CertProofSocket == WildcardSocket

(* WireGuardTransport::new gets no network callback. *)
WireGuardSocket ==
  [bound |-> HasBind, network |-> FALSE, protected |-> config.android]

-----------------------------------------------------------------------------
(* What follows: each operator is the dial after a step of it. *)

(* The attempt with this protocol is over. *)
AttemptFails == [dial EXCEPT !.at = "next", !.todo = Tail(@), !.pin = None]

should_retry_tls_rotation == config.pinned # None /\ config.paired

CanPin == config.pinned # None \/ config.paired

(* The stored pin, or one that is to be proved first. *)
PinOrProve(d) ==
  IF config.pinned # None THEN [d EXCEPT !.at = "connect", !.pin = config.pinned]
  ELSE [d EXCEPT !.at = "proof"]

(* Without either, the certificate authorities of the system decide. *)
resolve_wss_tls_connector(d) ==
  IF CanPin THEN PinOrProve(d) ELSE [d EXCEPT !.at = "connect", !.pin = None]

(* HTTP/3 without a stored pin takes any certificate, and has it proved on *)
(* the same connection before the request.                                 *)
request_bootstrap_json_h3(d) == [d EXCEPT !.at = "connect", !.pin = config.pinned]

request_bootstrap_json(d) ==
  CASE Head(d.schemes) = "H3" -> request_bootstrap_json_h3(d)
    [] Head(d.schemes) = "Https" -> PinOrProve(d)
    [] Head(d.schemes) = "Http" -> [d EXCEPT !.at = "connect", !.pin = None]

(* A scheme that needs a pin and has no way to get one fails at once. *)
UsableSchemes ==
  SelectSeq(bootstrap_scheme_candidates, LAMBDA s : s = "Http" \/ CanPin)

(* Every scheme starts with asking for the capabilities. *)
BootstrapVia(d, schemes) ==
  request_bootstrap_json([d EXCEPT !.asks = "capabilities", !.schemes = schemes])

bootstrap_wireguard_peer(d) == BootstrapVia(d, UsableSchemes)

NextScheme == IF Len(dial.schemes) = 1 THEN AttemptFails
              ELSE BootstrapVia(dial, Tail(dial.schemes))

(* The connection is of no use. *)
ConnectionFails == IF Proto = "wireguard" THEN NextScheme ELSE AttemptFails

(* Where an attempt goes once it has the device key. *)
AfterKey ==
  CASE Proto = "wss" -> [dial EXCEPT !.at = "socket", !.asks = "auth"]
    [] Proto = "wireguard" -> bootstrap_wireguard_peer([dial EXCEPT !.wg = wgKeys'])
    [] OTHER -> [dial EXCEPT !.at = "talk", !.asks = "auth"]

(* QUIC will not go without a pin. *)
establish_quic_session == IF CanPin THEN PinOrProve(dial) ELSE AttemptFails

(* The first step of an attempt. *)
AttemptStarts ==
  CASE Proto \in {"wss", "wireguard"} -> [dial EXCEPT !.at = "key"]
    [] Proto = "naive_tcp" -> [dial EXCEPT !.at = "connect", !.pin = None]
    [] Proto = "h3" -> establish_quic_session
    [] Proto = "other" -> AttemptFails

Established(path) ==
  /\ paths' = Append(paths, path)
  /\ dial' = IF dial.path = config.count
             THEN [Idle EXCEPT !.at = "done"]
             ELSE [Idle EXCEPT !.at = "next", !.path = dial.path + 1,
                               !.todo = rotated_protocols(dial.path + 1)]

-----------------------------------------------------------------------------
(* The steps. *)

Outside == <<config, cert, proven, registered, runs>>
Files == <<keyfile, pubfile>>
Sockets == <<socket, helper>>

ClientStarts ==
  /\ At("idle")
  /\ runs < config.runs
  /\ runs' = runs + 1
  /\ trouble' = (proven # cert)
  /\ dial' = [Idle EXCEPT !.at = "next", !.todo = rotated_protocols(1)]
  /\ UNCHANGED <<config, cert, proven, registered, paths, Sockets, Files, wgKeys>>

(* The next protocol of the path; without one the first path fails the     *)
(* whole call, and a later one ends it with the paths there are.           *)
NextProtocol ==
  /\ At("next")
  /\ dial' = CASE dial.todo # <<>> -> AttemptStarts
               [] dial.todo = <<>> /\ dial.path = 1 -> [Idle EXCEPT !.at = "failed"]
               [] OTHER -> [Idle EXCEPT !.at = "done"]
  /\ UNCHANGED <<Outside, Files, paths, Sockets, wgKeys, trouble>>

(* load_or_create_device_keypair with a private key file: it is used and   *)
(* the public key written again, or it does not parse.                     *)
LoadKey ==
  /\ At("key") /\ keyfile # Absent
  /\ dial' = IF keyfile = Torn THEN AttemptFails ELSE [dial EXCEPT !.at = "public"]
  /\ UNCHANGED <<Outside, Files, paths, Sockets, wgKeys, trouble>>

(* Seeded fault: the private key is looked for under the public key's name. *)
MissingPublicKey == /\ At("key") /\ pubfile = Absent
                    /\ keyfile' = Torn
                    /\ dial' = [dial EXCEPT !.at = "write"]
                    /\ UNCHANGED <<Outside, pubfile, paths, Sockets, wgKeys, trouble>>

(* Without one: fs::write truncates the file, and then fills it. *)
CreateKey == /\ At("key") /\ keyfile = Absent
             /\ keyfile' = Torn
             /\ dial' = [dial EXCEPT !.at = "write"]
             /\ UNCHANGED <<Outside, pubfile, paths, Sockets, wgKeys, trouble>>

WriteKey == /\ At("write")
            /\ \/ /\ keyfile' \in Whole
                  /\ dial' = [dial EXCEPT !.at = "public"]
                  /\ UNCHANGED trouble
               \/ /\ UNCHANGED keyfile
                  /\ dial' = AttemptFails
                  /\ trouble' = TRUE
            /\ UNCHANGED <<Outside, pubfile, paths, Sockets, wgKeys>>

WritePublicKey ==
  /\ At("public")
  /\ \/ /\ wgKeys' = IF Proto = "wireguard" THEN wgKeys + 1 ELSE wgKeys
        /\ pubfile' = keyfile
        /\ dial' = AfterKey
        /\ UNCHANGED trouble
     \/ /\ pubfile' = Torn
        /\ dial' = AttemptFails
        /\ trouble' = TRUE
        /\ UNCHANGED wgKeys
  /\ UNCHANGED <<Outside, keyfile, paths, Sockets>>

(* The websocket's own socket is made ready before its connector is known. *)
establish_websocket_session ==
  /\ At("socket") /\ ~HasBind
  /\ socket' = WildcardSocket
  /\ dial' = IF config.plain THEN [dial EXCEPT !.at = "connect"]
             ELSE resolve_wss_tls_connector(dial)
  /\ UNCHANGED <<Outside, Files, paths, helper, wgKeys, trouble>>

establish_websocket_session_with_bind ==
  /\ At("socket") /\ HasBind
  /\ socket' = prepare_bound_socket_for_connect
  /\ dial' = IF config.plain THEN [dial EXCEPT !.at = "connect"]
             ELSE resolve_wss_tls_connector(dial)
  /\ UNCHANGED <<Outside, Files, paths, helper, wgKeys, trouble>>

(* A callback refuses the socket, or there is none to be had. *)
SocketRefused ==
  /\ At("socket")
  /\ dial' = AttemptFails
  /\ trouble' = TRUE
  /\ UNCHANGED <<Outside, Files, paths, Sockets, wgKeys>>

(* The certificate presented must be the one the server signs for. *)
fetch_and_verify_cert_proof ==
  /\ At("proof") /\ proven = cert
  /\ helper' = CertProofSocket
  /\ dial' = [dial EXCEPT !.at = "connect", !.pin = cert]
  /\ UNCHANGED <<Outside, Files, paths, socket, wgKeys, trouble>>

(* Only the websocket goes on without a proof. *)
CertProofFails ==
  /\ At("proof")
  /\ dial' = IF Via = "wss" THEN [dial EXCEPT !.at = "connect", !.pin = None]
             ELSE ConnectionFails
  /\ trouble' = TRUE
  /\ UNCHANGED <<Outside, Files, paths, Sockets, wgKeys>>

(* Seeded fault: the pin that has just failed is used again. *)
refresh_nothing ==
  /\ At("refresh")
  /\ dial' = [dial EXCEPT !.at = "reconnect"]
  /\ UNCHANGED <<Outside, Files, paths, Sockets, wgKeys, trouble>>

refresh_tls_fingerprint_after_rotation ==
  /\ At("refresh") /\ proven = cert
  /\ helper' = CertProofSocket
  /\ dial' = [dial EXCEPT !.at = "reconnect", !.pin = cert]
  /\ UNCHANGED <<Outside, Files, paths, socket, wgKeys, trouble>>

RefreshFails ==
  /\ At("refresh")
  /\ dial' = ConnectionFails
  /\ trouble' = TRUE
  /\ UNCHANGED <<Outside, Files, paths, Sockets, wgKeys>>

-----------------------------------------------------------------------------
Connecting == At("connect") \/ At("reconnect")

establish_naive_tcp_session == WildcardSocket

establish_naive_tcp_session_with_bind == prepare_bound_socket_for_connect

ConnectionSocket ==
  CASE Via = "naive_tcp" -> IF HasBind THEN establish_naive_tcp_session_with_bind
                            ELSE establish_naive_tcp_session
    [] Via \in {"ws", "wss"} -> IF At("connect") THEN socket
                               ELSE connect_websocket_tcp_socket
    [] Via = "h3" -> IF HasBind THEN connect_quic_client_with_bind ELSE connect_quic_client
    [] Via = "H3" -> connect_quic_client
    [] Via \in {"Https", "Http"} -> connect_bootstrap_tcp

Presented == IF Via \in {"h3", "H3"} THEN proven ELSE cert

(* The server's certificate passes. *)
Connect ==
  /\ Connecting
  /\ dial.pin \in {None, Presented}
  /\ socket' = ConnectionSocket
  /\ dial' = [dial EXCEPT !.at = IF Via \in {"naive_tcp", "h3"} THEN "key" ELSE "talk"]
  /\ UNCHANGED <<Outside, Files, paths, helper, wgKeys, trouble>>

(* A first connection that fails at TLS is tried once more with a new pin. *)
TlsFails == IF At("connect") /\ should_retry_tls_rotation
            THEN [dial EXCEPT !.at = "refresh"] ELSE ConnectionFails

PinnedCertVerifier ==
  /\ Connecting
  /\ dial.pin \notin {None, Presented}
  /\ socket' = ConnectionSocket
  /\ dial' = TlsFails
  /\ UNCHANGED <<Outside, Files, paths, helper, wgKeys, trouble>>

(* The socket is refused, the server does not answer or hangs up.  QUIC    *)
(* does not tell this from a certificate that is refused; over TCP only a  *)
(* failure after the connect is taken for one.                             *)
ConnectFails ==
  /\ Connecting
  /\ \/ Via \in {"naive_tcp", "ws", "wss", "Https", "Http"} /\ dial' = ConnectionFails
     \/ Via \in {"wss", "Https", "h3", "H3"} /\ dial' = TlsFails
  /\ trouble' = TRUE
  /\ UNCHANGED <<Outside, Files, paths, Sockets, wgKeys>>

-----------------------------------------------------------------------------
(* On the connection. *)

(* perform_auth_handshake and its websocket twin. *)
perform_auth_handshake ==
  /\ At("talk") /\ Via \in {"naive_tcp", "ws", "wss"}
  /\ Established([kind |-> Proto, bound |-> HasBind, network |-> socket.network,
                  wg |-> None])
  /\ UNCHANGED <<Outside, Files, Sockets, wgKeys, trouble>>

HandshakeFails ==
  /\ At("talk") /\ dial.asks = "auth"
  /\ dial' = AttemptFails
  /\ trouble' = TRUE
  /\ UNCHANGED <<Outside, Files, paths, Sockets, wgKeys>>

(* The hello names the key "public_key"; the server looks for              *)
(* "public_key_b64" and refuses it.                                        *)
perform_quic_auth_handshake ==
  /\ At("talk") /\ Via = "h3"
  /\ dial' = AttemptFails
  /\ UNCHANGED <<Outside, Files, paths, Sockets, wgKeys, trouble>>

(* The capabilities list wireguard: the same scheme is asked again, on a   *)
(* new connection.                                                         *)
CapabilitiesAnswered ==
  /\ At("talk") /\ dial.asks = "capabilities"
  /\ dial' = request_bootstrap_json([dial EXCEPT !.asks = "provision"])
  /\ UNCHANGED <<Outside, Files, paths, Sockets, wgKeys, trouble>>

PeerProvisioned ==
  /\ At("talk") /\ dial.asks = "provision"
  /\ registered' = dial.wg
  /\ dial' = [dial EXCEPT !.at = "udp"]
  /\ UNCHANGED <<config, cert, proven, runs, Files, paths, Sockets, wgKeys, trouble>>

(* What the server may have done with a request that is given up. *)
RequestGivenUp ==
  registered' \in {registered} \cup
                  (IF At("talk") /\ dial.asks = "provision" THEN {dial.wg} ELSE {})

(* An error or an answer without what is needed: the next scheme.  An      *)
(* answer that does not parse ends the attempt.                            *)
BootstrapFails ==
  /\ At("talk") /\ dial.asks # "auth"
  /\ RequestGivenUp
  /\ dial' \in {NextScheme, AttemptFails}
  /\ trouble' = TRUE
  /\ UNCHANGED <<config, cert, proven, runs, Files, paths, Sockets, wgKeys>>

establish_wireguard_session ==
  /\ At("udp")
  /\ socket' = WireGuardSocket
  /\ Established([kind |-> Proto, bound |-> HasBind, network |-> FALSE, wg |-> dial.wg])
  /\ UNCHANGED <<Outside, Files, helper, wgKeys, trouble>>

WireGuardSocketFails ==
  /\ At("udp")
  /\ dial' = AttemptFails
  /\ trouble' = TRUE
  /\ UNCHANGED <<Outside, Files, paths, Sockets, wgKeys>>

-----------------------------------------------------------------------------
(* Seeded fault: the wireguard attempts have no timeout. *)
TimesOutButWireGuard ==
  /\ dial.at \in Awaiting /\ Proto # "wireguard"
  /\ dial' = AttemptFails
  /\ trouble' = TRUE
  /\ UNCHANGED <<Outside, Files, paths, Sockets, wgKeys>>

(* PATH_ESTABLISH_TIMEOUT. *)
AttemptTimesOut ==
  /\ dial.at \in Awaiting
  /\ RequestGivenUp
  /\ dial' = AttemptFails
  /\ trouble' = TRUE
  /\ UNCHANGED <<config, cert, proven, runs, Files, paths, Sockets, wgKeys>>

(* ANDROID_PATH_ESTABLISH_TIMEOUT, over the whole call. *)
EstablishTimesOut ==
  /\ config.android
  /\ dial.at \in Awaiting
  /\ RequestGivenUp
  /\ dial' = [Idle EXCEPT !.at = "failed"]
  /\ paths' = <<>>
  /\ trouble' = TRUE
  /\ UNCHANGED <<config, cert, proven, runs, Files, Sockets, wgKeys>>

(* The process is gone, with its paths; it may be started again. *)
ClientStops ==
  /\ ~At("idle")
  /\ RequestGivenUp
  /\ dial' = Idle
  /\ paths' = <<>>
  /\ socket' = NoSocket /\ helper' = NoSocket
  /\ UNCHANGED <<config, cert, proven, runs, Files, wgKeys, trouble>>

(* The server restarts with another certificate.  That disturbs a client   *)
(* that holds a fresh proof of the old one.                                *)
ServerRestarts ==
  /\ Restarted
  /\ cert' <= config.certs /\ <<cert, proven>>' # <<cert, proven>>
  /\ trouble' = (trouble \/ At("reconnect") \/ At("talk")
                         \/ (At("connect") /\ config.pinned = None))
  /\ UNCHANGED <<config, registered, runs, dial, Files, paths, Sockets, wgKeys>>

(* It renews its certificate as it runs.  Until it restarts, no proof is   *)
(* accepted over TCP.                                                      *)
ServerRenews ==
  /\ Renewed
  /\ cert' <= config.certs
  /\ trouble' = TRUE
  /\ UNCHANGED <<config, registered, runs, dial, Files, paths, Sockets, wgKeys>>

LocalStep == \/ NextProtocol
             \/ LoadKey
             \/ CreateKey
             \/ WriteKey
             \/ WritePublicKey
             \/ establish_websocket_session
             \/ establish_websocket_session_with_bind
             \/ SocketRefused

NetworkStep == \/ fetch_and_verify_cert_proof
               \/ CertProofFails
               \/ refresh_tls_fingerprint_after_rotation
               \/ RefreshFails
               \/ Connect
               \/ PinnedCertVerifier
               \/ ConnectFails
               \/ perform_auth_handshake
               \/ HandshakeFails
               \/ perform_quic_auth_handshake
               \/ CapabilitiesAnswered
               \/ PeerProvisioned
               \/ BootstrapFails
               \/ establish_wireguard_session
               \/ WireGuardSocketFails

SetupStep == \/ ClientStarts
             \/ LocalStep
             \/ NetworkStep
             \/ AttemptTimesOut
             \/ EstablishTimesOut
             \/ ClientStops
             \/ ServerRestarts
             \/ ServerRenews

-----------------------------------------------------------------------------
SetupTypeOK ==
  /\ config \in Configs
  /\ cert \in 1..config.certs /\ proven \in 1..cert
  /\ dial \in Dial
  /\ paths \in Seq(Path) /\ Len(paths) <= config.count
  /\ socket \in Socket /\ helper \in Socket
  /\ {keyfile, pubfile} \subseteq {Absent, Torn} \cup Whole
  /\ registered \in 0..wgKeys
  /\ runs \in 0..config.runs
  /\ trouble \in BOOLEAN

(* No socket of an Android client reaches connect() without having been    *)
(* exempted from the VPN, whether it is a path's, the second one after a   *)
(* failed pin, a bootstrap request's or a cert-proof's: otherwise its      *)
(* traffic goes into the tunnel that is waiting for it.  And a path over   *)
(* TCP whose interface was chosen runs on the network of that interface,   *)
(* also when its first connection was dropped for a rotated certificate    *)
(* and a second one took its place.                                        *)
SocketsOnTheirNetwork ==
  config.android =>
    /\ socket.protected /\ helper.protected
    /\ \A i \in DOMAIN paths :
         paths[i].bound /\ paths[i].kind # "wireguard" => paths[i].network

(* A client that is paired gets all the paths it asks for over websockets  *)
(* as long as nothing goes wrong but that the server restarts with another *)
(* certificate: a stored pin that is out of date is proved anew, and that  *)
(* at most once per attempt.                                               *)
StalePinHeals ==
  /\ At("done") \/ At("failed")
  /\ ~trouble /\ ~config.plain /\ config.paired /\ keyfile # Torn
  /\ "wss" \in Range(sanitize_preferred_protocols)
  => Len(paths) = config.count

(* The key the device is known by at the server is never replaced: not by  *)
(* an attempt that runs again, and not after a crash between the writes of *)
(* the two key files.                                                      *)
IdentityIsKept == [][(keyfile \in Whole) => (keyfile' = keyfile)]_setupVars

(* establish_transport_paths returns, although no exchange with the server *)
(* is ever sure to be answered.                                            *)
EstablishEnds == Establishing ~> ~Establishing

=============================================================================
