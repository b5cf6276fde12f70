-------------------------- MODULE ServerHostProofs --------------------------
(***************************************************************************)
(* Proofs about ServerHost and the components it is made of, for any hosts *)
(* and devices, any number of connections, starts and renewals.            *)
(***************************************************************************)
EXTENDS ServerHost, TLAPS

-----------------------------------------------------------------------------
(* Of the variables of Pairing, every step of the server changes what a    *)
(* step of Pairing does.                                                   *)
LEMMA HostStepsArePairingSteps == [Next]_vars => [PairingNext]_pairingVars
<1> SUFFICES ASSUME [Next]_vars PROVE [PairingNext]_pairingVars
  OBVIOUS
<1>1. CASE Start \/ NetworkDone \/ LoadCertificate \/ StartFails \/ Renew \/ Shutdown \/ Cleanup
  BY <1>1 DEF Start, NetworkDone, LoadCertificate, StartFails, Renew, Shutdown, Cleanup
<1>2. CASE SetUpNetwork
  BY <1>2 DEF SetUpNetwork, NetworkStep
<1>3. CASE LoadKeys
  BY <1>3 DEF LoadKeys, PairingNext
<1>4. CASE Pair
  BY <1>4 DEF Pair, PairingNext
<1>5. CASE Edit
  BY <1>5 DEF Edit, PairingNext
<1>6. CASE Exit \/ Killed
  BY <1>6 DEF Exit, Killed, TasksEnd, PairingNext
<1>7. CASE UNCHANGED vars
  BY <1>7 DEF vars
<1> QED BY <1>1, <1>2, <1>3, <1>4, <1>5, <1>6, <1>7 DEF Next

LEMMA HostPairs == Spec => PairingSpec
<1>1. Init => PairingInit
  BY DEF Init
<1> QED BY <1>1, HostStepsArePairingSteps, PTL DEF Spec, PairingSpec

-----------------------------------------------------------------------------
(* Why a spent token stays spent.  A server's life knows one token with a  *)
(* use left, the last one issued: the file holds it or nothing, so every   *)
(* document that a handshake has taken the use off is empty, and whichever *)
(* handshake writes last, and whatever is cut short, leaves it empty.      *)
TokenInv ==
  /\ issued \in Nat
  /\ tokens \subseteq {issued}
  /\ spent \subseteq 0..issued
  /\ issued \in spent => tokens = {}
  /\ DOMAIN hs = Conn
  /\ \A c \in Conn : /\ "tdoc" \in DOMAIN hs[c] /\ hs[c].tdoc = {}
                     /\ hs[c].at \in {"wipe_tokens", "fill_tokens"} => hs[c].token \in 0..issued

(* Where a key that is in a file, in memory or on its way to either comes  *)
(* from.                                                                   *)
Redeemed == {"wipe_tokens", "fill_tokens", "authorize", "wipe_devices", "fill_devices"}

KeyInv ==
  /\ devices \subseteq entitled
  /\ memory \subseteq entitled
  /\ watcher.doc \subseteq entitled
  /\ DOMAIN hs = Conn
  /\ \A c \in Conn : /\ hs[c].ddoc \subseteq entitled
                     /\ hs[c].at \in Redeemed => hs[c].device \in entitled

-----------------------------------------------------------------------------
(* The tokens: Hello and the steps of a handshake. *)
LEMMA HelloKeepsTokens ==
  ASSUME TokenInv, NEW c \in Conn, NEW d \in Device, NEW t \in 0..issued, Hello(c, d, t)
  PROVE  TokenInv'
<1>1. /\ DOMAIN hs' = Conn
      /\ \A k \in Conn : k # c => hs'[k] = hs[k]
      /\ "tdoc" \in DOMAIN hs'[c] /\ hs'[c].tdoc = {}
      /\ hs'[c].at \in {"challenge", "idle", "redeem"}
  BY DEF Hello, TokenInv, NoHello
<1>2. UNCHANGED <<tokens, issued, spent>>
  BY DEF Hello
<1> QED BY <1>1, <1>2 DEF TokenInv

LEMMA HandshakeKeepsTokens ==
  ASSUME TokenInv, NEW c \in Conn, HandshakeStep(c)
  PROVE  TokenInv'
<1>1. CASE redeem_invite_token(c)
  <2>1. UNCHANGED <<tokens, issued, spent>>
    BY <1>1 DEF redeem_invite_token
  <2>2. DOMAIN hs' = Conn /\ \A k \in Conn : k # c => hs'[k] = hs[k]
    BY <1>1 DEF redeem_invite_token, TokenInv
  <2>3. CASE Redeemable(c)
    <3>1. hs[c].token = issued /\ tokens \ {hs[c].token} = {}
      BY <2>3 DEF Redeemable, TokenInv
    <3>2. hs'[c] = [hs[c] EXCEPT !.at = "wipe_tokens", !.tdoc = tokens \ {hs[c].token}]
      BY <1>1, <2>3 DEF redeem_invite_token, TokenInv
    <3>3. "tdoc" \in DOMAIN hs'[c] /\ hs'[c].tdoc = {} /\ hs'[c].token = issued
      BY <3>1, <3>2 DEF TokenInv
    <3> QED BY <2>1, <2>2, <3>3 DEF TokenInv
  <2>4. CASE ~Redeemable(c)
    <3>1. hs'[c] = NoHello
      BY <1>1, <2>4 DEF redeem_invite_token, TokenInv
    <3> QED BY <2>1, <2>2, <3>1 DEF TokenInv, NoHello
  <2> QED BY <2>3, <2>4
<1>2. CASE WipeTokens(c)
  BY <1>2 DEF WipeTokens, TokenInv, At, Go
<1>3. CASE persist_manager(c)
  BY <1>3 DEF persist_manager, TokenInv, At, Go
<1>4. CASE authorize_device_key(c)
  BY <1>4 DEF authorize_device_key, TokenInv
<1>5. CASE WipeDevices(c)
  BY <1>5 DEF WipeDevices, TokenInv, Go
<1>6. CASE persist_devices_file(c)
  BY <1>6 DEF persist_devices_file, TokenInv, Go
<1>7. CASE WriteFails(c)
  BY <1>7 DEF WriteFails, TokenInv, Ends, NoHello
<1>8. CASE ReadDevices(c)
  BY <1>8 DEF ReadDevices, TokenInv
<1>9. CASE reload(c)
  BY <1>9 DEF reload, TokenInv, Go
<1>10. CASE ChallengeEnds(c)
  BY <1>10 DEF ChallengeEnds, TokenInv, Ends, NoHello
<1> QED BY <1>1, <1>2, <1>3, <1>4, <1>5, <1>6, <1>7, <1>8, <1>9, <1>10 DEF HandshakeStep

LEMMA TokenInvIsInductive ==
  TokenInv /\ [PairingNext]_pairingVars => TokenInv'
<1> SUFFICES ASSUME TokenInv, [PairingNext]_pairingVars PROVE TokenInv'
  OBVIOUS
<1>1. ASSUME NEW c \in Conn, NEW d \in Device, NEW t \in 0..issued, Hello(c, d, t)
      PROVE  TokenInv'
  BY <1>1, HelloKeepsTokens
<1>2. ASSUME NEW c \in Conn, HandshakeStep(c)
      PROVE  TokenInv'
  BY <1>2, HandshakeKeepsTokens
<1>3. CASE WatcherStep
  BY <1>3 DEF WatcherStep, WatcherEvent, WatcherAssigns, DebounceEnds, TokenInv
<1>4. ASSUME NEW d \in Device, OperatorEdits(d)
      PROVE  TokenInv'
  BY <1>4 DEF OperatorEdits, TokenInv
<1>5. CASE ensure_startup_invite
  BY <1>5 DEF ensure_startup_invite, TokenInv
<1>6. CASE InviteCutShort
  BY <1>6 DEF InviteCutShort, TokenInv
<1>7. CASE ServerGone
  BY <1>7 DEF ServerGone, TokenInv, NoHello
<1>8. CASE UNCHANGED pairingVars
  BY <1>8 DEF pairingVars, TokenInv
<1> QED BY <1>1, <1>2, <1>3, <1>4, <1>5, <1>6, <1>7, <1>8 DEF PairingNext

(* SpentStaysSpent holds for any devices and connections, with failing and *)
(* torn writes and any restarts (redeem_invite_token, persist_manager and  *)
(* ensure_startup_invite).                                                 *)
THEOREM TokensAreSpentForGood == Spec => []SpentStaysSpent
<1>1. PairingInit => TokenInv
  BY DEF PairingInit, TokenInv, NoHello
<1>2. TokenInv => SpentStaysSpent
  BY DEF TokenInv, SpentStaysSpent
<1> QED BY <1>1, <1>2, TokenInvIsInductive, HostPairs, PTL DEF PairingSpec

-----------------------------------------------------------------------------
(* The keys. *)
LEMMA HandshakeKeepsKeys ==
  ASSUME KeyInv, NEW c \in Conn, HandshakeStep(c)
  PROVE  KeyInv'
<1>1. CASE redeem_invite_token(c)
  <2>1. UNCHANGED <<devices, memory, watcher>>
    BY <1>1 DEF redeem_invite_token
  <2>2. DOMAIN hs' = Conn /\ \A k \in Conn : k # c => hs'[k] = hs[k]
    BY <1>1 DEF redeem_invite_token, KeyInv
  <2>3. CASE Redeemable(c)
    <3>1. entitled' = entitled \cup {hs[c].device}
      BY <1>1, <2>3 DEF redeem_invite_token
    <3>2. hs'[c].ddoc = hs[c].ddoc /\ hs'[c].device = hs[c].device
      BY <1>1, <2>3 DEF redeem_invite_token, KeyInv
    <3> QED BY <2>1, <2>2, <3>1, <3>2 DEF KeyInv
  <2>4. CASE ~Redeemable(c)
    <3>1. entitled' = entitled /\ hs'[c] = NoHello
      BY <1>1, <2>4 DEF redeem_invite_token, KeyInv
    <3> QED BY <2>1, <2>2, <3>1 DEF KeyInv, NoHello, Redeemed
  <2> QED BY <2>3, <2>4
<1>2. CASE WipeTokens(c)
  BY <1>2 DEF WipeTokens, KeyInv, Redeemed, At, Go
<1>3. CASE persist_manager(c)
  BY <1>3 DEF persist_manager, KeyInv, Redeemed, At, Go
<1>4. CASE authorize_device_key(c)
  <2>1. hs[c].device \in entitled
    BY <1>4 DEF authorize_device_key, KeyInv, Redeemed, At
  <2>2. UNCHANGED <<devices, memory, watcher, entitled>>
    BY <1>4 DEF authorize_device_key
  <2>3. DOMAIN hs' = Conn /\ \A k \in Conn : k # c => hs'[k] = hs[k]
    BY <1>4 DEF authorize_device_key, KeyInv
  <2>4. hs'[c].device = hs[c].device
    BY <1>4 DEF authorize_device_key, KeyInv
  <2>5. hs'[c].ddoc \in {hs[c].ddoc, devices \cup {hs[c].device}}
    BY <1>4 DEF authorize_device_key, KeyInv
  <2> QED BY <2>1, <2>2, <2>3, <2>4, <2>5 DEF KeyInv
<1>5. CASE WipeDevices(c)
  BY <1>5 DEF WipeDevices, KeyInv, Redeemed, At, Go, Notified
<1>6. CASE persist_devices_file(c)
  BY <1>6 DEF persist_devices_file, KeyInv, Redeemed, At, Go, Notified
<1>7. CASE WriteFails(c)
  BY <1>7 DEF WriteFails, KeyInv, Redeemed, Ends, NoHello
<1>8. CASE ReadDevices(c)
  BY <1>8 DEF ReadDevices, KeyInv, Redeemed
<1>9. CASE reload(c)
  BY <1>9 DEF reload, KeyInv, Redeemed, Go
<1>10. CASE ChallengeEnds(c)
  BY <1>10 DEF ChallengeEnds, KeyInv, Redeemed, Ends, NoHello
<1> QED BY <1>1, <1>2, <1>3, <1>4, <1>5, <1>6, <1>7, <1>8, <1>9, <1>10 DEF HandshakeStep

LEMMA KeyInvIsInductive ==
  KeyInv /\ [PairingNext]_pairingVars => KeyInv'
<1> SUFFICES ASSUME KeyInv, [PairingNext]_pairingVars PROVE KeyInv'
  OBVIOUS
<1>1. ASSUME NEW c \in Conn, NEW d \in Device, NEW t \in 0..issued, Hello(c, d, t)
      PROVE  KeyInv'
  <2>1. /\ DOMAIN hs' = Conn
        /\ \A k \in Conn : k # c => hs'[k] = hs[k]
        /\ hs'[c].ddoc = {}
        /\ hs'[c].at \in {"challenge", "idle", "redeem"}
    BY <1>1 DEF Hello, KeyInv, NoHello
  <2>2. UNCHANGED <<devices, memory, watcher, entitled>>
    BY <1>1 DEF Hello
  <2> QED BY <2>1, <2>2 DEF KeyInv, Redeemed
<1>2. ASSUME NEW c \in Conn, HandshakeStep(c)
      PROVE  KeyInv'
  BY <1>2, HandshakeKeepsKeys
<1>3. CASE WatcherStep
  <2>1. CASE WatcherEvent
    BY <2>1 DEF WatcherEvent, KeyInv
  <2>2. CASE WatcherAssigns
    BY <2>2 DEF WatcherAssigns, KeyInv
  <2>3. CASE DebounceEnds
    BY <2>3 DEF DebounceEnds, KeyInv
  <2> QED BY <1>3, <2>1, <2>2, <2>3 DEF WatcherStep
<1>4. ASSUME NEW d \in Device, OperatorEdits(d)
      PROVE  KeyInv'
  BY <1>4 DEF OperatorEdits, KeyInv
<1>5. CASE ensure_startup_invite
  BY <1>5 DEF ensure_startup_invite, KeyInv, Watching
<1>6. CASE InviteCutShort
  BY <1>6 DEF InviteCutShort, KeyInv
<1>7. CASE ServerGone
  BY <1>7 DEF ServerGone, KeyInv, NoHello, Watching, Redeemed
<1>8. CASE UNCHANGED pairingVars
  BY <1>8 DEF pairingVars, KeyInv
<1> QED BY <1>1, <1>2, <1>3, <1>4, <1>5, <1>6, <1>7, <1>8 DEF PairingNext

(* KeysComeFromPairing holds for any devices and connections, whoever      *)
(* reads, empties and fills the devices file meanwhile                     *)
(* (authorize_device_key, reload and AuthorizedKeysWatcher).               *)
THEOREM KeysAreAccountedFor == Spec => []KeysComeFromPairing
<1>1. PairingInit => KeyInv
  BY DEF PairingInit, KeyInv, NoHello, Watching, Redeemed
<1>2. KeyInv => KeysComeFromPairing
  BY DEF KeyInv, KeysComeFromPairing
<1> QED BY <1>1, <1>2, KeyInvIsInductive, HostPairs, PTL DEF PairingSpec

-----------------------------------------------------------------------------
(* The pairings.  Unless two updates overlap or one is cut short, there is *)
(* one handshake that has a document to write, the document has all that   *)
(* was paired, and what was paired is in the file except while that        *)
(* handshake has emptied it.                                               *)
PairTypeInv ==
  /\ PairingTypeOK
  /\ \A c \in Conn : hs[c].at # "idle" => hs[c].device \in Device

Updating == {"wipe_devices", "fill_devices"}

KeepInv ==
  ~disturbed =>
    /\ \A c, k \in Conn : hs[c].at \in Updating /\ hs[k].at \in Updating => c = k
    /\ \A c \in Conn : hs[c].at \in Updating => paired \cup {hs[c].device} \subseteq hs[c].ddoc
    /\ (\A c \in Conn : hs[c].at # "fill_devices") => paired \subseteq devices

LEMMA NoHelloType == NoHello \in Handshake /\ NoHello.at = "idle"
  BY DEF NoHello, Handshake, Steps, NoToken

(* One handshake changes and the other variables keep their types. *)
LEMMA OneHandshakeChanges ==
  ASSUME PairTypeInv, NEW c \in Conn, NEW h \in Handshake,
         h.at # "idle" => h.device \in Device,
         hs' = [hs EXCEPT ![c] = h]
  PROVE  /\ hs' \in [Conn -> Handshake]
         /\ \A k \in Conn : hs'[k].at # "idle" => hs'[k].device \in Device
  BY DEF PairTypeInv, PairingTypeOK

FlagsOK == serving \in BOOLEAN /\ disturbed \in BOOLEAN

FilesOK == /\ tokens \subseteq Nat /\ issued \in Nat
           /\ devices \subseteq Device /\ memory \subseteq Device
           /\ spent \subseteq Nat
           /\ entitled \subseteq Device /\ paired \subseteq Device

LEMMA HelloKeepsType ==
  ASSUME PairTypeInv, NEW c \in Conn, NEW d \in Device, NEW t \in 0..issued, Hello(c, d, t)
  PROVE  PairTypeInv'
<1> DEFINE h == CASE d \in memory -> [NoHello EXCEPT !.at = "challenge", !.device = d]
                  [] d \notin memory /\ t = NoToken -> NoHello
                  [] OTHER -> [NoHello EXCEPT !.at = "redeem", !.device = d, !.token = t]
<1>1. t \in Nat
  BY DEF PairTypeInv, PairingTypeOK
<1>2. h \in Handshake /\ (h.at # "idle" => h.device \in Device)
  BY <1>1 DEF NoHello, Handshake, Steps, NoToken
<1>3. hs' = [hs EXCEPT ![c] = h]
  BY DEF Hello
<1> HIDE DEF h
<1> QED BY <1>2, <1>3, OneHandshakeChanges DEF PairTypeInv, PairingTypeOK, Hello

LEMMA HandshakeKeepsType ==
  ASSUME PairTypeInv, NEW c \in Conn, HandshakeStep(c)
  PROVE  PairTypeInv'
<1> DEFINE Is(h) == /\ h \in Handshake
                    /\ h.at # "idle" => h.device \in Device
                    /\ hs' = [hs EXCEPT ![c] = h]
<1>1. ASSUME NEW h, Is(h), FlagsOK', FilesOK', watcher' \in Watcher
      PROVE  PairTypeInv'
  BY <1>1, OneHandshakeChanges DEF PairTypeInv, PairingTypeOK, FlagsOK, FilesOK
<1>2. hs[c] \in Handshake /\ FlagsOK /\ FilesOK /\ watcher \in Watcher
  BY DEF PairTypeInv, PairingTypeOK, FlagsOK, FilesOK
<1>3. hs[c].at # "idle" => hs[c].device \in Device
  BY DEF PairTypeInv
<1>4. /\ hs[c].tdoc \in SUBSET Nat /\ hs[c].ddoc \in SUBSET Device
      /\ hs[c].token \in Nat
  BY <1>2 DEF Handshake
<1>5. CASE redeem_invite_token(c)
  <2>1. hs[c].device \in Device
    BY <1>3, <1>5 DEF redeem_invite_token, At
  <2>2. FlagsOK' /\ FilesOK' /\ watcher' \in Watcher
    BY <1>2, <1>5, <2>1 DEF redeem_invite_token, FlagsOK, FilesOK
  <2>3. CASE Redeemable(c)
    <3> DEFINE h == [hs[c] EXCEPT !.at = "wipe_tokens", !.tdoc = tokens \ {hs[c].token}]
    <3>1. h \in Handshake /\ h.device = hs[c].device
      BY <1>2 DEF FilesOK, Handshake, Steps
    <3>2. hs' = [hs EXCEPT ![c] = h]
      BY <1>5, <2>3 DEF redeem_invite_token
    <3> HIDE DEF h
    <3> QED BY <1>1, <2>1, <2>2, <3>1, <3>2
  <2>4. CASE ~Redeemable(c)
    <3>1. hs' = [hs EXCEPT ![c] = NoHello]
      BY <1>5, <2>4 DEF redeem_invite_token
    <3> QED BY <1>1, <2>2, <3>1, NoHelloType
  <2> QED BY <2>3, <2>4
<1>6. ASSUME NEW a \in Steps, Go(c, a), hs[c].at # "idle", FlagsOK', FilesOK',
             watcher' \in Watcher
      PROVE  PairTypeInv'
  <2> DEFINE h == [hs[c] EXCEPT !.at = a]
  <2>1. h \in Handshake /\ h.device = hs[c].device
    BY <1>2 DEF Handshake
  <2>2. hs' = [hs EXCEPT ![c] = h]
    BY <1>6 DEF Go
  <2> HIDE DEF h
  <2> QED BY <1>1, <1>3, <1>6, <2>1, <2>2
<1>7. ASSUME Notified PROVE watcher' \in Watcher
  BY <1>2, <1>7 DEF Notified, Watcher
<1>8. CASE WipeTokens(c)
  <2>1. FlagsOK' /\ FilesOK' /\ watcher' \in Watcher /\ hs[c].at # "idle"
    BY <1>2, <1>8 DEF WipeTokens, FlagsOK, FilesOK, At
  <2>2. Go(c, "fill_tokens") /\ "fill_tokens" \in Steps
    BY <1>8 DEF WipeTokens, Steps
  <2> QED BY <1>6, <2>1, <2>2
<1>9. CASE persist_manager(c)
  <2>1. FlagsOK' /\ FilesOK' /\ watcher' \in Watcher /\ hs[c].at # "idle"
    BY <1>2, <1>4, <1>9 DEF persist_manager, FlagsOK, FilesOK, At
  <2>2. Go(c, "authorize") /\ "authorize" \in Steps
    BY <1>9 DEF persist_manager, Steps
  <2> QED BY <1>6, <2>1, <2>2
<1>10. CASE authorize_device_key(c)
  <2>1. hs[c].device \in Device
    BY <1>3, <1>10 DEF authorize_device_key, At
  <2>2. FlagsOK'
    BY <1>2, <1>10 DEF authorize_device_key, FlagsOK
  <2>3. FilesOK' /\ watcher' \in Watcher
    BY <1>2, <1>10 DEF authorize_device_key, FilesOK
  <2>4. CASE hs[c].device \in devices
    <3> DEFINE h == [hs[c] EXCEPT !.at = "reload"]
    <3>1. h \in Handshake /\ h.device = hs[c].device
      BY <1>2 DEF Handshake, Steps
    <3>2. hs' = [hs EXCEPT ![c] = h]
      BY <1>10, <2>4 DEF authorize_device_key
    <3> HIDE DEF h
    <3> QED BY <1>1, <2>1, <2>2, <2>3, <3>1, <3>2
  <2>5. CASE hs[c].device \notin devices
    <3> DEFINE h == [hs[c] EXCEPT !.at = "wipe_devices", !.ddoc = devices \cup {hs[c].device}]
    <3>1. h \in Handshake /\ h.device = hs[c].device
      BY <1>2, <2>1 DEF FilesOK, Handshake, Steps
    <3>2. hs' = [hs EXCEPT ![c] = h]
      BY <1>10, <2>5 DEF authorize_device_key
    <3> HIDE DEF h
    <3> QED BY <1>1, <2>1, <2>2, <2>3, <3>1, <3>2
  <2> QED BY <2>4, <2>5
<1>11. CASE WipeDevices(c)
  <2>1. FlagsOK' /\ FilesOK' /\ hs[c].at # "idle" /\ Notified
    BY <1>2, <1>11 DEF WipeDevices, FlagsOK, FilesOK, At
  <2>2. Go(c, "fill_devices") /\ "fill_devices" \in Steps
    BY <1>11 DEF WipeDevices, Steps
  <2> QED BY <1>6, <1>7, <2>1, <2>2
<1>12. CASE persist_devices_file(c)
  <2>1. hs[c].at # "idle" /\ Notified
    BY <1>12 DEF persist_devices_file, At
  <2>2. FlagsOK' /\ FilesOK'
    BY <1>2, <1>3, <1>4, <1>12, <2>1 DEF persist_devices_file, FlagsOK, FilesOK
  <2>3. Go(c, "reload") /\ "reload" \in Steps
    BY <1>12 DEF persist_devices_file, Steps
  <2> QED BY <1>6, <1>7, <2>1, <2>2, <2>3
<1>13. CASE WriteFails(c)
  <2>1. FlagsOK'
    BY <1>2, <1>13 DEF WriteFails, FlagsOK
  <2>2. FilesOK' /\ watcher' \in Watcher
    BY <1>2, <1>13 DEF WriteFails, FilesOK
  <2>3. hs' = [hs EXCEPT ![c] = NoHello]
    BY <1>13 DEF WriteFails, Ends
  <2> QED BY <1>1, <2>1, <2>2, <2>3, NoHelloType
<1>14. CASE ReadDevices(c)
  <2> DEFINE h == [hs[c] EXCEPT !.at = "assign", !.ddoc = devices]
  <2>1. h \in Handshake /\ h.device = hs[c].device
    BY <1>2 DEF FilesOK, Handshake, Steps
  <2>2. hs' = [hs EXCEPT ![c] = h]
    BY <1>14 DEF ReadDevices
  <2>3. FlagsOK' /\ FilesOK' /\ watcher' \in Watcher /\ hs[c].at # "idle"
    BY <1>2, <1>14 DEF ReadDevices, FlagsOK, FilesOK, At
  <2> HIDE DEF h
  <2> QED BY <1>1, <1>3, <2>1, <2>2, <2>3
<1>15. CASE reload(c)
  <2>1. FlagsOK' /\ FilesOK' /\ watcher' \in Watcher /\ hs[c].at # "idle"
    BY <1>2, <1>4, <1>15 DEF reload, FlagsOK, FilesOK, At
  <2>2. Go(c, "challenge") /\ "challenge" \in Steps
    BY <1>15 DEF reload, Steps
  <2> QED BY <1>6, <2>1, <2>2
<1>16. CASE ChallengeEnds(c)
  <2>1. FlagsOK' /\ FilesOK' /\ watcher' \in Watcher
    BY <1>2, <1>16 DEF ChallengeEnds, FlagsOK, FilesOK
  <2>2. hs' = [hs EXCEPT ![c] = NoHello]
    BY <1>16 DEF ChallengeEnds, Ends
  <2> QED BY <1>1, <2>1, <2>2, NoHelloType
<1> QED BY <1>5, <1>8, <1>9, <1>10, <1>11, <1>12, <1>13, <1>14, <1>15, <1>16 DEF HandshakeStep

LEMMA PairTypeInvIsInductive ==
  PairTypeInv /\ [PairingNext]_pairingVars => PairTypeInv'
<1> SUFFICES ASSUME PairTypeInv, [PairingNext]_pairingVars PROVE PairTypeInv'
  OBVIOUS
<1>1. FlagsOK /\ FilesOK /\ watcher \in Watcher /\ hs \in [Conn -> Handshake]
  BY DEF PairTypeInv, PairingTypeOK, FlagsOK, FilesOK
<1>2. ASSUME FlagsOK', FilesOK', watcher' \in Watcher, UNCHANGED hs
      PROVE  PairTypeInv'
  BY <1>2 DEF PairTypeInv, PairingTypeOK, FlagsOK, FilesOK
<1>3. ASSUME NEW c \in Conn, NEW d \in Device, NEW t \in 0..issued, Hello(c, d, t)
      PROVE  PairTypeInv'
  BY <1>3, HelloKeepsType
<1>4. ASSUME NEW c \in Conn, HandshakeStep(c)
      PROVE  PairTypeInv'
  BY <1>4, HandshakeKeepsType
<1>5. CASE WatcherStep
  <2>1. FlagsOK' /\ FilesOK' /\ UNCHANGED hs
    BY <1>1, <1>5 DEF WatcherStep, WatcherEvent, WatcherAssigns, DebounceEnds, FlagsOK,
                      FilesOK, Watcher
  <2>2. CASE WatcherEvent
    BY <1>1, <1>2, <2>1, <2>2 DEF WatcherEvent, Watcher, FilesOK
  <2>3. CASE WatcherAssigns
    BY <1>1, <1>2, <2>1, <2>3 DEF WatcherAssigns, Watcher
  <2>4. CASE DebounceEnds
    BY <1>1, <1>2, <2>1, <2>4 DEF DebounceEnds, Watcher
  <2> QED BY <1>5, <2>2, <2>3, <2>4 DEF WatcherStep
<1>6. ASSUME NEW d \in Device, OperatorEdits(d)
      PROVE  PairTypeInv'
  <2>1. FlagsOK'
    BY <1>1, <1>6 DEF OperatorEdits, FlagsOK
  <2>2. FilesOK' /\ UNCHANGED hs
    BY <1>1, <1>6 DEF OperatorEdits, FilesOK
  <2>3. watcher' \in Watcher
    BY <1>1, <1>6 DEF OperatorEdits, Watcher
  <2> QED BY <1>2, <2>1, <2>2, <2>3
<1>7. Watching \in Watcher
  BY DEF Watching, Watcher
<1>8. CASE ensure_startup_invite
  <2>1. FlagsOK'
    BY <1>1, <1>8, Zenon DEF ensure_startup_invite, FlagsOK
  <2>2. FilesOK' /\ watcher' \in Watcher /\ UNCHANGED hs
    BY <1>1, <1>7, <1>8 DEF ensure_startup_invite, FilesOK
  <2> QED BY <1>2, <2>1, <2>2
<1>9. CASE InviteCutShort
  BY <1>1, <1>2, <1>9 DEF InviteCutShort, FlagsOK, FilesOK
<1>10. CASE ServerGone
  <2>1. serving' \in BOOLEAN
    BY <1>10, Zenon DEF ServerGone
  <2>2. disturbed' \in BOOLEAN
    BY <1>10 DEF ServerGone
  <2>3. FilesOK' /\ watcher' \in Watcher
    BY <1>1, <1>7, <1>10 DEF ServerGone, FilesOK
  <2>4. hs' = [c \in Conn |-> NoHello]
    BY <1>10 DEF ServerGone
  <2> QED BY <2>1, <2>2, <2>3, <2>4, NoHelloType DEF PairTypeInv, PairingTypeOK, FilesOK
<1>11. CASE UNCHANGED pairingVars
  BY <1>1, <1>2, <1>11 DEF pairingVars, FlagsOK, FilesOK
<1> QED BY <1>3, <1>4, <1>5, <1>6, <1>8, <1>9, <1>10, <1>11 DEF PairingNext

LEMMA HandshakeKeepsPaired ==
  ASSUME PairTypeInv, KeepInv, NEW c \in Conn, HandshakeStep(c)
  PROVE  KeepInv'
<1>1. hs \in [Conn -> Handshake]
  BY DEF PairTypeInv, PairingTypeOK
<1>2. ASSUME hs'[c].at \notin Updating, hs[c].at # "fill_devices",
             \A k \in Conn : k # c => hs'[k] = hs[k],
             UNCHANGED <<devices, paired, disturbed>>
      PROVE  KeepInv'
  BY <1>2 DEF KeepInv, Updating
<1>3. CASE redeem_invite_token(c)
  BY <1>1, <1>2, <1>3 DEF redeem_invite_token, Handshake, NoHello, Updating, At
<1>4. CASE WipeTokens(c)
  BY <1>1, <1>2, <1>4 DEF WipeTokens, Go, Handshake, Updating, At
<1>5. CASE persist_manager(c)
  BY <1>1, <1>2, <1>5 DEF persist_manager, Go, Handshake, Updating, At
<1>6. CASE authorize_device_key(c)
  <2> SUFFICES ASSUME ~disturbed' PROVE KeepInv'
    BY DEF KeepInv
  <2>1. ~disturbed /\ \A k \in Conn : hs[k].at \notin Updating
    BY <1>6 DEF authorize_device_key, UpdateUnderWay, At, Updating
  <2>2. paired \subseteq devices
    BY <2>1 DEF KeepInv, Updating
  <2>3. /\ \A k \in Conn : k # c => hs'[k] = hs[k]
        /\ UNCHANGED <<devices, paired>>
    BY <1>1, <1>6 DEF authorize_device_key
  <2>4. hs'[c].at \in Updating => paired \cup {hs'[c].device} \subseteq hs'[c].ddoc
    <3>1. CASE hs[c].device \in devices
      BY <1>1, <1>6, <3>1 DEF authorize_device_key, Handshake, Updating
    <3>2. CASE hs[c].device \notin devices
      BY <1>1, <1>6, <2>2, <3>2 DEF authorize_device_key, Handshake
    <3> QED BY <3>1, <3>2
  <2> QED BY <2>1, <2>2, <2>3, <2>4 DEF KeepInv
<1>7. CASE WipeDevices(c)
  <2>1. /\ hs[c].at \in Updating /\ hs'[c].at = "fill_devices"
        /\ hs'[c].device = hs[c].device /\ hs'[c].ddoc = hs[c].ddoc
        /\ \A k \in Conn : k # c => hs'[k] = hs[k]
        /\ UNCHANGED <<paired, disturbed>>
    BY <1>1, <1>7 DEF WipeDevices, Go, Handshake, At, Updating
  <2> QED BY <2>1 DEF KeepInv, Updating
<1>8. CASE persist_devices_file(c)
  <2>1. /\ hs[c].at \in Updating /\ hs'[c].at = "reload"
        /\ \A k \in Conn : k # c => hs'[k] = hs[k]
        /\ devices' = hs[c].ddoc /\ paired' = paired \cup {hs[c].device}
        /\ UNCHANGED disturbed
    BY <1>1, <1>8 DEF persist_devices_file, Go, Handshake, At, Updating
  <2>2. hs'[c].at \notin Updating
    BY <2>1 DEF Updating
  <2> QED BY <2>1, <2>2 DEF KeepInv
<1>9. CASE WriteFails(c)
  <2>1. CASE hs[c].at = "fill_devices"
    BY <1>9, <2>1 DEF WriteFails, At, KeepInv
  <2>2. CASE hs[c].at # "fill_devices"
    <3>1. /\ hs'[c] = NoHello /\ \A k \in Conn : k # c => hs'[k] = hs[k]
          /\ UNCHANGED <<devices, paired>>
      BY <1>1, <1>9 DEF WriteFails, Ends
    <3>2. disturbed' = disturbed
      BY <1>9, <2>2 DEF WriteFails, At, PairTypeInv, PairingTypeOK
    <3> QED BY <1>2, <2>2, <3>1, <3>2, NoHelloType DEF Updating
  <2> QED BY <2>1, <2>2
<1>10. CASE ReadDevices(c)
  BY <1>1, <1>2, <1>10 DEF ReadDevices, Handshake, Updating, At
<1>11. CASE reload(c)
  BY <1>1, <1>2, <1>11 DEF reload, Go, Handshake, Updating, At
<1>12. CASE ChallengeEnds(c)
  BY <1>1, <1>2, <1>12, NoHelloType DEF ChallengeEnds, Ends, Updating, At
<1> QED BY <1>3, <1>4, <1>5, <1>6, <1>7, <1>8, <1>9, <1>10, <1>11, <1>12 DEF HandshakeStep

LEMMA KeepInvIsInductive ==
  PairTypeInv /\ KeepInv /\ [PairingNext]_pairingVars => KeepInv'
<1> SUFFICES ASSUME PairTypeInv, KeepInv, [PairingNext]_pairingVars PROVE KeepInv'
  OBVIOUS
<1>1. hs \in [Conn -> Handshake]
  BY DEF PairTypeInv, PairingTypeOK
<1>2. ASSUME UNCHANGED <<hs, devices, paired, disturbed>> PROVE KeepInv'
  BY <1>2 DEF KeepInv
<1>3. ASSUME NEW c \in Conn, NEW d \in Device, NEW t \in 0..issued, Hello(c, d, t)
      PROVE  KeepInv'
  <2>1. /\ hs[c].at = "idle"
        /\ hs'[c].at \in {"challenge", "idle", "redeem"}
        /\ \A k \in Conn : k # c => hs'[k] = hs[k]
        /\ UNCHANGED <<devices, paired, disturbed>>
    BY <1>1, <1>3 DEF Hello, NoHello, At
  <2> QED BY <2>1 DEF KeepInv, Updating
<1>4. ASSUME NEW c \in Conn, HandshakeStep(c)
      PROVE  KeepInv'
  BY <1>4, HandshakeKeepsPaired
<1>5. CASE WatcherStep
  BY <1>2, <1>5 DEF WatcherStep, WatcherEvent, WatcherAssigns, DebounceEnds
<1>6. ASSUME NEW d \in Device, OperatorEdits(d)
      PROVE  KeepInv'
  <2> SUFFICES ASSUME ~disturbed' PROVE KeepInv'
    BY DEF KeepInv
  <2>1. ~disturbed /\ \A k \in Conn : hs[k].at \notin Updating
    BY <1>6 DEF OperatorEdits, UpdateUnderWay, At, Updating
  <2>2. paired \subseteq devices
    BY <2>1 DEF KeepInv, Updating
  <2>3. paired' \subseteq devices' /\ UNCHANGED hs
    BY <1>6, <2>2 DEF OperatorEdits
  <2> QED BY <2>1, <2>3 DEF KeepInv
<1>7. CASE ensure_startup_invite \/ InviteCutShort
  BY <1>2, <1>7 DEF ensure_startup_invite, InviteCutShort
<1>8. CASE ServerGone
  <2> SUFFICES ASSUME ~disturbed' PROVE KeepInv'
    BY DEF KeepInv
  <2>1. /\ ~disturbed /\ \A k \in Conn : hs[k].at # "fill_devices"
        /\ UNCHANGED <<devices, paired>>
    BY <1>8 DEF ServerGone, At
  <2>2. \A k \in Conn : hs'[k].at \notin Updating
    BY <1>8, NoHelloType DEF ServerGone, Updating
  <2> QED BY <2>1, <2>2 DEF KeepInv
<1>9. CASE UNCHANGED pairingVars
  BY <1>2, <1>9 DEF pairingVars
<1> QED BY <1>3, <1>4, <1>5, <1>6, <1>7, <1>8, <1>9 DEF PairingNext

(* PairedAreKept holds for any devices and connections, over any restarts  *)
(* (authorize_device_key and persist_devices_file).                        *)
THEOREM PairingsAreKept == Spec => []PairedAreKept
<1>1. PairingInit => PairTypeInv
  <2> SUFFICES ASSUME PairingInit PROVE PairTypeInv
    OBVIOUS
  <2>1. FlagsOK
    BY Zenon DEF PairingInit, FlagsOK
  <2>2. FilesOK
    BY DEF PairingInit, FilesOK
  <2>3. watcher \in Watcher
    BY DEF PairingInit, Watching, Watcher
  <2>4. hs = [c \in Conn |-> NoHello]
    BY DEF PairingInit
  <2> QED BY <2>1, <2>2, <2>3, <2>4, NoHelloType
          DEF PairTypeInv, PairingTypeOK, FlagsOK, FilesOK
<1>2. PairingInit => KeepInv
  BY NoHelloType DEF PairingInit, KeepInv, Updating
<1>3. PairTypeInv /\ KeepInv => PairedAreKept
  BY DEF PairTypeInv, KeepInv, PairedAreKept, At
<1> QED BY <1>1, <1>2, <1>3, PairTypeInvIsInductive, KeepInvIsInductive, HostPairs, PTL
        DEF PairingSpec

-----------------------------------------------------------------------------
(* The network.  A runtime's record of what it has installed is, until     *)
(* something is cut short, exactly what the host has beyond what it was    *)
(* found with; and the process is in a phase that fits its runtime.        *)
NetworkInv ==
  /\ NetworkTypeOK
  /\ found.rules \subseteq rules
  /\ found.rules \cap runtime.installed = {}
  /\ runtime.at \in {"none", "device"} => runtime.installed = {} /\ runtime.next = 1
  /\ runtime.at = "rules" => runtime.next \in 1..3
  /\ runtime.at = "drop" => runtime.next \in 0..3
  /\ ~cut /\ runtime.at \in {"none", "device"} =>
       rules = found.rules /\ ip_forward = found.ip_forward
  /\ ~cut /\ runtime.at \in {"rules", "ready", "drop"} =>
       /\ rules \subseteq found.rules \cup runtime.installed
       /\ runtime.original_ip_forward = found.ip_forward
  /\ ~cut /\ runtime.at = "drop" =>
       \A i \in 1..3 : i > runtime.next /\ Rules[i] \in rules => Rules[i] \in found.rules

PhaseInv ==
  /\ phase \in {"down", "network", "keys", "tls", "failing", "up", "stopping", "cleanup"}
  /\ phase = "down" => runtime.at = "none"
  /\ phase = "network" => host.tun /\ runtime.at \in {"none", "device", "rules", "ready"}
  /\ phase \in {"keys", "tls", "failing", "up"} =>
       runtime.at = IF host.tun THEN "ready" ELSE "none"
  /\ phase \in {"stopping", "cleanup"} => runtime.at \in {"drop", "none"}

HostNetworkInv == NetworkInv /\ PhaseInv

LEMMA RuleNames == /\ \A i \in 1..3 : Rules[i] \in Rule
                   /\ \A r \in Rule : \E i \in 1..3 : r = Rules[i]
<1>1. Rules[1] = "masquerade" /\ Rules[2] = "forward_out" /\ Rules[3] = "forward_in"
  BY DEF Rules
<1>2. 1 \in 1..3 /\ 2 \in 1..3 /\ 3 \in 1..3
  OBVIOUS
<1>3. \A i \in 1..3 : i = 1 \/ i = 2 \/ i = 3
  OBVIOUS
<1> QED BY <1>1, <1>2, <1>3, Zenon DEF Rule

LEMMA SetupKeepsNetwork ==
  ASSUME NetworkInv, setup \/ SetupFails \/ EnableForwarding
  PROVE  NetworkInv'
<1>1. CASE setup
  BY <1>1 DEF setup, NetworkInv, NetworkTypeOK, Runtime
<1>2. CASE SetupFails
  BY <1>2 DEF SetupFails, NetworkInv, NetworkTypeOK, Runtime, NoRuntime
<1>3. CASE EnableForwarding
  <2>1. /\ runtime' \in Runtime
        /\ runtime'.at = "rules" /\ runtime'.original_ip_forward = ip_forward
        /\ runtime'.next = runtime.next /\ runtime'.installed = runtime.installed
    BY <1>3 DEF EnableForwarding, NetworkInv, NetworkTypeOK, Runtime
  <2>2. ip_forward' = 1 /\ UNCHANGED <<rules, found, cut>> /\ runtime.at = "device"
    BY <1>3 DEF EnableForwarding
  <2> QED BY <2>1, <2>2 DEF NetworkInv, NetworkTypeOK
<1> QED BY <1>1, <1>2, <1>3

LEMMA EnsureKeepsNetwork ==
  ASSUME NetworkInv, ensure_rule
  PROVE  NetworkInv'
<1> DEFINE rule == Rules[runtime.next]
<1>1. /\ runtime.at = "rules" /\ runtime.next \in 1..3
      /\ rules' = rules \cup {rule}
      /\ UNCHANGED <<ip_forward, found, cut>>
  BY DEF ensure_rule, NetworkInv
<1>2. rule \in Rule
  BY <1>1, RuleNames
<1> HIDE DEF rule
<1>3. /\ runtime' \in Runtime
      /\ runtime'.at = IF runtime.next = 3 THEN "ready" ELSE "rules"
      /\ runtime'.next = runtime.next + 1
      /\ runtime'.installed = runtime.installed \cup ({rule} \ rules)
      /\ runtime'.original_ip_forward = runtime.original_ip_forward
  <2>1. runtime' = [AfterRule EXCEPT !.installed = @ \cup ({rule} \ rules)]
    BY DEF ensure_rule, rule
  <2>2. runtime.installed \cup ({rule} \ rules) \in SUBSET Rule /\ runtime.next + 1 \in 0..4
    BY <1>1, <1>2 DEF NetworkInv, NetworkTypeOK, Runtime
  <2>3. runtime' = [at |-> IF runtime.next = 3 THEN "ready" ELSE "rules",
                    next |-> runtime.next + 1,
                    installed |-> runtime.installed \cup ({rule} \ rules),
                    original_ip_forward |-> runtime.original_ip_forward]
    BY <2>1 DEF AfterRule, NetworkInv, NetworkTypeOK, Runtime
  <2>4. runtime.original_ip_forward \in 0..1
    BY DEF NetworkInv, NetworkTypeOK, Runtime
  <2> QED BY <2>2, <2>3, <2>4 DEF Runtime
<1>4. NetworkTypeOK'
  BY <1>1, <1>2, <1>3 DEF NetworkTypeOK, NetworkInv
<1> QED BY <1>1, <1>2, <1>3, <1>4 DEF NetworkInv

LEMMA BeginDropKeepsNetwork ==
  ASSUME NetworkInv, runtime.at \in {"rules", "ready"}, BeginDrop
  PROVE  NetworkInv'
<1>1. /\ runtime' \in Runtime
      /\ runtime'.at = "drop" /\ runtime'.next = 3
      /\ runtime'.installed = runtime.installed
      /\ runtime'.original_ip_forward = runtime.original_ip_forward
  <2>1. runtime' = [at |-> "drop", next |-> 3, installed |-> runtime.installed,
                    original_ip_forward |-> runtime.original_ip_forward]
    BY DEF BeginDrop, NetworkInv, NetworkTypeOK, Runtime
  <2>2. runtime.installed \in SUBSET Rule /\ runtime.original_ip_forward \in 0..1
    BY DEF NetworkInv, NetworkTypeOK, Runtime
  <2> QED BY <2>1, <2>2 DEF Runtime
<1>2. UNCHANGED <<rules, ip_forward, found, cut>>
  BY DEF BeginDrop
<1>3. \A i \in 1..3 : ~(i > 3)
  OBVIOUS
<1> QED BY <1>1, <1>2, <1>3 DEF NetworkInv, NetworkTypeOK

LEMMA DropKeepsNetwork ==
  ASSUME NetworkInv, DropStep
  PROVE  NetworkInv'
<1>1. CASE remove_rule
  <2> DEFINE rule == Rules[runtime.next]
             mine == runtime.installed \cap {rule}
  <2>1. runtime.at = "drop" /\ runtime.next \in 1..3 /\ UNCHANGED <<ip_forward, found>>
    BY <1>1 DEF remove_rule, NetworkInv
  <2>2. /\ runtime' \in Runtime
        /\ runtime'.at = "drop" /\ runtime'.next = runtime.next - 1
        /\ runtime'.installed = runtime.installed
        /\ runtime'.original_ip_forward = runtime.original_ip_forward
    BY <1>1, <2>1 DEF remove_rule, NetworkInv, NetworkTypeOK, Runtime
  <2>3. \/ rules' = rules \ mine /\ cut' = cut
        \/ rules' = rules /\ cut'
    BY <1>1 DEF remove_rule
  <2>4. rules' \subseteq rules /\ found.rules \subseteq rules'
    BY <2>3 DEF NetworkInv
  <2>5. ASSUME ~cut', NEW i \in 1..3, i > runtime.next - 1, Rules[i] \in rules'
        PROVE  Rules[i] \in found.rules
    <3>1. CASE i = runtime.next
      BY <2>1, <2>3, <2>5, <3>1 DEF NetworkInv
    <3>2. CASE i > runtime.next
      BY <2>1, <2>3, <2>4, <2>5, <3>2 DEF NetworkInv
    <3> QED BY <2>1, <2>5, <3>1, <3>2
  <2>6. cut => cut'
    BY <2>3
  <2> HIDE DEF rule, mine
  <2>7. NetworkTypeOK'
    BY <2>1, <2>2, <2>4 DEF NetworkTypeOK, NetworkInv
  <2> QED BY <2>1, <2>2, <2>4, <2>5, <2>6, <2>7 DEF NetworkInv
<1>2. CASE RestoreForwarding
  <2>1. runtime.at = "drop" /\ runtime.next = 0 /\ runtime' = NoRuntime
    BY <1>2 DEF RestoreForwarding
  <2>2. /\ UNCHANGED <<rules, found>>
        /\ \/ ip_forward' = runtime.original_ip_forward /\ cut' = cut
           \/ ip_forward' = ip_forward /\ cut'
    BY <1>2 DEF RestoreForwarding
  <2>3. ASSUME ~cut PROVE rules = found.rules
    <3>1. ASSUME NEW r \in rules PROVE r \in found.rules
      <4>1. PICK i \in 1..3 : r = Rules[i]
        BY RuleNames DEF NetworkInv, NetworkTypeOK
      <4>2. i > runtime.next
        BY <2>1
      <4> QED BY <2>1, <2>3, <4>1, <4>2 DEF NetworkInv
    <3> QED BY <3>1 DEF NetworkInv
  <2>4. /\ NoRuntime \in Runtime /\ NoRuntime.at = "none"
        /\ NoRuntime.installed = {} /\ NoRuntime.next = 1
    BY DEF NoRuntime, Runtime
  <2>5. runtime.original_ip_forward \in 0..1
    BY DEF NetworkInv, NetworkTypeOK, Runtime
  <2>6. NetworkTypeOK'
    BY <2>1, <2>2, <2>4, <2>5 DEF NetworkInv, NetworkTypeOK
  <2>7. ~cut' => ~cut /\ ip_forward' = found.ip_forward
    BY <2>1, <2>2 DEF NetworkInv
  <2> QED BY <2>1, <2>2, <2>3, <2>4, <2>6, <2>7 DEF NetworkInv
<1> QED BY <1>1, <1>2 DEF DropStep

LEMMA KillKeepsNetwork ==
  ASSUME NetworkInv, NetworkKilled
  PROVE  NetworkInv'
<1>1. /\ NoRuntime \in Runtime /\ NoRuntime.at = "none"
      /\ NoRuntime.installed = {} /\ NoRuntime.next = 1
  BY DEF NoRuntime, Runtime
<1>2. runtime' = NoRuntime /\ UNCHANGED <<rules, ip_forward, found>>
  BY DEF NetworkKilled
<1>3. ~cut' => ~cut /\ runtime.at \in {"none", "device"}
  BY DEF NetworkKilled, NetworkInv, NetworkTypeOK, Runtime
<1> QED BY <1>1, <1>2, <1>3 DEF NetworkInv, NetworkTypeOK

LEMMA HostNetworkInvIsInductive ==
  HostNetworkInv /\ [Next]_vars => HostNetworkInv'
<1> SUFFICES ASSUME NetworkInv, PhaseInv, [Next]_vars PROVE NetworkInv' /\ PhaseInv'
  BY DEF HostNetworkInv
<1>1. CASE Start \/ NetworkDone
  BY <1>1 DEF Start, NetworkDone, NetworkReady, networkVars, hostVars, NetworkInv,
              NetworkTypeOK, PhaseInv
<1>2. CASE LoadKeys \/ LoadCertificate \/ StartFails
  BY <1>2 DEF LoadKeys, LoadCertificate, StartFails, networkVars, hostVars, NetworkInv,
              NetworkTypeOK, PhaseInv
<1>3. CASE Pair \/ Edit \/ Renew
  BY <1>3 DEF Pair, Edit, Renew, networkVars, hostVars, NetworkInv, NetworkTypeOK, PhaseInv
<1>4. CASE SetUpNetwork
  <2>1. phase = "network" /\ UNCHANGED host
    BY <1>4 DEF SetUpNetwork, NetworkStep, hostVars
  <2>2. CASE setup /\ phase' = "network"
    <3>1. runtime'.at = "device"
      BY <2>2 DEF setup, NetworkInv, NetworkTypeOK, Runtime
    <3> QED BY <2>1, <2>2, <3>1, SetupKeepsNetwork DEF PhaseInv
  <2>3. CASE SetupFails /\ phase' = "down"
    <3>1. runtime'.at = "none"
      BY <2>3 DEF SetupFails, NoRuntime
    <3> QED BY <2>1, <2>3, <3>1, SetupKeepsNetwork DEF PhaseInv
  <2>4. CASE EnableForwarding /\ phase' = "network"
    <3>1. runtime'.at = "rules"
      BY <2>4 DEF EnableForwarding, NetworkInv, NetworkTypeOK, Runtime
    <3> QED BY <2>1, <2>4, <3>1, SetupKeepsNetwork DEF PhaseInv
  <2>5. CASE ensure_rule /\ phase' = "network"
    <3>1. runtime'.at \in {"rules", "ready"}
      BY <2>5 DEF ensure_rule, AfterRule, NetworkInv, NetworkTypeOK, Runtime
    <3> QED BY <2>1, <2>5, <3>1, EnsureKeepsNetwork DEF PhaseInv
  <2>6. CASE EnsureRuleFails /\ phase' = "cleanup"
    <3>1. runtime.at = "rules" /\ BeginDrop
      BY <2>6 DEF EnsureRuleFails
    <3>2. runtime'.at = "drop"
      BY <3>1 DEF BeginDrop, NetworkInv, NetworkTypeOK, Runtime
    <3> QED BY <2>1, <2>6, <3>1, <3>2, BeginDropKeepsNetwork DEF PhaseInv
  <2> QED BY <1>4, <2>2, <2>3, <2>4, <2>5, <2>6 DEF SetUpNetwork, NetworkStep
<1>5. CASE Shutdown
  <2>1. /\ phase \in {"up", "failing"} /\ phase' \in {"stopping", "cleanup"}
        /\ UNCHANGED host
    BY <1>5 DEF Shutdown, hostVars
  <2>2. CASE host.tun
    <3>1. BeginDrop /\ runtime.at = "ready"
      BY <1>5, <2>1, <2>2 DEF Shutdown, PhaseInv
    <3>2. runtime'.at = "drop"
      BY <3>1 DEF BeginDrop, NetworkInv, NetworkTypeOK, Runtime
    <3> QED BY <2>1, <3>1, <3>2, BeginDropKeepsNetwork DEF PhaseInv
  <2>3. CASE ~host.tun
    <3>1. UNCHANGED networkVars /\ runtime.at = "none"
      BY <1>5, <2>1, <2>3 DEF Shutdown, PhaseInv
    <3> QED BY <2>1, <3>1 DEF networkVars, NetworkInv, NetworkTypeOK, PhaseInv
  <2> QED BY <2>2, <2>3
<1>6. CASE Cleanup
  <2>1. phase \in {"stopping", "cleanup"} /\ DropStep /\ UNCHANGED <<host, phase>>
    BY <1>6 DEF Cleanup, Ending, hostVars
  <2>2. runtime'.at \in {"drop", "none"}
    BY <2>1 DEF DropStep, remove_rule, RestoreForwarding, NoRuntime, NetworkInv,
                NetworkTypeOK, Runtime
  <2> QED BY <2>1, <2>2, DropKeepsNetwork DEF PhaseInv
<1>9. CASE Exit
  <2>1. UNCHANGED networkVars /\ runtime.at = "none" /\ phase' = "down" /\ UNCHANGED host
    BY <1>9 DEF Exit, NetworkDown, hostVars
  <2> QED BY <2>1 DEF networkVars, NetworkInv, NetworkTypeOK, PhaseInv
<1>7. CASE Killed
  <2>1. NetworkKilled /\ phase' = "down"
    BY <1>7 DEF Killed
  <2>2. runtime'.at = "none"
    BY <2>1 DEF NetworkKilled, NoRuntime
  <2> QED BY <2>1, <2>2, KillKeepsNetwork DEF PhaseInv
<1>8. CASE UNCHANGED vars
  BY <1>8 DEF vars, networkVars, hostVars, NetworkInv, NetworkTypeOK, PhaseInv
<1> QED BY <1>1, <1>2, <1>3, <1>4, <1>5, <1>6, <1>7, <1>8, <1>9 DEF Next

(* HostRestored holds on every host, whatever rules it was found with and  *)
(* however many starts, failed setups and kills there are                  *)
(* (NetworkRuntime::setup, ensure_rule and Drop).                          *)
THEOREM HostIsRestored == Spec => []HostRestored
<1>1. Init => HostNetworkInv
  BY DEF Init, NetworkInit, HostNetworkInv, NetworkInv, NetworkTypeOK, PhaseInv, Runtime,
         NoRuntime
<1>2. HostNetworkInv => HostRestored
  BY DEF HostNetworkInv, NetworkInv, HostRestored, NetworkDown
<1> QED BY <1>1, <1>2, HostNetworkInvIsInductive, PTL DEF Spec

-----------------------------------------------------------------------------
(* The certificate.  Unless a write was cut short, the files hold one pair *)
(* whenever no renewal is writing them; and what is on disk is never older *)
(* than what is served.                                                    *)
CertInv ==
  /\ CertTypeOK
  /\ ~damaged => tls.chain = tls.key
  /\ ~damaged /\ ~Writing => tls_cert_file = tls_key_file
  /\ acme \in {"empty_key", "fill_key", "reload"} => tls_cert_file = made
  /\ acme = "reload" => tls_key_file = made
  /\ acme \in {"fill_cert", "empty_key", "fill_key", "reload"} => made >= FirstPair
  /\ tls.chain <= made \/ (made = Torn /\ tls.chain = FirstPair)
  /\ tls_cert_file <= made
  /\ tls_cert_file >= FirstPair => tls_cert_file >= tls.chain
  /\ ~Up => acme = "off"

LEMMA LoadKeepsCert ==
  ASSUME CertInv, phase = "tls", LoadTls
  PROVE  CertInv' /\ tls'.chain >= tls.chain /\ tls'.chain = tls_cert_der'
<1>1. acme = "off" /\ acme' = acme
  BY DEF CertInv, LoadTls, Up
<1>2. CASE NeedsSelfSigned
  <2>1. /\ made < MaxPair /\ made' = made + 1
        /\ tls_cert_file' = made + 1 /\ tls_key_file' = made + 1
        /\ due' = TRUE /\ damaged' = FALSE /\ UNCHANGED acme_slot
        /\ tls' = [chain |-> made + 1, key |-> made + 1]
        /\ tls_cert_der' = made + 1
    BY <1>2 DEF LoadTls, load_tls_acceptor, MayMake, New
  <2>2. CertTypeOK'
    <3>1. due' \in BOOLEAN /\ acme_slot' \in BOOLEAN /\ damaged' \in BOOLEAN
      BY <2>1, Zenon DEF CertInv, CertTypeOK
    <3>2. made + 1 \in FirstPair..MaxPair /\ made + 1 \in Torn..MaxPair
      BY <2>1, MaxPairAssumption DEF CertInv, CertTypeOK, Torn, FirstPair
    <3>3. {tls_cert_file', tls_key_file'} \subseteq Absent..MaxPair
      BY <2>1, <3>2, MaxPairAssumption DEF Absent, Torn
    <3>4. tls' \in [chain : FirstPair..MaxPair, key : FirstPair..MaxPair]
      BY <2>1, <3>2
    <3>5. made' \in Torn..MaxPair /\ tls_cert_der' \in FirstPair..MaxPair
      BY <2>1, <3>2
    <3> QED BY <3>1, <3>3, <3>4, <3>5 DEF CertTypeOK
  <2>3. tls.chain <= made + 1
    BY DEF CertInv, CertTypeOK, Torn, Absent, FirstPair
  <2> QED BY <1>1, <2>1, <2>2, <2>3 DEF CertInv, Torn, Absent, FirstPair, Writing
<1>3. CASE ~NeedsSelfSigned
  <2>1. /\ Torn \notin {tls_cert_file, tls_key_file}
        /\ Absent \notin {tls_cert_file, tls_key_file}
        /\ tls' = [chain |-> tls_cert_file, key |-> tls_key_file]
        /\ tls_cert_der' = tls_cert_file
        /\ UNCHANGED <<tls_cert_file, tls_key_file, made, due, acme_slot, damaged>>
    BY <1>3 DEF LoadTls, load_tls_acceptor, NeedsSelfSigned
  <2> QED BY <1>1, <2>1, MaxPairAssumption
          DEF CertInv, CertTypeOK, Torn, Absent, FirstPair, Writing
<1> QED BY <1>2, <1>3

LEMMA CutShortKeepsCert ==
  ASSUME CertInv, phase = "tls", SelfSignedCutShort
  PROVE  CertInv'
<1>1. /\ made < MaxPair /\ made' = made + 1
      /\ due' = TRUE /\ damaged' = TRUE
      /\ UNCHANGED <<tls, tls_cert_der, acme_slot, acme>>
      /\ tls_cert_file' \in {Torn, made + 1}
      /\ tls_key_file' \in {tls_key_file, Torn}
      /\ acme = "off"
  BY DEF SelfSignedCutShort, MayMake, New, CertInv, Up
<1> QED BY <1>1, MaxPairAssumption DEF CertInv, CertTypeOK, Torn, Absent, FirstPair, Writing

LEMMA AcmeKeepsCert ==
  ASSUME CertInv, Up, UNCHANGED phase, AcmeStep
  PROVE  CertInv' /\ tls'.chain >= tls.chain /\ UNCHANGED tls_cert_der
<1> USE MaxPairAssumption DEF CertInv, CertTypeOK, Torn, Absent, FirstPair, Writing, Loop, Up
<1>1. CASE SpawnLoop
  BY <1>1 DEF SpawnLoop
<1>2. CASE CheckExpiry
  BY <1>2 DEF CheckExpiry
<1>3. CASE InstallChallenge
  BY <1>3 DEF InstallChallenge
<1>4. CASE ExchangeFails
  BY <1>4 DEF ExchangeFails
<1>5. CASE Validated
  <2>1. /\ acme = "validate" /\ acme' \in {"finalize", "sleep"}
        /\ acme_slot' = FALSE
        /\ UNCHANGED <<tls_cert_file, tls_key_file, made, due, tls, tls_cert_der, damaged>>
    BY <1>5 DEF Validated
  <2>2. due' \in BOOLEAN /\ acme_slot' \in BOOLEAN /\ damaged' \in BOOLEAN
    BY <2>1, Zenon
  <2>3. /\ acme = "validate" /\ acme' \in {"finalize", "sleep"}
        /\ UNCHANGED <<tls_cert_file, tls_key_file, made, due, tls, tls_cert_der, damaged>>
    BY <2>1
  <2> QED BY ONLY CertInv, Up, UNCHANGED phase, <2>2, <2>3
<1>6. CASE Finalized
  BY <1>6 DEF Finalized, MayMake, New
<1>7. CASE WriteCert
  <2>1. /\ acme = "fill_cert" /\ acme' = "empty_key" /\ tls_cert_file' = made /\ due' = FALSE
        /\ UNCHANGED <<tls_key_file, made, tls, tls_cert_der, acme_slot, damaged>>
    BY <1>7 DEF WriteCert
  <2>2. CertTypeOK'
    <3>1. due' \in BOOLEAN /\ acme_slot' \in BOOLEAN /\ damaged' \in BOOLEAN
      BY <2>1, Zenon
    <3>2. tls_cert_file' = made /\ UNCHANGED <<tls_key_file, made, tls, tls_cert_der>>
      BY <2>1
    <3> QED BY ONLY CertInv, <3>1, <3>2, MaxPairAssumption
  <2>3. made >= tls.chain
    BY <2>1
  <2> QED BY <2>1, <2>2, <2>3
<1>8. CASE EmptyKey
  BY <1>8 DEF EmptyKey
<1>9. CASE WriteKey
  BY <1>9 DEF WriteKey
<1>10. CASE WriteCertFails
  BY <1>10 DEF WriteCertFails
<1>11. CASE ReloadAcceptor
  <2>1. /\ acme = "reload" /\ acme' = "sleep" /\ tls' = [chain |-> made, key |-> made]
        /\ damaged' = FALSE
        /\ UNCHANGED <<tls_cert_file, tls_key_file, made, due, tls_cert_der, acme_slot>>
        /\ tls_cert_file = made /\ tls_key_file = made
    BY <1>11 DEF ReloadAcceptor
  <2>2. CertTypeOK'
    <3>1. due' \in BOOLEAN /\ acme_slot' \in BOOLEAN /\ damaged' \in BOOLEAN
      BY <2>1, Zenon
    <3>2. /\ tls' = [chain |-> made, key |-> made] /\ made \in FirstPair..MaxPair
          /\ UNCHANGED <<tls_cert_file, tls_key_file, made, tls_cert_der>>
      BY <2>1
    <3> QED BY ONLY CertInv, <3>1, <3>2
  <2>3. made >= tls.chain
    BY <2>1
  <2> QED BY <2>1, <2>2, <2>3
<1>12. CASE Wakes
  <2>1. /\ acme = "sleep" /\ acme' = "check" /\ due' \in BOOLEAN
        /\ UNCHANGED <<tls_cert_file, tls_key_file, made, tls, tls_cert_der, acme_slot, damaged>>
    BY <1>12 DEF Wakes
  <2> QED BY <2>1
<1> QED BY <1>1, <1>2, <1>3, <1>4, <1>5, <1>6, <1>7, <1>8, <1>9, <1>10, <1>11, <1>12
        DEF AcmeStep

LEMMA StopKeepsCert ==
  ASSUME CertInv, CertStops
  PROVE  CertInv'
  BY MaxPairAssumption
     DEF CertStops, CertInv, CertTypeOK, Torn, Absent, FirstPair, Writing

LEMMA CertInvIsInductive ==
  CertInv /\ [Next]_vars => CertInv'
<1> SUFFICES ASSUME CertInv, [Next]_vars PROVE CertInv'
  OBVIOUS
<1>1. CASE LoadCertificate
  <2>1. CASE LoadTls /\ phase' = "up"
    BY <1>1, <2>1, LoadKeepsCert DEF LoadCertificate
  <2>2. CASE SelfSignedCutShort
    BY <1>1, <2>2, CutShortKeepsCert DEF LoadCertificate
  <2> QED BY <1>1, <2>1, <2>2 DEF LoadCertificate
<1>2. CASE Renew
  BY <1>2, AcmeKeepsCert DEF Renew
<1>3. CASE Exit \/ Killed
  BY <1>3, StopKeepsCert DEF Exit, Killed, TasksEnd
<1>4. CASE Start \/ NetworkDone \/ LoadKeys \/ StartFails \/ SetUpNetwork
  <2>1. UNCHANGED certVars /\ ~Up
    BY <1>4 DEF Start, NetworkDone, LoadKeys, StartFails, SetUpNetwork, NetworkStep, Up
  <2> QED BY <2>1 DEF certVars, CertInv, CertTypeOK, Writing
<1>5. CASE Pair \/ Edit \/ Shutdown \/ Cleanup \/ UNCHANGED vars
  <2>1. UNCHANGED certVars /\ (Up => Up')
    BY <1>5 DEF Pair, Edit, Shutdown, Cleanup, vars, Up
  <2> QED BY <2>1 DEF certVars, CertInv, CertTypeOK, Writing
<1> QED BY <1>1, <1>2, <1>3, <1>4, <1>5 DEF Next

LEMMA CertInvHolds == Spec => []CertInv
<1>1. ASSUME Init PROVE CertInv
  <2>1. /\ tls_cert_file = 0 /\ tls_key_file = 0 /\ made = 1
        /\ due = TRUE /\ acme_slot = FALSE /\ damaged = FALSE
        /\ tls = [chain |-> 2, key |-> 2] /\ tls_cert_der = 2
        /\ acme = "off"
    BY <1>1 DEF Init, CertInit, Torn, Absent, FirstPair
  <2>2. CertTypeOK
    <3>1. due \in BOOLEAN /\ acme_slot \in BOOLEAN /\ damaged \in BOOLEAN
      BY <2>1, Zenon
    <3>2. /\ tls_cert_file = 0 /\ tls_key_file = 0 /\ made = 1
          /\ tls = [chain |-> 2, key |-> 2] /\ tls_cert_der = 2
      BY <2>1
    <3> QED BY ONLY <3>1, <3>2, MaxPairAssumption DEF CertTypeOK, Torn, Absent, FirstPair
  <2> QED BY <2>1, <2>2 DEF CertInv, Torn, FirstPair, Writing
<1> QED BY <1>1, CertInvIsInductive, PTL DEF Spec

(* ServedPairMatches holds for any number of starts and renewals           *)
(* (load_tls_acceptor, run_acme_cycle and ensure_self_signed_cert).        *)
THEOREM ServedPairsMatch == Spec => []ServedPairMatches
<1>1. CertInv => ServedPairMatches
  BY DEF CertInv, ServedPairMatches
<1> QED BY <1>1, CertInvHolds, PTL

LEMMA NumberedFromOne ==
  ASSUME NEW m \in Nat, NEW a \in 2..m, NEW b \in 2..m, b >= a
  PROVE  b - 1 \in (a - 1)..(m - 1)
  OBVIOUS

LEMMA HostStepsAreSourceSteps ==
  ASSUME CertInv, CertInv', [Next]_vars
  PROVE  [Source!Renewed \/ Source!Restarted]_<<tls.chain - 1, tls_cert_der - 1>>
<1>1. /\ tls.chain \in 2..MaxPair /\ tls_cert_der \in 2..MaxPair
      /\ tls'.chain \in 2..MaxPair /\ tls_cert_der' \in 2..MaxPair
  BY DEF CertInv, CertTypeOK, FirstPair
<1>2. CASE tls'.chain >= tls.chain /\ tls'.chain = tls_cert_der'
  <2>1. tls'.chain - 1 \in (tls.chain - 1)..(MaxPair - 1)
    BY <1>1, <1>2, MaxPairAssumption, NumberedFromOne, Zenon
  <2>2. tls_cert_der' - 1 = tls'.chain - 1
    BY <1>2
  <2>3. Source!Restarted
    BY <2>1, <2>2, Zenon DEF Source!Restarted
  <2> QED BY <2>3
<1>3. CASE tls'.chain >= tls.chain /\ UNCHANGED tls_cert_der
  <2>1. CASE tls'.chain = tls.chain
    BY <1>3, <2>1
  <2>2. CASE tls'.chain > tls.chain
    BY <1>1, <1>3, <2>2, MaxPairAssumption DEF Source!Renewed
  <2> QED BY <1>1, <1>3, <2>1, <2>2
<1>4. CASE UNCHANGED <<tls, tls_cert_der>>
  BY <1>4
<1>5. CASE LoadCertificate
  <2>1. CASE phase = "tls" /\ LoadTls
    BY <1>2, <2>1, LoadKeepsCert
  <2>2. CASE SelfSignedCutShort
    BY <1>4, <2>2 DEF SelfSignedCutShort
  <2> QED BY <1>5, <2>1, <2>2 DEF LoadCertificate
<1>6. CASE Renew
  BY <1>3, <1>6, AcmeKeepsCert DEF Renew
<1>7. CASE Exit \/ Killed
  BY <1>4, <1>7 DEF Exit, Killed, TasksEnd, CertStops
<1>8. CASE Start \/ NetworkDone \/ LoadKeys \/ StartFails \/ Shutdown \/ Cleanup \/ SetUpNetwork
  BY <1>4, <1>8 DEF Start, NetworkDone, LoadKeys, StartFails, Shutdown, Cleanup,
                    SetUpNetwork, NetworkStep, certVars
<1>9. CASE Pair \/ Edit \/ UNCHANGED vars
  BY <1>4, <1>9 DEF Pair, Edit, vars, certVars
<1> QED BY <1>5, <1>6, <1>7, <1>8, <1>9 DEF Next

LEMMA StartsLoadBoth ==
  ASSUME CertInv, [Next]_vars, acme = "off"
  PROVE  \/ UNCHANGED <<tls, tls_cert_der>>
         \/ tls_cert_der' = tls'.chain
<1>1. CASE LoadCertificate
  <2>1. CASE phase = "tls" /\ LoadTls
    BY <2>1, LoadKeepsCert
  <2>2. CASE SelfSignedCutShort
    BY <2>2 DEF SelfSignedCutShort
  <2> QED BY <1>1, <2>1, <2>2 DEF LoadCertificate
<1>2. CASE Renew
  BY <1>2 DEF Renew, AcmeStep, Loop, SpawnLoop, CheckExpiry, InstallChallenge, ExchangeFails,
              Validated, Finalized, WriteCert, EmptyKey, WriteKey, WriteCertFails, Writing,
              ReloadAcceptor, Wakes
<1>3. CASE Exit \/ Killed
  BY <1>3 DEF Exit, Killed, TasksEnd, CertStops
<1>4. CASE Start \/ NetworkDone \/ LoadKeys \/ StartFails \/ Shutdown \/ Cleanup \/ SetUpNetwork
  BY <1>4 DEF Start, NetworkDone, LoadKeys, StartFails, Shutdown, Cleanup, SetUpNetwork,
              NetworkStep, certVars
<1>5. CASE Pair \/ Edit \/ UNCHANGED vars
  BY <1>5 DEF Pair, Edit, vars, certVars
<1> QED BY <1>1, <1>2, <1>3, <1>4, <1>5 DEF Next

(* ShowsCerts: the server, through all its starts and renewals, implements *)
(* the certificates that CertSource lets a client see, which are those     *)
(* PathSetup dials against (load_tls_acceptor and the on_renewed closure). *)
THEOREM ServerImplementsCertSource == Spec => ShowsCerts
<1>1. Init => Source!CertInit
  BY DEF Init, CertInit, Source!CertInit, FirstPair
<1>2. CertInv /\ CertInv' /\ [Next]_vars
        => [Source!Renewed \/ Source!Restarted]_<<tls.chain - 1, tls_cert_der - 1>>
  BY HostStepsAreSourceSteps
<1>3. CertInv /\ [Next]_vars
        => [acme = "off" => tls_cert_der' = tls'.chain]_<<tls, tls_cert_der>>
  BY StartsLoadBoth
<1> QED BY <1>1, <1>2, <1>3, CertInvHolds, PTL DEF Spec, ShowsCerts, Source!CertSpec

=============================================================================
