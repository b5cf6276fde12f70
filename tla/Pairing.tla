------------------------------ MODULE Pairing ------------------------------
(***************************************************************************)
(* Who may connect (invite_tokens.rs, authorized_keys.rs, auth_handshake.rs *)
(* of bonded-server).  A handshake of a device that is not in memory       *)
(* redeems its invite token in one file, enters the device in another and  *)
(* loads that file into memory; a watcher loads it after every change, at  *)
(* most once in 200 ms; the operator edits it.  No lock covers a file, the *)
(* handshakes run on several threads, and fs::write empties a file before  *)
(* it fills it: each of these is a step.                                   *)
(*                                                                         *)
(* A token file is the set of the tokens that have a use left, a devices   *)
(* file the set of its keys; an empty file parses, as the empty set.       *)
(* Signatures, expiry dates (which nothing reads) and names are left out.  *)
(***************************************************************************)
EXTENDS Naturals

CONSTANTS Device,           \* device public keys
          Conn,             \* connections in their handshake
          NoDevice

ASSUME NoDeviceAssumption == NoDevice \notin Device

VARIABLES serving,          \* the server runs
          tokens,           \* invite_tokens_file
          issued,           \* tokens issued so far: 1..issued
          devices,          \* authorized_keys_file
          memory,           \* AuthorizedKeysStore::devices
          hs,               \* connection -> its handshake
          watcher,          \* the callback of AuthorizedKeysWatcher
          spent,            \* history: tokens persisted as spent
          entitled,         \* history: devices of the operator, or that redeemed
          paired,           \* history: devices entered by a handshake
          disturbed         \* history: an update of the devices file was
                            \* crossed by another, or cut short

pairingVars == <<serving, tokens, issued, devices, memory, hs, watcher, spent, entitled,
                 paired, disturbed>>

NoToken == 0

Steps == {"idle", "redeem", "wipe_tokens", "fill_tokens", "authorize", "wipe_devices",
          "fill_devices", "reload", "assign", "challenge"}

(* tdoc, ddoc: the documents it has read and changed. *)
Handshake == [at : Steps, device : Device \cup {NoDevice}, token : Nat,
              tdoc : SUBSET Nat, ddoc : SUBSET Device]

NoHello == [at |-> "idle", device |-> NoDevice, token |-> NoToken, tdoc |-> {}, ddoc |-> {}]

(* recent: the last reload is less than 200 ms ago. *)
Watcher == [at : {"wait", "assign"}, doc : SUBSET Device, recent : BOOLEAN, pending : Nat]

Watching == [at |-> "wait", doc |-> {}, recent |-> FALSE, pending |-> 0]

PairingInit == /\ serving = FALSE
               /\ tokens = {} /\ issued = 0
               /\ devices \in SUBSET Device
               /\ memory = {}
               /\ hs = [c \in Conn |-> NoHello]
               /\ watcher = Watching
               /\ spent = {}
               /\ entitled = devices
               /\ paired = {}
               /\ disturbed = FALSE

At(c, step) == hs[c].at = step

Go(c, step) == hs' = [hs EXCEPT ![c].at = step]

Ends(c) == hs' = [hs EXCEPT ![c] = NoHello]

(* The file has changed. *)
Notified == watcher' = [watcher EXCEPT !.pending = @ + 1]

(* A document that another handshake has read is about to replace the file. *)
UpdateUnderWay == \E c \in Conn : At(c, "wipe_devices") \/ At(c, "fill_devices")

-----------------------------------------------------------------------------
(* The handshake.  Its steps from the hello to the challenge have no await *)
(* between them.                                                           *)

Hello(c, d, t) ==
  /\ serving /\ At(c, "idle")
  /\ hs' = [hs EXCEPT ![c] =
       CASE d \in memory -> [NoHello EXCEPT !.at = "challenge", !.device = d]
         [] d \notin memory /\ t = NoToken -> NoHello
         [] OTHER -> [NoHello EXCEPT !.at = "redeem", !.device = d, !.token = t]]
  /\ UNCHANGED <<serving, tokens, issued, devices, memory, watcher, spent, entitled, paired,
                 disturbed>>

Redeemable(c) == hs[c].token \in tokens

(* Seeded fault: the use is taken off a copy of the entry. *)
redeem_copy(c) ==
  /\ At(c, "redeem")
  /\ hs' = [hs EXCEPT ![c] = IF Redeemable(c)
              THEN [@ EXCEPT !.at = "wipe_tokens", !.tdoc = tokens] ELSE NoHello]
  /\ entitled' = IF Redeemable(c) THEN entitled \cup {hs[c].device} ELSE entitled
  /\ UNCHANGED <<serving, tokens, issued, devices, memory, watcher, spent, paired, disturbed>>

(* Seeded fault: the result of the redemption is not looked at. *)
redeem_unchecked(c) ==
  /\ At(c, "redeem")
  /\ hs' = [hs EXCEPT ![c].at = "wipe_tokens", ![c].tdoc = tokens \ {hs[c].token}]
  /\ entitled' = IF Redeemable(c) THEN entitled \cup {hs[c].device} ELSE entitled
  /\ UNCHANGED <<serving, tokens, issued, devices, memory, watcher, spent, paired, disturbed>>

(* load_manager and redeem; without a use left the device is refused. *)
redeem_invite_token(c) ==
  /\ At(c, "redeem")
  /\ hs' = [hs EXCEPT ![c] = IF Redeemable(c)
              THEN [@ EXCEPT !.at = "wipe_tokens", !.tdoc = tokens \ {hs[c].token}]
              ELSE NoHello]
  /\ entitled' = IF Redeemable(c) THEN entitled \cup {hs[c].device} ELSE entitled
  /\ UNCHANGED <<serving, tokens, issued, devices, memory, watcher, spent, paired, disturbed>>

WipeTokens(c) ==
  /\ At(c, "wipe_tokens")
  /\ tokens' = {}
  /\ Go(c, "fill_tokens")
  /\ UNCHANGED <<serving, issued, devices, memory, watcher, spent, entitled, paired, disturbed>>

(* persist_manager, done. *)
persist_manager(c) ==
  /\ At(c, "fill_tokens")
  /\ tokens' = hs[c].tdoc
  /\ spent' = spent \cup {hs[c].token}
  /\ Go(c, "authorize")
  /\ UNCHANGED <<serving, issued, devices, memory, watcher, entitled, paired, disturbed>>

(* Seeded fault: the document is started anew. *)
authorize_alone(c) ==
  /\ At(c, "authorize")
  /\ hs' = [hs EXCEPT ![c].at = "wipe_devices", ![c].ddoc = {hs[c].device}]
  /\ disturbed' = (disturbed \/ UpdateUnderWay)
  /\ UNCHANGED <<serving, tokens, issued, devices, memory, watcher, spent, entitled, paired>>

(* load_devices_file; a device that is listed already is not added. *)
authorize_device_key(c) ==
  /\ At(c, "authorize")
  /\ hs' = [hs EXCEPT ![c] = IF hs[c].device \in devices THEN [@ EXCEPT !.at = "reload"]
              ELSE [@ EXCEPT !.at = "wipe_devices", !.ddoc = devices \cup {hs[c].device}]]
  /\ disturbed' = (disturbed \/ UpdateUnderWay)
  /\ UNCHANGED <<serving, tokens, issued, devices, memory, watcher, spent, entitled, paired>>

WipeDevices(c) ==
  /\ At(c, "wipe_devices")
  /\ devices' = {}
  /\ Go(c, "fill_devices")
  /\ Notified
  /\ UNCHANGED <<serving, tokens, issued, memory, spent, entitled, paired, disturbed>>

persist_devices_file(c) ==
  /\ At(c, "fill_devices")
  /\ devices' = hs[c].ddoc
  /\ paired' = paired \cup {hs[c].device}
  /\ Go(c, "reload")
  /\ Notified
  /\ UNCHANGED <<serving, tokens, issued, memory, spent, entitled, disturbed>>

(* A write fails: the file stays empty and the handshake is over. *)
WriteFails(c) ==
  /\ At(c, "fill_tokens") \/ At(c, "fill_devices")
  /\ disturbed' = (disturbed \/ At(c, "fill_devices"))
  /\ Ends(c)
  /\ UNCHANGED <<serving, tokens, issued, devices, memory, watcher, spent, entitled, paired>>

(* reload reads the file first and takes the lock afterwards. *)
ReadDevices(c) ==
  /\ At(c, "reload")
  /\ hs' = [hs EXCEPT ![c].at = "assign", ![c].ddoc = devices]
  /\ UNCHANGED <<serving, tokens, issued, devices, memory, watcher, spent, entitled, paired,
                 disturbed>>

reload(c) ==
  /\ At(c, "assign")
  /\ memory' = hs[c].ddoc
  /\ Go(c, "challenge")
  /\ UNCHANGED <<serving, tokens, issued, devices, watcher, spent, entitled, paired, disturbed>>

(* The proof is good, or not, or does not come. *)
ChallengeEnds(c) ==
  /\ At(c, "challenge")
  /\ Ends(c)
  /\ UNCHANGED <<serving, tokens, issued, devices, memory, watcher, spent, entitled, paired,
                 disturbed>>

HandshakeStep(c) == \/ redeem_invite_token(c)
                    \/ WipeTokens(c)
                    \/ persist_manager(c)
                    \/ authorize_device_key(c)
                    \/ WipeDevices(c)
                    \/ persist_devices_file(c)
                    \/ WriteFails(c)
                    \/ ReadDevices(c)
                    \/ reload(c)
                    \/ ChallengeEnds(c)

-----------------------------------------------------------------------------
(* The watcher's thread and the operator. *)

WatcherEvent ==
  /\ serving /\ watcher.at = "wait" /\ watcher.pending > 0
  /\ watcher' = IF watcher.recent THEN [watcher EXCEPT !.pending = @ - 1]
                ELSE [at |-> "assign", doc |-> devices, recent |-> TRUE,
                      pending |-> watcher.pending - 1]
  /\ UNCHANGED <<serving, tokens, issued, devices, memory, hs, spent, entitled, paired,
                 disturbed>>

WatcherAssigns ==
  /\ watcher.at = "assign"
  /\ memory' = watcher.doc
  /\ watcher' = [watcher EXCEPT !.at = "wait", !.doc = {}]
  /\ UNCHANGED <<serving, tokens, issued, devices, hs, spent, entitled, paired, disturbed>>

DebounceEnds ==
  /\ watcher.recent
  /\ watcher' = [watcher EXCEPT !.recent = FALSE]
  /\ UNCHANGED <<serving, tokens, issued, devices, memory, hs, spent, entitled, paired,
                 disturbed>>

WatcherStep == WatcherEvent \/ WatcherAssigns \/ DebounceEnds

(* The operator adds a device or takes one out. *)
OperatorEdits(d) ==
  /\ devices' = IF d \in devices THEN devices \ {d} ELSE devices \cup {d}
  /\ entitled' = entitled \cup {d}
  /\ paired' = paired \ {d}
  /\ disturbed' = (disturbed \/ UpdateUnderWay)
  /\ watcher' = IF serving THEN [watcher EXCEPT !.pending = @ + 1] ELSE watcher
  /\ UNCHANGED <<serving, tokens, issued, memory, hs, spent>>

-----------------------------------------------------------------------------
(* A start loads the devices and sees to it that there is a token to       *)
(* redeem.                                                                 *)
ensure_startup_invite ==
  /\ ~serving
  /\ serving' = TRUE
  /\ memory' = devices
  /\ watcher' = Watching
  /\ issued' = IF tokens = {} THEN issued + 1 ELSE issued
  /\ tokens' = IF tokens = {} THEN {issued + 1} ELSE tokens
  /\ UNCHANGED <<devices, hs, spent, entitled, paired, disturbed>>

(* The new token was not written, or not to the end. *)
InviteCutShort ==
  /\ ~serving /\ tokens = {}
  /\ issued' = issued + 1
  /\ UNCHANGED <<serving, tokens, devices, memory, hs, watcher, spent, entitled, paired, disturbed>>

(* The process is gone, and with it whatever its threads were about to do. *)
ServerGone ==
  /\ serving
  /\ serving' = FALSE
  /\ memory' = {}
  /\ hs' = [c \in Conn |-> NoHello]
  /\ watcher' = Watching
  /\ disturbed' = (disturbed \/ \E c \in Conn : At(c, "fill_devices"))
  /\ UNCHANGED <<tokens, issued, devices, spent, entitled, paired>>

PairingNext == \/ \E c \in Conn, d \in Device, t \in 0..issued : Hello(c, d, t)
               \/ \E c \in Conn : HandshakeStep(c)
               \/ WatcherStep
               \/ \E d \in Device : OperatorEdits(d)
               \/ ensure_startup_invite
               \/ InviteCutShort
               \/ ServerGone

PairingSpec == PairingInit /\ [][PairingNext]_pairingVars

-----------------------------------------------------------------------------
PairingTypeOK ==
  /\ serving \in BOOLEAN /\ disturbed \in BOOLEAN
  /\ tokens \subseteq Nat /\ issued \in Nat
  /\ devices \subseteq Device /\ memory \subseteq Device
  /\ hs \in [Conn -> Handshake]
  /\ watcher \in Watcher
  /\ spent \subseteq Nat
  /\ entitled \subseteq Device /\ paired \subseteq Device

(* A token that was written down as spent can never be redeemed again:     *)
(* neither a handshake that read the file before and writes it later, nor  *)
(* a write cut short, nor a restart that issues another brings it back.    *)
SpentStaysSpent == spent \cap tokens = {}

(* No device gets into the file or into memory unless the operator entered *)
(* it or a token was redeemed for it, in whatever order the handshakes,    *)
(* the watcher and the operator read, empty and fill the file.             *)
KeysComeFromPairing == devices \cup memory \subseteq entitled

(* As long as no update of the devices file overlaps another and none is   *)
(* cut short, a device that was paired stays in the file until the         *)
(* operator takes it out.  Every variable keeps its type.                  *)
PairedAreKept ==
  /\ PairingTypeOK
  /\ ~disturbed /\ (\A c \in Conn : ~At(c, "fill_devices")) => paired \subseteq devices

=============================================================================
