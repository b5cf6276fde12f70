----------------------------- MODULE ServerHost -----------------------------
(***************************************************************************)
(* The life of the server process (main.rs of bonded-server): it sets the  *)
(* network up, loads the keys and the invite, loads the certificate, then  *)
(* serves until ctrl-c, which runs the destructors, or until it is killed, *)
(* which does not.  Composes NetworkRuntime, Pairing and CertRenewal,      *)
(* whose files and rules outlive it.                                       *)
(***************************************************************************)
EXTENDS Pairing, NetworkRuntime, CertRenewal

(* A host: tun, acme: its configuration; starts, hellos, edits: bounds on  *)
(* the starts, the handshakes and the operator's edits.                    *)
CONSTANT Hosts

VARIABLES host, phase, starts, hellos, edits

hostVars == <<host, starts, hellos, edits>>

vars == <<pairingVars, networkVars, certVars, hostVars, phase>>

Init == /\ PairingInit /\ NetworkInit /\ CertInit
        /\ host \in Hosts
        /\ ~host.tun => found = [rules |-> {}, ip_forward |-> 0]
        /\ host.hellos = 0 /\ host.edits = 0 => devices = {}
        /\ phase = "down"
        /\ starts = 0 /\ hellos = 0 /\ edits = 0

NetworkStep(A, next) ==
  A /\ phase' = next /\ UNCHANGED <<pairingVars, certVars, hostVars>>

(* main begins; the state files are there, or are created empty. *)
Start == /\ phase = "down" /\ starts < host.starts
         /\ starts' = starts + 1
         /\ phase' = IF host.tun THEN "network" ELSE "keys"
         /\ UNCHANGED <<pairingVars, networkVars, certVars, host, hellos, edits>>

SetUpNetwork == /\ phase = "network" /\ ~NetworkReady
                /\ \/ NetworkStep(setup, "network")
                   \/ NetworkStep(SetupFails, "down")
                   \/ NetworkStep(EnableForwarding, "network")
                   \/ NetworkStep(ensure_rule, "network")
                   \/ NetworkStep(EnsureRuleFails, "cleanup")

NetworkDone == /\ phase = "network" /\ NetworkReady
               /\ phase' = "keys"
               /\ UNCHANGED <<pairingVars, networkVars, certVars, hostVars>>

LoadKeys == /\ phase = "keys"
            /\ \/ ensure_startup_invite /\ phase' = "tls"
               \/ InviteCutShort /\ phase' = "failing"
            /\ UNCHANGED <<networkVars, certVars, hostVars>>

LoadCertificate == /\ phase = "tls"
                   /\ \/ LoadTls /\ phase' = "up"
                      \/ SelfSignedCutShort /\ phase' = "failing"
                   /\ UNCHANGED <<pairingVars, networkVars, hostVars>>

(* A file cannot be read or a listener cannot be bound: main returns. *)
StartFails == /\ phase \in {"keys", "tls"}
              /\ phase' = "failing"
              /\ UNCHANGED <<pairingVars, networkVars, certVars, hostVars>>

-----------------------------------------------------------------------------
(* The tasks run until the runtime goes, which is after main's destructors. *)
Up == phase \in {"up", "stopping"}

Pair == /\ \/ /\ Up /\ hellos < host.hellos
              /\ hellos' = hellos + 1
              /\ \E c \in Conn, d \in Device, t \in 0..issued : Hello(c, d, t)
           \/ (\E c \in Conn : HandshakeStep(c)) /\ UNCHANGED hellos
           \/ WatcherStep /\ UNCHANGED hellos
        /\ UNCHANGED <<networkVars, certVars, host, phase, starts, edits>>

Edit == /\ edits < host.edits
        /\ edits' = edits + 1
        /\ \E d \in Device : OperatorEdits(d)
        /\ UNCHANGED <<networkVars, certVars, host, phase, starts, hellos>>

Renew == /\ Up /\ host.acme
         /\ AcmeStep
         /\ UNCHANGED <<pairingVars, networkVars, hostVars, phase>>

(* No await separates the writes of a handshake, or those of a renewal: a  *)
(* task that has begun them finishes them before the runtime goes.         *)
NoTaskWrites == /\ ~Writing
                /\ \A c \in Conn : hs[c].at \in {"idle", "challenge"}

TasksEnd == /\ IF serving THEN ServerGone ELSE UNCHANGED pairingVars
            /\ CertStops

(* ctrl-c, or a start that failed: main returns and its destructors run,   *)
(* while the tasks it has spawned still do.                                *)
Shutdown == /\ phase \in {"up", "failing"}
            /\ phase' = IF phase = "up" THEN "stopping" ELSE "cleanup"
            /\ IF host.tun THEN BeginDrop ELSE UNCHANGED networkVars
            /\ UNCHANGED <<pairingVars, certVars, hostVars>>

Ending == phase \in {"stopping", "cleanup"}

Cleanup == /\ Ending
           /\ DropStep
           /\ UNCHANGED <<pairingVars, certVars, hostVars, phase>>

Exit == /\ Ending /\ NetworkDown
        /\ NoTaskWrites
        /\ TasksEnd
        /\ phase' = "down"
        /\ UNCHANGED <<networkVars, hostVars>>

Killed == /\ phase # "down"
          /\ TasksEnd
          /\ NetworkKilled
          /\ phase' = "down"
          /\ UNCHANGED hostVars

Next == \/ Start
        \/ SetUpNetwork
        \/ NetworkDone
        \/ LoadKeys
        \/ LoadCertificate
        \/ StartFails
        \/ Pair
        \/ Edit
        \/ Renew
        \/ Shutdown
        \/ Cleanup
        \/ Exit
        \/ Killed

Spec == Init /\ [][Next]_vars

=============================================================================
