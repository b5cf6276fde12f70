---------------------------- MODULE CertRenewal ----------------------------
(***************************************************************************)
(* The server's certificate (acme.rs and main.rs of bonded-server): made   *)
(* at the first start, loaded at each, renewed by a loop that answers a    *)
(* TLS-ALPN-01 challenge, writes the two files one after the other and     *)
(* swaps the acceptor.  A file is Absent, Torn (emptied by fs::write and   *)
(* not filled) or the number of the pair it belongs to.                    *)
(***************************************************************************)
EXTENDS Naturals

CONSTANT MaxPair            \* bound: the last pair that is made

VARIABLES tls_cert_file, tls_key_file,
          made,             \* pairs made so far
          due,              \* the certificate on disk is self-signed, or has
                            \* less than 30 days to go
          tls,              \* tls_slot: the acceptor's chain and key
          tls_cert_der,     \* of the proof and of QUIC
          acme_slot,        \* a challenge certificate is installed
          acme,             \* where the renewal loop is
          damaged           \* history: the last write of a pair was cut short

certVars == <<tls_cert_file, tls_key_file, made, due, tls, tls_cert_der, acme_slot, acme,
              damaged>>

Absent == 0
Torn == 1
FirstPair == 2

(* There is at least the pair of the first start. *)
ASSUME MaxPairAssumption == MaxPair \in Nat /\ MaxPair >= FirstPair

CertInit == /\ tls_cert_file = Absent /\ tls_key_file = Absent
            /\ made = Torn
            /\ due = TRUE
            /\ tls = [chain |-> FirstPair, key |-> FirstPair]
            /\ tls_cert_der = FirstPair
            /\ acme_slot = FALSE
            /\ acme = "off"
            /\ damaged = FALSE

New == made + 1

MayMake == made < MaxPair

(* ensure_self_signed_cert writes a pair if one of the files is not there. *)
NeedsSelfSigned == Absent \in {tls_cert_file, tls_key_file}

(* Seeded fault: the proof's certificate is taken from a file of its own   *)
(* that is written once.                                                   *)
load_tls_acceptor_once(certificate, key) ==
  /\ Torn \notin {certificate, key}
  /\ tls' = [chain |-> certificate, key |-> key]
  /\ UNCHANGED tls_cert_der

(* At the start: an unreadable file is an error; that the key fits the     *)
(* certificate is not asked.                                               *)
load_tls_acceptor(certificate, key) ==
  /\ Torn \notin {certificate, key}
  /\ tls' = [chain |-> certificate, key |-> key]
  /\ tls_cert_der' = certificate

LoadTls ==
  \/ /\ NeedsSelfSigned /\ MayMake
     /\ made' = New
     /\ tls_cert_file' = New /\ tls_key_file' = New
     /\ due' = TRUE
     /\ load_tls_acceptor(New, New)
     /\ damaged' = FALSE
     /\ UNCHANGED <<acme_slot, acme>>
  \/ /\ ~NeedsSelfSigned
     /\ load_tls_acceptor(tls_cert_file, tls_key_file)
     /\ UNCHANGED <<tls_cert_file, tls_key_file, made, due, acme_slot, acme, damaged>>

(* The self-signed pair is not written to its end: its first file torn, or *)
(* whole and the second what it was, or torn.                              *)
SelfSignedCutShort ==
  /\ NeedsSelfSigned /\ MayMake
  /\ made' = New
  /\ \/ tls_cert_file' = Torn /\ UNCHANGED tls_key_file
     \/ tls_cert_file' = New /\ tls_key_file' \in {tls_key_file, Torn}
  /\ due' = TRUE
  /\ damaged' = TRUE
  /\ UNCHANGED <<tls, tls_cert_der, acme_slot, acme>>

-----------------------------------------------------------------------------
(* spawn_acme_renewal_loop and run_acme_cycle. *)

Loop(from, to) == acme = from /\ acme' = to

SpawnLoop == /\ Loop("off", "check")
             /\ UNCHANGED <<tls_cert_file, tls_key_file, made, due, tls, tls_cert_der,
                            acme_slot, damaged>>

CheckExpiry == /\ acme = "check"
               /\ acme' = IF due THEN "order" ELSE "sleep"
               /\ UNCHANGED <<tls_cert_file, tls_key_file, made, due, tls, tls_cert_der,
                              acme_slot, damaged>>

(* The order and its authorization have come: the challenge certificate is *)
(* installed before the CA is told.                                        *)
InstallChallenge == /\ Loop("order", "validate")
                    /\ acme_slot' = TRUE
                    /\ UNCHANGED <<tls_cert_file, tls_key_file, made, due, tls, tls_cert_der,
                                   damaged>>

(* An exchange with the CA fails: the cycle ends, and the slot stays as it *)
(* is.                                                                     *)
ExchangeFails == /\ acme \in {"order", "validate", "finalize"}
                 /\ acme' = "sleep"
                 /\ UNCHANGED <<tls_cert_file, tls_key_file, made, due, tls, tls_cert_der,
                                acme_slot, damaged>>

(* The order is ready; or it is invalid, or 60 s have passed. *)
Validated == /\ Loop("validate", "finalize") \/ Loop("validate", "sleep")
             /\ acme_slot' = FALSE
             /\ UNCHANGED <<tls_cert_file, tls_key_file, made, due, tls, tls_cert_der, damaged>>

(* The certificate for a new key is downloaded, and its file emptied. *)
Finalized == /\ MayMake
             /\ Loop("finalize", "fill_cert")
             /\ made' = New
             /\ tls_cert_file' = Torn
             /\ UNCHANGED <<tls_key_file, due, tls, tls_cert_der, acme_slot, damaged>>

(* Seeded fault: the loop reports the renewal when the certificate is on   *)
(* disk.                                                                   *)
WriteCertReloads == /\ Loop("fill_cert", "reload")
                    /\ tls_cert_file' = made
                    /\ due' = FALSE
                    /\ UNCHANGED <<tls_key_file, made, tls, tls_cert_der, acme_slot, damaged>>

WriteCert == /\ Loop("fill_cert", "empty_key")
             /\ tls_cert_file' = made
             /\ due' = FALSE
             /\ UNCHANGED <<tls_key_file, made, tls, tls_cert_der, acme_slot, damaged>>

EmptyKey == /\ Loop("empty_key", "fill_key")
            /\ tls_key_file' = Torn
            /\ UNCHANGED <<tls_cert_file, made, due, tls, tls_cert_der, acme_slot, damaged>>

WriteKey == /\ Loop("fill_key", "reload")
            /\ tls_key_file' = made
            /\ UNCHANGED <<tls_cert_file, made, due, tls, tls_cert_der, acme_slot, damaged>>

Writing == acme \in {"fill_cert", "empty_key", "fill_key"}

WriteCertFails == /\ Writing
                  /\ acme' = "sleep"
                  /\ due' = (acme = "fill_cert")
                  /\ damaged' = TRUE
                  /\ UNCHANGED <<tls_cert_file, tls_key_file, made, tls, tls_cert_der,
                                 acme_slot>>

(* on_renewed swaps the acceptor and drops the rest of what it has loaded. *)
ReloadAcceptor == /\ Loop("reload", "sleep")
                  /\ tls' = [chain |-> tls_cert_file, key |-> tls_key_file]
                  /\ damaged' = FALSE
                  /\ UNCHANGED <<tls_cert_file, tls_key_file, made, due, tls_cert_der,
                                 acme_slot>>

(* The hour, or the days until the renewal window opens, have passed. *)
Wakes == /\ Loop("sleep", "check")
         /\ due' \in {due, TRUE}
         /\ UNCHANGED <<tls_cert_file, tls_key_file, made, tls, tls_cert_der, acme_slot,
                        damaged>>

AcmeStep == \/ SpawnLoop
            \/ CheckExpiry
            \/ InstallChallenge
            \/ ExchangeFails
            \/ Validated
            \/ Finalized
            \/ WriteCert
            \/ EmptyKey
            \/ WriteKey
            \/ WriteCertFails
            \/ ReloadAcceptor
            \/ Wakes

(* The process ends; the files stay. *)
CertStops == /\ acme' = "off"
             /\ acme_slot' = FALSE
             /\ damaged' = (damaged \/ Writing)
             /\ UNCHANGED <<tls_cert_file, tls_key_file, made, due, tls, tls_cert_der>>

-----------------------------------------------------------------------------
CertTypeOK == /\ {tls_cert_file, tls_key_file} \subseteq Absent..MaxPair
              /\ made \in Torn..MaxPair
              /\ tls \in [chain : FirstPair..MaxPair, key : FirstPair..MaxPair]
              /\ tls_cert_der \in FirstPair..MaxPair
              /\ due \in BOOLEAN /\ acme_slot \in BOOLEAN /\ damaged \in BOOLEAN

(* The acceptor never has the certificate of one pair and the key of       *)
(* another, at a start or after a renewal, except from a write of a pair   *)
(* that was cut short to the next that is not.  Every variable keeps its   *)
(* type.                                                                   *)
ServedPairMatches == CertTypeOK /\ (~damaged => tls.chain = tls.key)

Source == INSTANCE CertSource WITH MaxCert <- MaxPair - 1, cert <- tls.chain - 1,
                                   proven <- tls_cert_der - 1

(* The loop and the starts show the clients what CertSource says: a        *)
(* certificate is never followed by an older one, and a renewal leaves the *)
(* proof behind; where no loop runs, only a start changes what they see,   *)
(* and it brings the proof up to the acceptor.                             *)
ShowsCerts == /\ Source!CertSpec
              /\ [][acme = "off" => tls_cert_der' = tls'.chain]_<<tls, tls_cert_der>>

=============================================================================
