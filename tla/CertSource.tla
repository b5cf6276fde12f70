----------------------------- MODULE CertSource -----------------------------
(***************************************************************************)
(* What a client sees of the server's certificate: the one that TLS over   *)
(* TCP presents, and the one that the certificate proof is made for and    *)
(* that QUIC presents.  Certificates are numbered in the order of issue.   *)
(* CertRenewal implements this; PathSetup dials against it.                *)
(***************************************************************************)
EXTENDS Naturals

CONSTANT MaxCert

VARIABLES cert,             \* presented over TCP
          proven            \* BootstrapContext::tls_cert_der, and QUIC's

CertInit == cert = 1 /\ proven = 1

(* ACME renews the certificate of a running server: the acceptor is        *)
(* replaced, the proof and QUIC stay with the old certificate.             *)
Renewed == /\ cert < MaxCert
           /\ cert' \in (cert + 1)..MaxCert
           /\ UNCHANGED proven

(* The server restarts and loads what is on disk. *)
Restarted == /\ cert' \in cert..MaxCert
             /\ proven' = cert'

CertSpec == CertInit /\ [][Renewed \/ Restarted]_<<cert, proven>>

=============================================================================
